------------------------ MODULE CoordinatorLeaseProofs ------------------------
(***************************************************************************)
(* Proofs about CoordinatorLease for every set of workbenches and every     *)
(* bound on the generations and the faults.                                 *)
(***************************************************************************)
EXTENDS CoordinatorLease, TLAPS

Holding(w) == role[w] \in {"locked", "numbered", "coordinator", "resigning"}

(* The inductive invariant, in parts. *)

\* The lock file is locked exactly by the workbench between try_lock and unlock.
LockOwned ==
    /\ \A w \in Workbench : Holding(w) => locked = {w}
    /\ \A w \in locked : Holding(w)

\* generation.json is never behind a coordinator, past or present, and is ahead
\* of all the past ones once the next has drawn its number.
GenerationAhead ==
    /\ established <= generation
    /\ \A w \in Workbench : role[w] \in {"numbered", "coordinator"} => mine[w] = generation
    /\ \A w \in Workbench : role[w] = "numbered" => established < generation

\* coordinator.json is somebody's who did coordinate, and not a later one's.
DescriptorPast ==
    /\ \A d \in descriptor : d.generation <= established
    /\ \A d, e \in descriptor : d = e

LeaseInv == TypeOK /\ LockOwned /\ GenerationAhead /\ DescriptorPast /\ DescriptorIsCoordinators

-----------------------------------------------------------------------------
LEMMA InitInv == Init => LeaseInv
    BY LeaseAssumption
    DEF Init, LeaseInv, TypeOK, Role, LockOwned, Holding, GenerationAhead, DescriptorPast,
        DescriptorIsCoordinators, Coordinates

LEMMA NextTyped == ASSUME TypeOK, [Next]_vars PROVE TypeOK'
<1> USE LeaseAssumption
<1>1. CASE UNCHANGED vars
    BY <1>1 DEF TypeOK, vars
<1>2. ASSUME NEW w \in Workbench, Launch(w) PROVE TypeOK'
    BY <1>2 DEF TypeOK, Launch, Becomes, Role
<1>3. ASSUME NEW w \in Workbench, TryLock(w) PROVE TypeOK'
    BY <1>3 DEF TypeOK, TryLock, Becomes, Role
<1>4. ASSUME NEW w \in Workbench, WriteGeneration(w) PROVE TypeOK'
    <2>1. NextGeneration(generation) \in 0..MaxGeneration
        BY <1>4 DEF TypeOK, WriteGeneration, NextGeneration
    <2> QED
        BY <1>4, <2>1 DEF TypeOK, WriteGeneration, Becomes, Role
<1>5. ASSUME NEW w \in Workbench, WriteDescriptor(w) PROVE TypeOK'
    <2>1. mine[w] \in 0..MaxGeneration
        BY DEF TypeOK
    <2> QED
        BY <1>5, <2>1 DEF TypeOK, WriteDescriptor, Becomes, Role
<1>6. ASSUME NEW w \in Workbench, Fail(w) PROVE TypeOK'
    BY <1>6 DEF TypeOK, Fail, Becomes, Role
<1>7. ASSUME NEW w \in Workbench, Resign(w) PROVE TypeOK'
    BY <1>7 DEF TypeOK, Resign, Becomes, Role, Mine
<1>8. ASSUME NEW w \in Workbench, Unlock(w) \/ Crash(w) PROVE TypeOK'
    BY <1>8 DEF TypeOK, Unlock, Crash, Becomes, Role
<1> QED
    BY <1>1, <1>2, <1>3, <1>4, <1>5, <1>6, <1>7, <1>8 DEF Next, Acquire

\* The steps of one workbench leave the roles of the others alone.
LEMMA BecomesOne ==
    ASSUME TypeOK, NEW w \in Workbench, NEW r, Becomes(w, r)
    PROVE  role'[w] = r /\ \A v \in Workbench \ {w} : role'[v] = role[v]
    BY DEF TypeOK, Becomes

LEMMA NextInv == ASSUME LeaseInv, [Next]_vars PROVE LeaseInv'
<1> USE DEF LeaseInv
<1>0. TypeOK'
    BY NextTyped
<1>1. CASE UNCHANGED vars
    BY <1>0, <1>1 DEF vars, LockOwned, Holding, GenerationAhead, DescriptorPast,
                      DescriptorIsCoordinators, Coordinates
<1>2. ASSUME NEW w \in Workbench, Launch(w) PROVE LeaseInv'
    <2>1. role'[w] = "follower" /\ \A v \in Workbench \ {w} : role'[v] = role[v]
        BY <1>2, BecomesOne DEF Launch
    <2> QED
        BY <1>0, <1>2, <2>1 DEF Launch, TypeOK, LockOwned, Holding, GenerationAhead, DescriptorPast,
                                DescriptorIsCoordinators, Coordinates
<1>3. ASSUME NEW w \in Workbench, TryLock(w) PROVE LeaseInv'
    <2>1. role'[w] = "locked" /\ \A v \in Workbench \ {w} : role'[v] = role[v]
        BY <1>3, BecomesOne DEF TryLock
    <2>2. LockOwned'
        BY <1>3, <2>1 DEF TryLock, LockOwned, Holding
    <2> QED
        BY <1>0, <1>3, <2>1, <2>2 DEF TryLock, GenerationAhead, DescriptorPast,
                                      DescriptorIsCoordinators, Coordinates
<1>4. ASSUME NEW w \in Workbench, WriteGeneration(w) PROVE LeaseInv'
    <2>1. role'[w] = "numbered" /\ \A v \in Workbench \ {w} : role'[v] = role[v]
        BY <1>4, BecomesOne DEF WriteGeneration
    <2>2. locked = {w} /\ \A v \in Workbench \ {w} : ~Holding(v)
        BY <1>4 DEF WriteGeneration, LockOwned, Holding
    <2>3. LockOwned'
        BY <1>4, <2>1, <2>2 DEF WriteGeneration, LockOwned, Holding
    <2>4. mine'[w] = generation' /\ generation' = generation + 1
        BY <1>4 DEF TypeOK, WriteGeneration, NextGeneration
    <2>5. GenerationAhead'
        BY <1>4, <2>1, <2>2, <2>4 DEF TypeOK, WriteGeneration, GenerationAhead, Holding
    <2>6. DescriptorIsCoordinators' /\ DescriptorPast'
        BY <1>4, <2>1, <2>2 DEF WriteGeneration, DescriptorIsCoordinators, Coordinates,
                                DescriptorPast, Holding
    <2> QED
        BY <1>0, <2>3, <2>5, <2>6
<1>5. ASSUME NEW w \in Workbench, WriteDescriptor(w) PROVE LeaseInv'
    <2>1. role'[w] = "coordinator" /\ \A v \in Workbench \ {w} : role'[v] = role[v]
        BY <1>5, BecomesOne DEF WriteDescriptor
    <2>2. \A v \in Workbench \ {w} : ~Holding(v)
        BY <1>5 DEF WriteDescriptor, LockOwned, Holding
    <2>3. LockOwned'
        BY <1>5, <2>1 DEF WriteDescriptor, LockOwned, Holding
    <2>4. mine[w] = generation /\ mine[w] \in Nat
        BY <1>5 DEF TypeOK, WriteDescriptor, GenerationAhead
    <2>5. GenerationAhead' /\ DescriptorPast'
        BY <1>5, <2>1, <2>2, <2>4
        DEF TypeOK, WriteDescriptor, GenerationAhead, DescriptorPast, Holding
    <2>6. DescriptorIsCoordinators'
        BY <1>5, <2>1, <2>2 DEF WriteDescriptor, DescriptorIsCoordinators, Coordinates, Holding
    <2> QED
        BY <1>0, <2>3, <2>5, <2>6
<1>6. ASSUME NEW w \in Workbench, Fail(w) PROVE LeaseInv'
    <2>1. role'[w] = "follower" /\ \A v \in Workbench \ {w} : role'[v] = role[v]
        BY <1>6, BecomesOne DEF Fail
    <2>2. \A v \in Workbench \ {w} : ~Holding(v)
        BY <1>6 DEF Fail, LockOwned, Holding
    <2> QED
        BY <1>0, <1>6, <2>1, <2>2 DEF Fail, LockOwned, Holding, GenerationAhead, DescriptorPast,
                                      DescriptorIsCoordinators, Coordinates
<1>7. ASSUME NEW w \in Workbench, Resign(w) PROVE LeaseInv'
    <2>1. role'[w] = "resigning" /\ \A v \in Workbench \ {w} : role'[v] = role[v]
        BY <1>7, BecomesOne DEF Resign
    <2>2. \A v \in Workbench \ {w} : ~Holding(v)
        BY <1>7 DEF Resign, LockOwned, Holding
    <2>3. LockOwned'
        BY <1>7, <2>1 DEF Resign, LockOwned, Holding
    <2>4. GenerationAhead' /\ DescriptorPast'
        BY <1>7, <2>1 DEF Resign, Mine, GenerationAhead, DescriptorPast
    <2>5. DescriptorIsCoordinators'
        BY <2>1, <2>2 DEF DescriptorIsCoordinators, Coordinates, Holding
    <2> QED
        BY <1>0, <2>3, <2>4, <2>5
<1>8. ASSUME NEW w \in Workbench, Unlock(w) \/ Crash(w) PROVE LeaseInv'
    <2>1. role'[w] = "gone" /\ \A v \in Workbench \ {w} : role'[v] = role[v]
        BY <1>8, BecomesOne DEF Unlock, Crash
    <2>2. LockOwned'
        <3>1. locked' = locked \ {w}
            BY <1>8 DEF Unlock, Crash, LockOwned, Holding
        <3>2. \A v \in Workbench \ {w} : Holding(v) => w \notin locked
            BY DEF LockOwned
        <3> QED
            BY <2>1, <3>1, <3>2 DEF TypeOK, LockOwned, Holding
    <2> QED
        BY <1>0, <1>8, <2>1, <2>2 DEF Unlock, Crash, GenerationAhead, DescriptorPast,
                                      DescriptorIsCoordinators, Coordinates
<1> QED
    BY <1>1, <1>2, <1>3, <1>4, <1>5, <1>6, <1>7, <1>8 DEF Next, Acquire

LEMMA LeaseInductive == Spec => []LeaseInv
    BY InitInv, NextInv, PTL DEF Spec

\* The variables of coordinator/mod.rs and its files keep their shape; the
\* generation never passes its maximum.
THEOREM LeaseTypeCorrect == Spec => []TypeOK
<1>1. LeaseInv => TypeOK
    BY DEF LeaseInv
<1> QED
    BY <1>1, LeaseInductive, PTL

\* Readers of coordinator.json find the workbench that coordinates.
THEOREM DescriptorFaithful == Spec => []DescriptorIsCoordinators
<1>1. LeaseInv => DescriptorIsCoordinators
    BY DEF LeaseInv
<1> QED
    BY <1>1, LeaseInductive, PTL

\* Stale descriptors of crashed coordinators are only ever overtaken.
THEOREM DescriptorMonotone == Spec => DescriptorAdvances
<1>1. ASSUME LeaseInv, [Next]_vars, NEW d \in descriptor, NEW e \in descriptor', d # e
      PROVE  e.generation > d.generation
    <2>1. e \notin descriptor
        BY <1>1 DEF LeaseInv, DescriptorPast
    <2>2. PICK w \in Workbench : WriteDescriptor(w)
        BY <1>1, <2>1 DEF Next, vars, Acquire, Launch, TryLock, WriteGeneration, Fail, Resign,
                          Unlock, Crash
    <2>3. e.generation = generation /\ established < generation
        BY <1>1, <2>2 DEF LeaseInv, WriteDescriptor, GenerationAhead
    <2>4. d.generation <= established /\ d.generation \in Nat /\ established \in Nat
          /\ generation \in Nat
        BY <1>1 DEF LeaseInv, TypeOK, DescriptorPast
    <2> QED
        BY <2>3, <2>4
<1>2. LeaseInv /\ [Next]_vars =>
        [\A d \in descriptor, e \in descriptor' : d # e => e.generation > d.generation]_vars
    BY <1>1
<1> QED
    BY <1>2, LeaseInductive, PTL DEF Spec, DescriptorAdvances

-----------------------------------------------------------------------------
(* The election implements FencedLeader. *)

Leader == {w \in Workbench : Coordinates(w)}

LEMMA OneLeader == ASSUME LeaseInv PROVE \A v, w \in Leader : v = w
    BY DEF LeaseInv, LockOwned, Holding, Leader, Coordinates

LEMMA StepFenced ==
    ASSUME LeaseInv, [Next]_vars
    PROVE  [Abstract!Elect \/ Abstract!Retire]_<<Leader, established>>
<1>1. ASSUME NEW w \in Workbench, WriteDescriptor(w) PROVE Abstract!Elect
    <2>1. role'[w] = "coordinator" /\ \A v \in Workbench \ {w} : role'[v] = role[v]
        BY <1>1, BecomesOne DEF WriteDescriptor, LeaseInv
    <2>2. Leader = {}
        BY <1>1 DEF WriteDescriptor, LeaseInv, LockOwned, Holding, Leader, Coordinates
    <2>3. Leader' = {w}
        BY <2>1, <2>2 DEF Leader, Coordinates
    <2>4. established' \in Nat /\ established' > established
        BY <1>1 DEF WriteDescriptor, LeaseInv, TypeOK, GenerationAhead
    <2> QED
        BY <2>2, <2>3, <2>4 DEF Abstract!Elect, Leader
<1>2. ASSUME NEW w \in Workbench, Resign(w) \/ Crash(w), Coordinates(w) PROVE Abstract!Retire
    <2>1. ~Coordinates(w)' /\ \A v \in Workbench \ {w} : role'[v] = role[v]
        BY <1>2, BecomesOne DEF Resign, Crash, LeaseInv, Coordinates
    <2>2. Leader # {} /\ Leader' = {}
        BY <1>2, <2>1, OneLeader DEF Leader, Coordinates
    <2> QED
        BY <1>2, <2>2 DEF Abstract!Retire, Leader, Resign, Crash
<1>3. ASSUME NEW w \in Workbench,
             \/ Launch(w) \/ TryLock(w) \/ WriteGeneration(w) \/ Fail(w) \/ Unlock(w)
             \/ Crash(w) /\ ~Coordinates(w)
      PROVE  UNCHANGED <<Leader, established>>
    <2>1. \A v \in Workbench : Coordinates(v)' <=> Coordinates(v)
        BY <1>3, BecomesOne DEF LeaseInv, TypeOK, Launch, TryLock, WriteGeneration, Fail, Unlock, Crash, Coordinates,
                                Becomes
    <2>2. established' = established
        BY <1>3 DEF Launch, TryLock, WriteGeneration, Fail, Unlock, Crash
    <2> QED
        BY <2>1, <2>2 DEF Leader
<1>4. ASSUME NEW w \in Workbench, Resign(w) PROVE Coordinates(w)
    BY <1>4 DEF Resign, Coordinates
<1>5. CASE UNCHANGED vars
    BY <1>5 DEF vars, Leader, Coordinates
<1> QED
    BY <1>1, <1>2, <1>3, <1>4, <1>5 DEF Next, Acquire

\* At most one coordinator at a time, each with a larger generation than all
\* before it, although the lock, the generation and the descriptor are three
\* files and a process may end between any two of them.
THEOREM ElectionFenced == Spec => Fenced
<1>1. Init => Abstract!Init
    BY DEF Init, Abstract!Init, Coordinates
<1>2. LeaseInv /\ [Next]_vars =>
        [Abstract!Elect \/ Abstract!Retire]_<<{w \in Workbench : Coordinates(w)}, established>>
    BY StepFenced DEF Leader
<1> QED
    BY <1>1, <1>2, LeaseInductive, PTL DEF Spec, Fenced, Abstract!Spec
===============================================================================
