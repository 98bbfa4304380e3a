-------------------------- MODULE CoordinatorLease --------------------------
(***************************************************************************)
(* The election of the coordinator: CoordinatorLease and CoordinatorRole of *)
(* src/src-tauri/src/coordinator/mod.rs.  Every workbench tries to take     *)
(* the lock file when it starts and again with each heartbeat; the one that *)
(* succeeds draws the next generation from generation.json, publishes       *)
(* itself in coordinator.json, and gives both up when it is dropped.  A     *)
(* process may end between any two of these file operations: the system    *)
(* then releases its lock and nothing else.                                *)
(***************************************************************************)
EXTENDS Naturals
CONSTANTS
    Workbench,
    MaxGeneration,   \* u64::MAX in the code
    MaxFaults        \* bounds how often a file operation fails

ASSUME LeaseAssumption == MaxGeneration \in Nat /\ MaxFaults \in Nat

VARIABLES
    role,         \* how far a workbench is in try_acquire or in drop
    mine,         \* the generation it has drawn
    locked,       \* the holder of coordinator.lock, if there is one
    generation,   \* generation.json; 0 when it is missing
    descriptor,   \* coordinator.json, if it exists
    faults,
    established   \* history: the generation of the last coordinator
vars == <<role, mine, locked, generation, descriptor, faults, established>>

Role == {"unborn", "follower", "locked", "numbered", "coordinator", "resigning", "gone"}

Init ==
    /\ role = [w \in Workbench |-> "unborn"]
    /\ mine = [w \in Workbench |-> 0]
    /\ locked = {}
    /\ generation = 0
    /\ descriptor = {}
    /\ faults = 0
    /\ established = 0

Becomes(w, r) == role' = [role EXCEPT ![w] = r]

Launch(w) ==
    /\ role[w] = "unborn"
    /\ Becomes(w, "follower")
    /\ UNCHANGED <<mine, locked, generation, descriptor, faults, established>>

\* Mutant: a lock that would block is taken for granted.
TryLockAnyway(w) ==
    /\ role[w] = "follower"
    /\ locked' = {w}
    /\ Becomes(w, "locked")
    /\ UNCHANGED <<mine, generation, descriptor, faults, established>>

\* try_acquire up to the lock; while it is held elsewhere it returns None.
TryLock(w) ==
    /\ role[w] = "follower" /\ locked = {}
    /\ locked' = {w}
    /\ Becomes(w, "locked")
    /\ UNCHANGED <<mine, generation, descriptor, faults, established>>

NextGeneration(g) == g + 1

\* Mutant: the addition is not checked for overflow.
WriteGenerationUnchecked(w) ==
    /\ role[w] = "locked"
    /\ generation' = NextGeneration(generation)
    /\ mine' = [mine EXCEPT ![w] = NextGeneration(generation)]
    /\ Becomes(w, "numbered")
    /\ UNCHANGED <<locked, descriptor, faults, established>>

\* read_generation, checked_add(1) and the new generation.json.

WriteGeneration(w) ==
    /\ role[w] = "locked" /\ generation < MaxGeneration
    /\ generation' = NextGeneration(generation)
    /\ mine' = [mine EXCEPT ![w] = NextGeneration(generation)]
    /\ Becomes(w, "numbered")
    /\ UNCHANGED <<locked, descriptor, faults, established>>

\* Mutant: an attempt that fails keeps the lock file locked.
FailLocked(w) ==
    /\ \/ role[w] \in {"locked", "numbered"} /\ faults < MaxFaults /\ faults' = faults + 1
       \/ role[w] = "locked" /\ generation = MaxGeneration /\ UNCHANGED faults
    /\ Becomes(w, "follower")
    /\ UNCHANGED <<mine, locked, generation, descriptor, established>>

\* A `?` of try_acquire after the lock: the file, and the lock with it, is
\* dropped.  One of them is "Coordinator generation is exhausted."
Fail(w) ==
    /\ \/ role[w] \in {"locked", "numbered"} /\ faults < MaxFaults /\ faults' = faults + 1
       \/ role[w] = "locked" /\ generation = MaxGeneration /\ UNCHANGED faults
    /\ locked' = {}
    /\ Becomes(w, "follower")
    /\ UNCHANGED <<mine, generation, descriptor, established>>

\* Mutant: a descriptor that is there already is left alone.
WriteDescriptorOnce(w) ==
    /\ role[w] = "numbered"
    /\ descriptor' = IF descriptor = {} THEN {[generation |-> mine[w], instance |-> w]}
                     ELSE descriptor
    /\ Becomes(w, "coordinator")
    /\ established' = mine[w]
    /\ UNCHANGED <<mine, locked, generation, faults>>

\* The descriptor, whatever the file held before; the role is taken.
WriteDescriptor(w) ==
    /\ role[w] = "numbered"
    /\ descriptor' = {[generation |-> mine[w], instance |-> w]}
    /\ Becomes(w, "coordinator")
    /\ established' = mine[w]
    /\ UNCHANGED <<mine, locked, generation, faults>>

\* Drop, first half: a descriptor of this generation is removed.
Mine(w) == {d \in descriptor : d.generation = mine[w]}
Resign(w) ==
    /\ role[w] = "coordinator"
    /\ descriptor' = descriptor \ Mine(w)
    /\ Becomes(w, "resigning")
    /\ UNCHANGED <<mine, locked, generation, faults, established>>

\* Drop, second half.
Unlock(w) ==
    /\ role[w] = "resigning"
    /\ locked' = {}
    /\ Becomes(w, "gone")
    /\ UNCHANGED <<mine, generation, descriptor, faults, established>>

Crash(w) ==
    /\ role[w] \notin {"unborn", "gone"}
    /\ locked' = locked \ {w}
    /\ Becomes(w, "gone")
    /\ UNCHANGED <<mine, generation, descriptor, faults, established>>

Acquire(w) == TryLock(w) \/ WriteGeneration(w) \/ WriteDescriptor(w) \/ Fail(w)

Next == \E w \in Workbench :
    Launch(w) \/ Acquire(w) \/ Resign(w) \/ Unlock(w) \/ Crash(w)

Spec == Init /\ [][Next]_vars

\* try_acquire and drop run to their end; every heartbeat, 2 s apart, tries
\* again.  Nobody needs to be launched, to resign or to crash.
FairSpec == Spec /\ \A w \in Workbench : WF_vars(Acquire(w)) /\ WF_vars(Unlock(w))
-----------------------------------------------------------------------------
\* The files and the roles keep their shape.
TypeOK ==
    /\ role \in [Workbench -> Role]
    /\ mine \in [Workbench -> 0..MaxGeneration]
    /\ locked \subseteq Workbench
    /\ generation \in 0..MaxGeneration
    /\ descriptor \subseteq [generation : 0..MaxGeneration, instance : Workbench]
    /\ faults \in 0..MaxFaults
    /\ established \in 0..MaxGeneration

Coordinates(w) == role[w] = "coordinator"

\* As long as a workbench coordinates, the published descriptor is its own: no
\* resigning or failing predecessor takes the successor's descriptor away, so
\* readers of coordinator.json never see a predecessor or nobody.
DescriptorIsCoordinators ==
    \A w \in Workbench : Coordinates(w) =>
        descriptor = {[generation |-> mine[w], instance |-> w]}

\* A descriptor is replaced only by one of a larger generation, whatever
\* crashes leave a stale one behind.
DescriptorAdvances ==
    [][\A d \in descriptor, e \in descriptor' : d # e => e.generation > d.generation]_vars

\* At most one coordinator, each with a larger generation than all before it.
Abstract == INSTANCE FencedLeader WITH
    leader <- {w \in Workbench : Coordinates(w)}, epoch <- established
Fenced == Abstract!Spec

\* A workbench that keeps running finds itself with a coordinator, whichever
\* others crash or fail on the way ("Coordinator loss does not stop capture; a
\* surviving process can acquire a fenced next generation").
SomebodyCoordinates == \A w \in Workbench :
    role[w] = "follower" ~> \/ \E v \in Workbench : Coordinates(v)
                            \/ role[w] = "gone"
                            \/ generation = MaxGeneration
=============================================================================
