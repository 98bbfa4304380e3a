-------------------------- MODULE AgentBridgeProofs --------------------------
(***************************************************************************)
(* The safety properties of AgentBridge, for any requests and domains. The *)
(* invariant has three parts: LaneInv, that one command at a time is under *)
(* way in the queue; ClockInv, what the revision, the batch and the        *)
(* waiters have to do with each other; and SlotInv, what a command has     *)
(* observed of what it changed.                                            *)
(***************************************************************************)
EXTENDS AgentBridge, FiniteSetTheorems, TLAPS

-----------------------------------------------------------------------------
(* The lanes: the requests, their phases and the queue.                    *)

Underway == {"planning", "applying", "observing", "enqueuing", "flushing", "salvaging"}
Phases == {"new", "queued", "gesturing", "done"} \cup Underway

\* The queue holds every command once, and all but the first are untouched.
LaneInv ==
  /\ phase \in [Requests -> Phases]
  /\ \A r \in Requests : phase[r] \in {"queued"} \cup Underway => Kind[r] = "mutation"
  /\ \A r \in Requests : phase[r] = "gesturing" => Kind[r] = "direct"
  /\ queue \in Seq(Requests)
  /\ \A i, j \in DOMAIN queue : queue[i] = queue[j] => i = j
  /\ \A i \in DOMAIN queue : phase[queue[i]] = "queued" \/ (i = 1 /\ phase[queue[i]] \in Underway)
  /\ abandoned \subseteq Of("mutation")

LEMMA InitLane == Init => LaneInv
<1> SUFFICES ASSUME Init PROVE LaneInv
  OBVIOUS
<1>1. queue \in Seq(Requests) /\ DOMAIN queue = {}
  BY DEF Init
<1> QED BY <1>1 DEF Init, LaneInv, Phases, Underway

LEMMA QueueAt ==
  ASSUME LaneInv
  PROVE  /\ \A i \in DOMAIN queue : queue[i] \in Requests /\ i \in Nat /\ i >= 1
         /\ queue # <<>> => 1 \in DOMAIN queue /\ Head(queue) = queue[1]
BY DEF LaneInv

\* Who runs is the head of the queue, and has left the phase "queued".
LEMMA RunningAt ==
  ASSUME LaneInv
  PROVE  /\ Running = {queue[1]} \/ Running = {}
         /\ \A r \in Running : /\ r \in Requests /\ Kind[r] = "mutation" /\ phase[r] \in Underway
                               /\ queue # <<>> /\ r = queue[1] /\ 1 \in DOMAIN queue
         /\ \A i \in DOMAIN queue : phase[queue[i]] # "queued" => i = 1 /\ Running = {queue[1]}
<1>1. \A r \in Running : queue # <<>> /\ r = Head(queue) /\ Started(r)
  BY DEF Running
<1>2. \A i \in DOMAIN queue : queue # <<>>
  OBVIOUS
<1> QED BY <1>1, <1>2, QueueAt DEF LaneInv, Running, Started, Underway

LEMMA TailQueue ==
  ASSUME LaneInv, queue # <<>>
  PROVE  /\ Tail(queue) \in Seq(Requests)
         /\ \A i \in DOMAIN Tail(queue) :
              i \in Nat /\ i >= 1 /\ i + 1 \in DOMAIN queue /\ i + 1 # 1 /\ Tail(queue)[i] = queue[i + 1]
BY DEF LaneInv

\* A command passes from one phase to the next, or a request of the direct lane.
LEMMA PhaseMoves ==
  ASSUME LaneInv, UNCHANGED queue, phase' \in [Requests -> Phases], abandoned' \subseteq Of("mutation"),
         \A r \in Requests : \/ phase'[r] = phase[r]
                             \/ phase[r] \in Underway /\ phase'[r] \in Underway
                             \/ Kind[r] = "direct" /\ phase'[r] \in {"gesturing", "done"}
  PROVE  LaneInv' /\ Running' = Running
<1>1. \A i \in DOMAIN queue : queue[i] \in Requests /\ Kind[queue[i]] = "mutation"
  BY QueueAt DEF LaneInv, Underway
<1>2. LaneInv'
  BY <1>1 DEF LaneInv, Underway
<1>3. queue # <<>> => (Started(Head(queue)) <=> Started(Head(queue))')
  BY <1>1, QueueAt DEF LaneInv, Started, Underway
<1> QED BY <1>2, <1>3 DEF Running

\* A request comes to its end; the queue goes on behind a command that ran.
LEMMA FinishLane ==
  ASSUME LaneInv, NEW r \in Requests, NEW o, Finish(r, o), phase[r] \in Underway \cup {"gesturing"}
  PROVE  LaneInv' /\ Running' = Running \ {r}
<1>1. /\ phase' = [phase EXCEPT ![r] = "done"] /\ abandoned' \subseteq abandoned
      /\ queue' = IF r \in Running THEN Tail(queue) ELSE queue
  BY DEF Finish
<1>2. phase' \in [Requests -> Phases] /\ \A q \in Requests : q # r => phase'[q] = phase[q]
  BY <1>1 DEF LaneInv, Phases
<1>3. CASE r \in Running
  <2>1. queue # <<>> /\ r = queue[1] /\ 1 \in DOMAIN queue /\ Running = {r}
    BY <1>3, RunningAt
  <2>2. /\ queue' \in Seq(Requests)
        /\ \A i \in DOMAIN queue' :
             i \in Nat /\ i >= 1 /\ i + 1 \in DOMAIN queue /\ i + 1 # 1 /\ queue'[i] = queue[i + 1]
    BY <1>1, <1>3, <2>1, TailQueue
  <2>3. \A i \in DOMAIN queue' : queue'[i] # r /\ queue'[i] \in Requests /\ phase'[queue'[i]] = "queued"
    BY <1>2, <2>1, <2>2, QueueAt DEF LaneInv
  <2>4. \A i, j \in DOMAIN queue' : queue'[i] = queue'[j] => i = j
    BY <2>2 DEF LaneInv
  <2>5. LaneInv'
    BY <1>1, <1>2, <2>2, <2>3, <2>4 DEF LaneInv, Underway
  <2>6. Running' = {}
    <3>1. queue' # <<>> => 1 \in DOMAIN queue' /\ Head(queue') = queue'[1]
      BY <2>2
    <3> QED BY <2>3, <3>1 DEF Running, Started
  <2> QED BY <2>1, <2>5, <2>6
<1>4. CASE r \notin Running
  <2>1. \A i \in DOMAIN queue : queue[i] # r /\ queue[i] \in Requests
    BY <1>4, RunningAt, QueueAt DEF LaneInv, Underway
  <2>2. LaneInv'
    BY <1>1, <1>2, <1>4, <2>1 DEF LaneInv, Underway
  <2>3. queue # <<>> => Head(queue) # r /\ Head(queue) \in Requests
    BY <2>1, QueueAt
  <2>4. Running' = Running
    BY <1>1, <1>2, <1>4, <2>3 DEF Running, Started
  <2> QED BY <1>4, <2>2, <2>4
<1> QED BY <1>3, <1>4

LEMMA StepEnqueueLane ==
  ASSUME LaneInv, NEW r \in Requests, Enqueue(r) PROVE LaneInv' /\ Running' = Running
<1>1. /\ Kind[r] = "mutation" /\ phase[r] = "new" /\ queue' = Append(queue, r)
      /\ phase' = [phase EXCEPT ![r] = "queued"] /\ UNCHANGED abandoned
  BY DEF Enqueue
<1>2. /\ queue' \in Seq(Requests)
      /\ Len(queue) \in Nat /\ queue'[Len(queue) + 1] = r
      /\ \A i \in DOMAIN queue : i < Len(queue) + 1 /\ queue'[i] = queue[i]
      /\ \A i \in DOMAIN queue' : i \in DOMAIN queue \/ i = Len(queue) + 1
  BY <1>1 DEF LaneInv
<1>3. \A i \in DOMAIN queue : queue[i] # r /\ queue[i] \in Requests
  BY <1>1, QueueAt DEF LaneInv, Underway
<1>4. /\ phase' \in [Requests -> Phases] /\ phase'[r] = "queued"
      /\ \A q \in Requests : q # r => phase'[q] = phase[q]
  BY <1>1 DEF LaneInv, Phases
<1>5. \A i, j \in DOMAIN queue' : queue'[i] = queue'[j] => i = j
  BY <1>2, <1>3 DEF LaneInv
<1>6. \A i \in DOMAIN queue' :
        phase'[queue'[i]] = "queued" \/ (i = 1 /\ phase'[queue'[i]] \in Underway)
  BY <1>2, <1>3, <1>4 DEF LaneInv
<1>7. LaneInv'
  BY <1>1, <1>2, <1>4, <1>5, <1>6 DEF LaneInv, Underway
<1>8. CASE queue = <<>>
  <2>1. queue' = <<r>>
    BY <1>1, <1>8
  <2>2. ~Started(Head(queue))'
    BY <1>4, <2>1 DEF Started
  <2> QED BY <1>7, <1>8, <2>2 DEF Running
<1>9. CASE queue # <<>>
  <2>1. queue' # <<>> /\ Head(queue') = Head(queue) /\ Head(queue) \in Requests /\ Head(queue) # r
    BY <1>1, <1>3, <1>9, QueueAt DEF LaneInv
  <2>2. Started(Head(queue))' <=> Started(Head(queue))
    BY <1>4, <2>1 DEF Started
  <2> QED BY <1>7, <1>9, <2>1, <2>2 DEF Running
<1> QED BY <1>8, <1>9

LEMMA StepStartLane ==
  ASSUME LaneInv, Start PROVE LaneInv' /\ Running' = {Head(queue)} /\ Head(queue) \in Requests
<1>1. /\ queue # <<>> /\ Running = {} /\ UNCHANGED <<queue, abandoned>>
      /\ phase' = [phase EXCEPT ![Head(queue)] = "planning"]
  BY DEF Start, lane
<1>2. 1 \in DOMAIN queue /\ Head(queue) = queue[1] /\ queue[1] \in Requests
  BY <1>1, QueueAt
<1>3. phase[queue[1]] = "queued"
  BY <1>1, <1>2, RunningAt
<1>4. /\ phase' \in [Requests -> Phases] /\ phase'[queue[1]] = "planning"
      /\ \A q \in Requests : q # queue[1] => phase'[q] = phase[q]
  BY <1>1, <1>2 DEF LaneInv, Phases, Underway
<1>5. \A i \in DOMAIN queue :
        phase'[queue[i]] = "queued" \/ (i = 1 /\ phase'[queue[i]] \in Underway)
  BY <1>1, <1>2, <1>4, QueueAt DEF LaneInv, Underway
<1>6. LaneInv'
  BY <1>1, <1>2, <1>3, <1>4, <1>5 DEF LaneInv, Underway
<1> QED BY <1>1, <1>2, <1>4, <1>6 DEF Running, Started

LEMMA StepBackstopLane == ASSUME LaneInv, Backstop PROVE LaneInv' /\ Running' = {}
<1>1. PICK r \in Running : abandoned' = abandoned \cup {r}
  BY DEF Backstop
<1>2. queue' = Tail(queue) /\ UNCHANGED phase
  BY DEF Backstop, QueueAfterBackstop
<1>3. queue # <<>> /\ r \in Of("mutation")
  BY <1>1, RunningAt DEF Of
<1>4. /\ queue' \in Seq(Requests)
      /\ \A i \in DOMAIN queue' :
           i \in Nat /\ i >= 1 /\ i + 1 \in DOMAIN queue /\ i + 1 # 1 /\ queue'[i] = queue[i + 1]
  BY <1>2, <1>3, TailQueue
<1>5. \A i \in DOMAIN queue' : queue'[i] \in Requests /\ phase[queue'[i]] = "queued"
  BY <1>4, QueueAt DEF LaneInv
<1>6. \A i, j \in DOMAIN queue' : queue'[i] = queue'[j] => i = j
  BY <1>4 DEF LaneInv
<1>7. LaneInv'
  BY <1>1, <1>2, <1>3, <1>4, <1>5, <1>6 DEF LaneInv
<1>8. queue' # <<>> => 1 \in DOMAIN queue' /\ Head(queue') = queue'[1]
  BY <1>4
<1> QED BY <1>2, <1>5, <1>7, <1>8 DEF Running, Started

\* Requests that finish, each with what it answers.
Finishes(r) == GestureEnds(r) \/ Refuse(r) \/ ApplyFails(r) \/ Flushed(r)

LEMMA FinishesOne ==
  ASSUME LaneInv, NEW r \in Requests, Finishes(r)
  PROVE  /\ phase[r] \in Underway \cup {"gesturing"} /\ \E o : Finish(r, o)
         /\ UNCHANGED <<asked, revision, displaced, unwoken>>
BY DEF Finishes, GestureEnds, Refuse, ApplyFails, Flushed, Underway, meetings, history

\* The steps that only move a phase, or none.
Moves(r) ==
  \/ Wait(r) \/ WaitEnds(r) \/ Gesture(r) \/ Plan(r) \/ Applied(r) \/ SettlementTimesOut(r)
  \/ EnqueueTimesOut(r) \/ \E d \in Domains : Write(r, d)

LEMMA StepMovesLane ==
  ASSUME LaneInv, NEW r \in Requests, Moves(r) PROVE LaneInv' /\ Running' = Running
<1>1. UNCHANGED <<queue, abandoned>>
  BY DEF Moves, Wait, WaitEnds, Gesture, Plan, Applied, SettlementTimesOut, EnqueueTimesOut, Write,
         lane
<1>2. CASE Wait(r) \/ Gesture(r)
  <2>1. /\ Kind[r] = "direct" /\ phase' \in [Requests -> Phases] /\ phase'[r] \in {"gesturing", "done"}
        /\ \A q \in Requests : q # r => phase'[q] = phase[q]
    BY <1>2 DEF Wait, Gesture, LaneInv, Phases
  <2> QED BY <1>1, <2>1, PhaseMoves DEF LaneInv
<1>3. CASE Plan(r) \/ Applied(r) \/ SettlementTimesOut(r) \/ EnqueueTimesOut(r)
  <2>1. /\ phase[r] \in Underway /\ phase' \in [Requests -> Phases] /\ phase'[r] \in Underway
        /\ \A q \in Requests : q # r => phase'[q] = phase[q]
    BY <1>3 DEF Plan, Applied, Observed, SettlementTimesOut, EnqueueTimesOut, LaneInv, Phases, Underway
  <2> QED BY <1>1, <2>1, PhaseMoves DEF LaneInv
<1>4. CASE WaitEnds(r) \/ \E d \in Domains : Write(r, d)
  <2>1. UNCHANGED phase
    BY <1>4 DEF WaitEnds, Write
  <2> QED BY <1>1, <2>1, PhaseMoves DEF LaneInv
<1> QED BY <1>2, <1>3, <1>4 DEF Moves

LEMMA StepAppLane ==
  ASSUME LaneInv, Commit \/ \E d \in Domains : Edit(d) PROVE LaneInv' /\ Running' = Running
<1>1. UNCHANGED <<queue, abandoned>>
  BY DEF Commit, Edit, lane
<1>2. CASE Commit
  <2>1. /\ phase' \in [Requests -> Phases]
        /\ \A r \in Requests : \/ phase'[r] = phase[r]
                               \/ phase[r] = "observing" /\ phase'[r] \in {"enqueuing", "flushing"}
    BY <1>2 DEF Commit, Observed, LaneInv, Phases, Underway
  <2> QED BY <1>1, <2>1, PhaseMoves DEF LaneInv, Underway
<1>3. CASE \E d \in Domains : Edit(d)
  <2>1. UNCHANGED phase
    BY <1>3 DEF Edit
  <2> QED BY <1>1, <2>1, PhaseMoves DEF LaneInv
<1> QED BY <1>2, <1>3

LEMMA NextCases ==
  ASSUME Next
  PROVE  \/ Start \/ Backstop \/ Commit \/ \E d \in Domains : Edit(d)
         \/ \E r \in Requests : Enqueue(r) \/ Moves(r) \/ Finishes(r)
BY DEF Next, DirectStep, CommandStep, Moves, Finishes

LEMMA NextLane == ASSUME LaneInv, [Next]_vars PROVE LaneInv'
<1>1. CASE UNCHANGED vars
  BY <1>1 DEF vars, lane, LaneInv
<1>2. ASSUME NEW r \in Requests, Finishes(r) PROVE LaneInv'
  BY <1>2, FinishesOne, FinishLane
<1> QED BY <1>1, <1>2, NextCases, StepEnqueueLane, StepStartLane, StepBackstopLane, StepMovesLane,
           StepAppLane

-----------------------------------------------------------------------------
(* The clock: the revision, the batch and the waiters.                     *)

Batches == [owner : Requests, start : Nat, bumped : BOOLEAN, wakePending : BOOLEAN]

ClockType ==
  /\ revision \in Nat
  /\ asked \in [Requests -> 0..revision]
  /\ batch \in Batches \cup {None}
  /\ DOMAIN waiters \subseteq Of("direct")
  /\ IsFiniteSet(DOMAIN waiters) /\ Cardinality(DOMAIN waiters) <= MaxWaits

\* A batch that has advanced the revision has done so once, and owes a wake.
BatchInv ==
  batch # None =>
    /\ batch.bumped <=> batch.wakePending
    /\ batch.bumped => revision = batch.start + 1
    /\ ~batch.bumped => revision = batch.start

\* Whom the batch belongs to, and what the waiters wait for.
MeetingInv ==
  /\ \A r \in Running \ displaced : batch # None /\ batch.owner = r
  /\ \A w \in DOMAIN waiters \ unwoken :
       \/ waiters[w] = revision
       \/ batch # None /\ batch.wakePending /\ waiters[w] = batch.start

ClockInv == ClockType /\ BatchInv /\ MeetingInv

LEMMA InitClock == Init => ClockInv
<1> SUFFICES ASSUME Init PROVE ClockInv
  OBVIOUS
<1>1. waiters = <<>> /\ DOMAIN waiters = {} /\ IsFiniteSet({}) /\ Cardinality({}) = 0
  BY FS_EmptySet DEF Init
<1>2. Running = {}
  BY DEF Init, Running
<1>3. revision = 0 /\ batch = None /\ asked = [r \in Requests |-> 0]
  BY DEF Init
<1> QED BY <1>1, <1>2, <1>3, AgentBridgeAssumption DEF ClockInv, ClockType, BatchInv, MeetingInv

\* The waiters that are left are fewer.
LEMMA FewerWaiters ==
  ASSUME ClockType, NEW S, S \subseteq DOMAIN waiters
  PROVE  IsFiniteSet(S) /\ Cardinality(S) <= MaxWaits
<1>1. /\ IsFiniteSet(DOMAIN waiters) /\ IsFiniteSet(S)
      /\ Cardinality(S) <= Cardinality(DOMAIN waiters)
  BY FS_Subset DEF ClockType
<1>2. Cardinality(DOMAIN waiters) \in Nat /\ Cardinality(S) \in Nat
  BY <1>1, FS_CardinalityType
<1> QED BY <1>1, <1>2, AgentBridgeAssumption DEF ClockType

LEMMA WakeAt ==
  ASSUME ClockType, NEW now, Wake(now)
  PROVE  /\ DOMAIN waiters' \subseteq DOMAIN waiters
         /\ \A w \in DOMAIN waiters' : waiters'[w] = now
         /\ DOMAIN waiters' \subseteq Of("direct")
         /\ IsFiniteSet(DOMAIN waiters') /\ Cardinality(DOMAIN waiters') <= MaxWaits
<1>1. DOMAIN waiters' \subseteq DOMAIN waiters /\ \A w \in DOMAIN waiters' : waiters'[w] = now
  BY DEF Wake
<1> QED BY <1>1, FewerWaiters DEF ClockType

\* The end of a batch leaves no waiter behind.
LEMMA EndBatchClock ==
  ASSUME ClockInv, batch # None, EndBatch, UNCHANGED <<revision, asked>>,
         UNCHANGED <<displaced, unwoken>>, Running' \subseteq displaced
  PROVE  ClockInv'
<1>1. batch' = None
  BY DEF EndBatch
<1>2. CASE batch.wakePending
  <2>1. Wake(revision)
    BY <1>2 DEF EndBatch
  <2>2. ClockType'
    BY <1>1, <2>1, WakeAt DEF ClockInv, ClockType
  <2>3. \A w \in DOMAIN waiters' : waiters'[w] = revision
    BY <2>1, WakeAt DEF ClockInv
  <2> QED BY <1>1, <2>2, <2>3 DEF ClockInv, BatchInv, MeetingInv
<1>3. CASE ~batch.wakePending
  <2>1. UNCHANGED waiters
    BY <1>3 DEF EndBatch
  <2>2. ClockType'
    BY <1>1, <2>1 DEF ClockInv, ClockType
  <2> QED BY <1>1, <1>3, <2>1, <2>2 DEF ClockInv, BatchInv, MeetingInv
<1> QED BY <1>2, <1>3

\* Whoever loses by a new batch is in the history, and nobody else is.
LEMMA DisplacesAt ==
  ASSUME ClockInv, Displaces
  PROVE  /\ displaced \subseteq displaced' /\ unwoken \subseteq unwoken'
         /\ Running \subseteq displaced'
         /\ \A w \in DOMAIN waiters \ unwoken' : waiters[w] = revision
BY DEF Displaces, meetings, ClockInv, MeetingInv

\* A batch that begins belongs to the only one who runs and has not lost it.
LEMMA BeginClock ==
  ASSUME ClockInv, NEW r \in Requests, Begin(r), UNCHANGED <<revision, asked, waiters>>,
         Running' \subseteq Running \cup {r}
  PROVE  ClockInv'
<1>1. /\ batch' = [owner |-> r, start |-> revision, bumped |-> FALSE, wakePending |-> FALSE]
      /\ Displaces
  BY DEF Begin
<1>2. batch' \in Batches /\ batch' # None
  <2>1. revision \in Nat
    BY DEF ClockInv, ClockType
  <2>2. batch' \in Batches
    BY <1>1, <2>1 DEF Batches
  <2>3. None \notin Batches
    BY AgentBridgeAssumption DEF Batches
  <2> QED BY <2>2, <2>3
<1>3. /\ batch'.owner = r /\ batch'.start = revision /\ ~batch'.bumped /\ ~batch'.wakePending
  BY <1>1
<1>4. ClockType'
  BY <1>2 DEF ClockInv, ClockType
<1>5. BatchInv'
  BY <1>3 DEF BatchInv
<1>6. MeetingInv'
  BY <1>1, <1>2, <1>3, DisplacesAt DEF MeetingInv
<1> QED BY <1>4, <1>5, <1>6 DEF ClockInv

\* Steps that leave the clock alone and put nobody else at work.
LEMMA ClockIdle ==
  ASSUME ClockInv, UNCHANGED <<revision, asked, batch, waiters>>, Running' \subseteq Running,
         UNCHANGED <<displaced, unwoken>>
  PROVE  ClockInv'
<1>1. ClockType' /\ BatchInv'
  BY DEF ClockInv, ClockType, BatchInv
<1>2. MeetingInv'
  BY DEF ClockInv, MeetingInv
<1> QED BY <1>1, <1>2 DEF ClockInv

LEMMA StepWaitClock == ASSUME LaneInv, ClockInv, NEW w \in Requests, Wait(w) PROVE ClockInv'
<1>1. /\ Kind[w] = "direct" /\ UNCHANGED <<revision, asked, batch, displaced, unwoken>>
      /\ Running' = Running
  BY StepMovesLane DEF Wait, Moves, meetings, history
<1>2. PICK n \in 0..revision :
        waiters' = IF \/ revision # n /\ ~AwaitsActiveBatch(n)
                      \/ Cardinality(DOMAIN waiters) >= MaxWaits
                   THEN waiters ELSE [v \in DOMAIN waiters \cup {w} |-> IF v = w THEN n ELSE waiters[v]]
  BY DEF Wait
<1>3. CASE UNCHANGED waiters
  BY <1>1, <1>3, ClockIdle
<1>4. CASE /\ revision = n \/ AwaitsActiveBatch(n)
           /\ ~(Cardinality(DOMAIN waiters) >= MaxWaits)
           /\ waiters' = [v \in DOMAIN waiters \cup {w} |-> IF v = w THEN n ELSE waiters[v]]
  <2>1. /\ DOMAIN waiters' = DOMAIN waiters \cup {w}
        /\ \A v \in DOMAIN waiters' : waiters'[v] = waiters[v] \/ (v = w /\ waiters'[v] = n)
    BY <1>4
  <2>2. IsFiniteSet(DOMAIN waiters') /\ Cardinality(DOMAIN waiters') <= MaxWaits
    <3>1. IsFiniteSet(DOMAIN waiters) /\ Cardinality(DOMAIN waiters) \in Nat
      BY FS_CardinalityType DEF ClockInv, ClockType
    <3>2. /\ IsFiniteSet(DOMAIN waiters \cup {w})
          /\ \/ Cardinality(DOMAIN waiters \cup {w}) = Cardinality(DOMAIN waiters)
             \/ Cardinality(DOMAIN waiters \cup {w}) = Cardinality(DOMAIN waiters) + 1
      BY <3>1, FS_AddElement
    <3> QED BY <1>4, <2>1, <3>1, <3>2, AgentBridgeAssumption
  <2>3. ClockType'
    BY <1>1, <2>1, <2>2 DEF ClockInv, ClockType, Of
  <2>4. revision = n \/ (batch # None /\ batch.wakePending /\ n = batch.start)
    BY <1>4 DEF AwaitsActiveBatch, ClockInv, BatchInv
  <2>5. MeetingInv'
    <3> SUFFICES \A v \in DOMAIN waiters' \ unwoken :
                          \/ waiters'[v] = revision
                          \/ batch # None /\ batch.wakePending /\ waiters'[v] = batch.start
      BY <1>1 DEF ClockInv, MeetingInv
    <3>1. \A v \in DOMAIN waiters \ unwoken :
            \/ waiters[v] = revision
            \/ batch # None /\ batch.wakePending /\ waiters[v] = batch.start
      BY DEF ClockInv, MeetingInv
    <3> QED BY <1>4, <2>4, <3>1
  <2> QED BY <1>1, <2>3, <2>5 DEF ClockInv, BatchInv
<1> QED BY <1>2, <1>3, <1>4

LEMMA StepWaitEndsClock == ASSUME LaneInv, ClockInv, NEW w \in Requests, WaitEnds(w) PROVE ClockInv'
<1>1. /\ waiters' = [v \in DOMAIN waiters \ {w} |-> waiters[v]]
      /\ UNCHANGED <<revision, asked, batch, displaced, unwoken>> /\ Running' = Running
  BY StepMovesLane DEF WaitEnds, Moves, meetings, history
<1>2. DOMAIN waiters' \subseteq DOMAIN waiters /\ \A v \in DOMAIN waiters' : waiters'[v] = waiters[v]
  BY <1>1
<1>3. ClockType'
  BY <1>1, <1>2, FewerWaiters DEF ClockInv, ClockType
<1>4. MeetingInv'
  BY <1>1, <1>2 DEF ClockInv, MeetingInv
<1> QED BY <1>1, <1>3, <1>4 DEF ClockInv, BatchInv

LEMMA StepGestureClock == ASSUME LaneInv, ClockInv, NEW g \in Requests, Gesture(g) PROVE ClockInv'
<1>1. UNCHANGED <<revision, asked, waiters>> /\ Running' = Running
  BY StepMovesLane DEF Gesture, Moves
<1>2. CASE Begin(g)
  BY <1>1, <1>2, BeginClock
<1>3. CASE BeginAndFail(g)
  <2>1. batch' = None /\ Displaces
    BY <1>3 DEF BeginAndFail
  <2>2. ClockType' /\ BatchInv'
    BY <1>1, <2>1 DEF ClockInv, ClockType, BatchInv
  <2>3. MeetingInv'
    BY <1>1, <2>1, DisplacesAt DEF MeetingInv
  <2> QED BY <2>2, <2>3 DEF ClockInv
<1> QED BY <1>2, <1>3 DEF Gesture

LEMMA StepFinishClock == ASSUME LaneInv, ClockInv, NEW r \in Requests, Finishes(r) PROVE ClockInv'
<1>1. UNCHANGED <<asked, revision, displaced, unwoken>> /\ Running' = Running \ {r}
  BY FinishesOne, FinishLane
<1>2. IF Owns(r) THEN EndBatch ELSE UNCHANGED <<batch, waiters>>
  BY FinishesOne DEF Finish
<1>3. CASE Owns(r)
  <2>1. Running' \subseteq displaced
    BY <1>1, <1>3 DEF Owns, ClockInv, MeetingInv
  <2> QED BY <1>1, <1>2, <1>3, <2>1, EndBatchClock DEF Owns
<1>4. CASE ~Owns(r)
  BY <1>1, <1>2, <1>4, ClockIdle
<1> QED BY <1>3, <1>4

LEMMA StepCommitClock == ASSUME LaneInv, ClockInv, Commit PROVE ClockInv'
<1>1. UNCHANGED <<asked, displaced, unwoken>> /\ Running' = Running
  BY StepAppLane DEF Commit, meetings
<1>2. /\ revision' = IF batch # None /\ batch.bumped THEN revision ELSE revision + 1
      /\ IF batch = None THEN UNCHANGED batch /\ Wake(revision')
         ELSE /\ batch' = [batch EXCEPT !.bumped = TRUE, !.wakePending = TRUE]
              /\ UNCHANGED waiters
  BY DEF Commit
<1>3. revision' \in Nat /\ asked' \in [Requests -> 0..revision']
  BY <1>1, <1>2 DEF ClockInv, ClockType
<1>4. CASE batch = None
  <2>1. batch' = None /\ Wake(revision')
    BY <1>2, <1>4
  <2>2. /\ \A w \in DOMAIN waiters' : waiters'[w] = revision'
        /\ DOMAIN waiters' \subseteq Of("direct")
        /\ IsFiniteSet(DOMAIN waiters') /\ Cardinality(DOMAIN waiters') <= MaxWaits
    BY <2>1, WakeAt DEF ClockInv
  <2>3. ClockType'
    BY <1>3, <2>1, <2>2 DEF ClockType
  <2> QED BY <1>1, <1>4, <2>1, <2>2, <2>3 DEF ClockInv, BatchInv, MeetingInv
<1>5. CASE batch # None
  <2>1. batch \in Batches
    BY <1>5 DEF ClockInv, ClockType
  <2>2. batch' = [owner |-> batch.owner, start |-> batch.start, bumped |-> TRUE, wakePending |-> TRUE]
    BY <1>2, <1>5, <2>1 DEF Batches
  <2>3. batch' \in Batches
    BY <2>1, <2>2 DEF Batches
  <2>4. batch' # None
    BY <2>3, AgentBridgeAssumption DEF Batches
  <2>5. batch'.owner = batch.owner /\ batch'.start = batch.start /\ batch'.bumped /\ batch'.wakePending
    BY <2>2
  <2>6. revision' = batch.start + 1
    BY <1>2, <1>5 DEF ClockInv, BatchInv
  <2>7. ClockType'
    BY <1>2, <1>3, <1>5, <2>3 DEF ClockInv, ClockType
  <2>8. BatchInv'
    BY <2>5, <2>6 DEF BatchInv
  <2>9. MeetingInv'
    <3> SUFFICES /\ \A r \in Running \ displaced : batch.owner = r
                 /\ \A w \in DOMAIN waiters \ unwoken :
                      waiters[w] = revision' \/ waiters[w] = batch.start
      BY <1>1, <1>2, <1>5, <2>4, <2>5 DEF MeetingInv
    <3>1. \A w \in DOMAIN waiters \ unwoken : waiters[w] = revision \/ waiters[w] = batch.start
      BY DEF ClockInv, MeetingInv
    <3>2. revision = revision' \/ revision = batch.start
      BY <1>2, <1>5 DEF ClockInv, BatchInv
    <3> QED BY <3>1, <3>2 DEF ClockInv, MeetingInv
  <2> QED BY <2>7, <2>8, <2>9 DEF ClockInv
<1> QED BY <1>4, <1>5

LEMMA NextClock == ASSUME LaneInv, ClockInv, [Next]_vars PROVE ClockInv'
<1>1. CASE UNCHANGED vars
  BY <1>1, ClockIdle DEF vars, clock, lane, meetings, history, Running, Started
<1>2. CASE Start
  <2>1. Begin(Head(queue)) /\ UNCHANGED <<revision, asked, waiters>>
    BY <1>2 DEF Start
  <2> QED BY <1>2, <2>1, StepStartLane, BeginClock DEF Start
<1>3. CASE Backstop
  <2>1. UNCHANGED <<asked, revision, displaced, unwoken>> /\ AbandonBatch
    BY <1>3 DEF Backstop, meetings, history
  <2>2. CASE batch = None
    BY <1>3, <2>1, <2>2, StepBackstopLane, ClockIdle DEF AbandonBatch
  <2>3. CASE batch # None
    BY <1>3, <2>1, <2>3, StepBackstopLane, EndBatchClock DEF AbandonBatch
  <2> QED BY <2>2, <2>3
<1>4. ASSUME NEW d \in Domains, Edit(d) PROVE ClockInv'
  BY <1>4, StepAppLane, ClockIdle DEF Edit, clock, meetings, history
<1>5. ASSUME NEW r \in Requests, Enqueue(r) PROVE ClockInv'
  <2>1. UNCHANGED <<revision, batch, waiters, displaced, unwoken>> /\ Running' = Running
    BY <1>5, StepEnqueueLane DEF Enqueue, clock, meetings, history
  <2>2. asked' \in [Requests -> 0..revision]
    BY <1>5 DEF Enqueue, ClockInv, ClockType
  <2>3. ClockType'
    BY <2>1, <2>2 DEF ClockInv, ClockType
  <2> QED BY <2>1, <2>3 DEF ClockInv, BatchInv, MeetingInv
<1>6. ASSUME NEW r \in Requests,
             \/ Plan(r) \/ Applied(r) \/ SettlementTimesOut(r) \/ EnqueueTimesOut(r)
             \/ \E d \in Domains : Write(r, d)
      PROVE  ClockInv'
  <2>1. UNCHANGED <<revision, asked, batch, waiters, displaced, unwoken>>
    BY <1>6 DEF Plan, Applied, SettlementTimesOut, EnqueueTimesOut, Write, clock, meetings, history
  <2> QED BY <1>6, <2>1, StepMovesLane, ClockIdle DEF Moves
<1> QED BY <1>1, <1>2, <1>3, <1>4, <1>5, <1>6, NextCases, StepCommitClock, StepWaitClock,
           StepWaitEndsClock, StepGestureClock, StepFinishClock DEF Moves

LEMMA ClockInductive == Spec => [](LaneInv /\ ClockInv)
<1>1. Init => LaneInv /\ ClockInv
  BY InitLane, InitClock
<1>2. LaneInv /\ ClockInv /\ [Next]_vars => (LaneInv /\ ClockInv)'
  BY NextLane, NextClock
<1> QED BY <1>1, <1>2, PTL DEF Spec

\* No wait sleeps through a change of the revision, but for those whose wake
\* went with a batch that another replaced.
THEOREM WaitersAreAwake == Spec => []WaitersAwake
<1>1. LaneInv /\ ClockInv => WaitersAwake
  BY DEF ClockInv, MeetingInv, WaitersAwake
<1> QED BY <1>1, ClockInductive, PTL

\* The commits of a running command whose batch no gesture has replaced advance
\* the revision once.
THEOREM CommandsAdvanceOnce == Spec => []CommandAdvancesOnce
<1>1. ASSUME LaneInv, ClockInv PROVE CommandAdvancesOnce
  <2> SUFFICES ASSUME NEW r \in Running \ displaced
               PROVE  /\ batch # None /\ batch.owner = r
                      /\ revision = batch.start + (IF batch.bumped THEN 1 ELSE 0)
    BY DEF CommandAdvancesOnce
  <2>1. batch # None /\ batch.owner = r
    BY <1>1 DEF ClockInv, MeetingInv
  <2>2. batch \in Batches
    BY <1>1, <2>1 DEF ClockInv, ClockType
  <2> QED BY <1>1, <2>1, <2>2 DEF ClockInv, ClockType, BatchInv, Batches
<1> QED BY <1>1, ClockInductive, PTL

-----------------------------------------------------------------------------
(* The settlement: what a command has changed, awaits and has observed.    *)

Observing == {"applying", "observing"}
Answers == {None, "ok", "error", "requestNotSettled", "commitNotObserved"}

SlotType ==
  /\ todo \in [Requests -> SUBSET Domains]
  /\ settled \in [Requests -> SUBSET Domains]
  /\ shown \in [Requests -> SUBSET Domains]
  /\ slot \in [Domains -> Requests \cup {None}]
  /\ state \in [Domains -> Of("mutation") \cup {"user"}]
  /\ rendered \in [Domains -> Of("mutation") \cup {"user"}]
  /\ outcome \in [Requests -> Answers]

\* What was settled was shown, and what was shown belongs to the command.
ShownInv ==
  /\ \A r \in Requests : todo[r] \subseteq Changes[r]
  /\ \A d \in Domains : state[d] # "user" => d \in Changes[state[d]]
  /\ \A r \in Requests : settled[r] \subseteq shown[r] /\ shown[r] \subseteq Changes[r]
  /\ \A r \in Requests : phase[r] \in {"new", "queued", "planning"} => shown[r] = {}

\* A slot names a command that observes the domain, and has not seen it yet.
ParkedInv ==
  \A d \in Domains : slot[d] # None =>
    phase[slot[d]] \in Observing /\ d \in Changes[slot[d]] \ settled[slot[d]]

\* Who flushes, or answers "ok", has seen everything it changed.
SuccessInv ==
  /\ \A r \in Requests : phase[r] = "flushing" => shown[r] = Changes[r]
  /\ \A r \in Requests : Kind[r] = "mutation" /\ outcome[r] = "ok" =>
       phase[r] = "done" /\ shown[r] = Changes[r]

\* What a command wrote and has seen does not come back once it is replaced.
GoneInv ==
  \A r \in Requests, d \in Domains :
    /\ state[d] = r => d \notin todo[r] /\ phase[r] \notin {"new", "queued", "planning"}
    /\ d \in shown[r] => d \notin todo[r] /\ (rendered[d] = r \/ state[d] # r)

Gone(r) == \E d \in Changes[r] \cap Persisted : rendered[d] # r /\ state[d] # r
Missed(r) == shown[r] # Changes[r] \/ Gone(r)

\* A command whose slots nobody took has those of what it still awaits, and has
\* seen no more than was settled for it.
MissedInv ==
  \A r \in Requests \ robbed :
    /\ phase[r] \in Observing => /\ \A d \in Changes[r] \ settled[r] : slot[d] = r
                                 /\ shown[r] \subseteq settled[r]
    /\ phase[r] = "observing" => settled[r] # Changes[r]
    /\ phase[r] = "enqueuing" => Gone(r)
    /\ phase[r] = "salvaging" => Missed(r)
    /\ Kind[r] = "mutation" /\ outcome[r] = "commitNotObserved" =>
         phase[r] = "done" /\ Missed(r)

SlotInv == SlotType /\ ShownInv /\ ParkedInv /\ SuccessInv /\ GoneInv /\ MissedInv

LEMMA InitSlot == Init => SlotInv
<1> SUFFICES ASSUME Init PROVE SlotInv
  OBVIOUS
<1>1. SlotType
  BY DEF Init, SlotType, Answers
<1>2. ShownInv /\ ParkedInv
  BY DEF Init, ShownInv, ParkedInv
<1>3. SuccessInv /\ GoneInv /\ MissedInv
  BY AgentBridgeAssumption DEF Init, SuccessInv, GoneInv, MissedInv, Observing
<1> QED BY <1>1, <1>2, <1>3 DEF SlotInv

\* Steps before a command has armed its slots, and those that are not its own.
LEMMA SlotIdle ==
  ASSUME LaneInv, SlotInv, UNCHANGED <<todo, settled, slot, state, rendered, shown>>,
         robbed \subseteq robbed',
         \A r \in Requests : \/ phase'[r] = phase[r]
                             \/ phase[r] \in {"new", "queued"} /\ phase'[r] \in {"queued", "planning"}
                             \/ Kind[r] = "direct" /\ phase'[r] \notin Underway
                                  /\ phase'[r] \notin {"new", "queued"},
         outcome' \in [Requests -> Answers],
         \A r \in Requests : outcome'[r] = outcome[r] \/ outcome'[r] = "requestNotSettled"
                               \/ Kind[r] = "direct"
  PROVE  SlotInv'
<1>1. \A r \in Requests : Kind[r] = "direct" => phase[r] \notin Underway /\ phase[r] # "queued"
  BY DEF LaneInv
<1>2. \A r \in Requests : Kind[r] = "direct" => Kind[r] # "mutation"
  OBVIOUS
<1>3. SlotType'
  BY DEF SlotInv, SlotType
<1>4. ShownInv'
  BY <1>1 DEF SlotInv, ShownInv, Underway
<1>5. ParkedInv'
  BY <1>1 DEF SlotInv, SlotType, ParkedInv, Observing, Underway
<1>6. SuccessInv'
  BY <1>1, <1>2 DEF SlotInv, SuccessInv, Underway
<1>7. GoneInv'
  BY <1>1 DEF SlotInv, GoneInv, Underway
<1>8. \A r \in Requests : /\ Gone(r) => Gone(r)'
                          /\ Missed(r) => Missed(r)'
  BY DEF Gone, Missed
<1>9. MissedInv'
  BY <1>1, <1>2, <1>8 DEF SlotInv, MissedInv, Observing, Underway
<1> QED BY <1>3, <1>4, <1>5, <1>6, <1>7, <1>9 DEF SlotInv

\* A command that clears its slots robs whoever else is parked there.
LEMMA ClearAt ==
  ASSUME SlotInv, NEW r \in Requests, Clear(r)
  PROVE  /\ slot' \in [Domains -> Requests \cup {None}]
         /\ robbed \subseteq robbed'
         /\ \A d \in Domains : slot'[d] # None => slot'[d] = slot[d] /\ slot[d] # r
         /\ \A d \in Domains : slot'[d] # slot[d] => slot[d] \in {r, None} \cup robbed'
<1>1. /\ slot' = [d \in Domains |-> IF d \in Changes[r] THEN None ELSE slot[d]]
      /\ robbed' = robbed \cup ({slot[d] : d \in Changes[r]} \ {None, r})
  BY DEF Clear, Robs
<1>2. \A d \in Domains : slot[d] = r => d \in Changes[r]
  BY AgentBridgeAssumption DEF SlotInv, ParkedInv
<1> QED BY <1>1, <1>2 DEF SlotInv, SlotType

\* A request ends, and with it what was parked for it.
LEMMA FinishSlot ==
  ASSUME LaneInv, SlotInv, NEW r \in Requests, NEW o \in Answers, Finish(r, o),
         phase[r] \in Underway \cup {"gesturing"},
         UNCHANGED <<todo, settled, state, rendered, shown>>,
         \/ UNCHANGED <<slot, robbed>> /\ phase[r] \notin Observing
         \/ Clear(r),
         Kind[r] = "mutation" /\ o = "ok" => shown[r] = Changes[r],
         o = "commitNotObserved" => r \in robbed \/ Missed(r)
  PROVE  SlotInv'
<1>1. /\ phase'[r] = "done" /\ \A q \in Requests : q # r => phase'[q] = phase[q]
      /\ outcome' \in [Requests -> Answers]
      /\ \A q \in Requests : q # r => outcome'[q] = outcome[q]
      /\ outcome'[r] = outcome[r] \/ outcome'[r] = o
  BY DEF Finish, LaneInv, SlotInv, SlotType
<1>2. /\ slot' \in [Domains -> Requests \cup {None}]
      /\ robbed \subseteq robbed'
      /\ \A d \in Domains : slot'[d] # None => slot'[d] = slot[d] /\ slot[d] # r
      /\ \A d \in Domains : slot'[d] # slot[d] => slot[d] \in {r, None} \cup robbed'
  <2>1. CASE UNCHANGED <<slot, robbed>> /\ phase[r] \notin Observing
    BY <2>1 DEF SlotInv, SlotType, ParkedInv
  <2>2. CASE Clear(r)
    BY <2>2, ClearAt
  <2> QED BY <2>1, <2>2
<1>3. SlotType'
  BY <1>1, <1>2 DEF SlotInv, SlotType
<1>4. ShownInv'
  BY <1>1 DEF SlotInv, ShownInv
<1>5. ParkedInv'
  BY <1>1, <1>2 DEF SlotInv, SlotType, ParkedInv
<1>6. SuccessInv'
  BY <1>1 DEF SlotInv, SuccessInv
<1>7. GoneInv'
  BY <1>1 DEF SlotInv, GoneInv
<1>8. MissedInv'
  <2>1. \A q \in Requests : (Gone(q) => Gone(q)') /\ (Missed(q) => Missed(q)')
    BY DEF Gone, Missed
  <2>2. ASSUME NEW q \in Requests \ robbed', q # r, phase[q] \in Observing,
               NEW d \in Changes[q] \ settled[q]
        PROVE  slot'[d] = q
    <3>1. slot[d] = q /\ d \in Domains
      BY <1>2, <2>2, AgentBridgeAssumption DEF SlotInv, MissedInv
    <3> QED BY <1>2, <2>2, <3>1, AgentBridgeAssumption
  <2> QED BY <1>1, <1>2, <2>1, <2>2 DEF SlotInv, MissedInv, Observing
<1> QED BY <1>3, <1>4, <1>5, <1>6, <1>7, <1>8 DEF SlotInv

\* What the steps of a command change, apart from its slots.
LEMMA PhaseTo ==
  ASSUME LaneInv, NEW r \in Requests, NEW p, phase' = [phase EXCEPT ![r] = p]
  PROVE  phase'[r] = p /\ \A q \in Requests : q # r => phase'[q] = phase[q]
BY DEF LaneInv

LEMMA StepPlanSlot == ASSUME LaneInv, SlotInv, NEW r \in Requests, Plan(r) PROVE SlotInv'
<1>1. /\ phase[r] = "planning" /\ phase'[r] = "applying"
      /\ \A q \in Requests : q # r => phase'[q] = phase[q]
  BY PhaseTo DEF Plan
<1>2. /\ slot' = [d \in Domains |-> IF d \in Changes[r] THEN r ELSE slot[d]]
      /\ todo' = [todo EXCEPT ![r] = Changes[r]]
      /\ robbed' = robbed \cup ({slot[d] : d \in Changes[r]} \ {None, r})
      /\ UNCHANGED <<settled, state, rendered, shown, outcome>>
  BY DEF Plan, app, Robs
<1>3. Changes[r] \subseteq Domains
  BY AgentBridgeAssumption
<1>4. settled[r] = {} /\ shown[r] = {} /\ r # None
  BY <1>1, AgentBridgeAssumption DEF SlotInv, ShownInv
<1>5. SlotType'
  BY <1>2, <1>3 DEF SlotInv, SlotType
<1>6. ShownInv'
  BY <1>1, <1>2, <1>3 DEF SlotInv, SlotType, ShownInv
<1>7. ParkedInv'
  BY <1>1, <1>2, <1>4 DEF SlotInv, SlotType, ParkedInv, Observing
<1>8. SuccessInv'
  BY <1>1, <1>2 DEF SlotInv, SuccessInv
<1>9. GoneInv'
  BY <1>1, <1>2, <1>4 DEF SlotInv, SlotType, GoneInv
<1>10. MissedInv'
  <2>1. \A q \in Requests : (Gone(q) => Gone(q)') /\ (Missed(q) => Missed(q)')
    BY <1>2 DEF Gone, Missed
  <2>2. ASSUME NEW q \in Requests \ robbed', q # r, phase[q] \in Observing,
               NEW d \in Changes[q] \ settled[q]
        PROVE  slot'[d] = q
    <3>1. slot[d] = q /\ d \in Domains
      BY <1>2, <2>2, AgentBridgeAssumption DEF SlotInv, MissedInv
    <3>2. q # None
      BY AgentBridgeAssumption
    <3> QED BY <1>2, <2>2, <3>1, <3>2
  <2>3. \A d \in Changes[r] : slot'[d] = r
    BY <1>2, <1>3
  <2> QED BY <1>1, <1>2, <1>4, <2>1, <2>2, <2>3 DEF SlotInv, MissedInv, Observing
<1> QED BY <1>5, <1>6, <1>7, <1>8, <1>9, <1>10 DEF SlotInv

LEMMA StepWriteSlot ==
  ASSUME LaneInv, SlotInv, NEW r \in Requests, NEW d \in Domains, Write(r, d) PROVE SlotInv'
<1>1. /\ d \in todo[r] /\ todo' = [todo EXCEPT ![r] = @ \ {d}]
      /\ state' = [state EXCEPT ![d] = r] /\ phase[r] = "applying"
      /\ UNCHANGED <<phase, settled, slot, rendered, outcome, shown, robbed>>
  BY DEF Write, history
<1>2. Kind[r] = "mutation" /\ d \in Changes[r]
  BY <1>1 DEF LaneInv, SlotInv, ShownInv, Underway
<1>3. SlotType'
  BY <1>1, <1>2 DEF SlotInv, SlotType, Of
<1>4. ShownInv'
  BY <1>1, <1>2 DEF SlotInv, SlotType, ShownInv
<1>5. GoneInv'
  BY <1>1 DEF SlotInv, SlotType, GoneInv
<1>6. MissedInv'
  <2>1. \A q \in Requests : q # r /\ Gone(q) => Gone(q)'
    BY <1>1, AgentBridgeAssumption DEF Gone, SlotInv, SlotType
  <2>2. \A q \in Requests : q # r /\ Missed(q) => Missed(q)'
    BY <1>1, <2>1 DEF Missed
  <2> QED BY <1>1, <2>1, <2>2 DEF SlotInv, MissedInv
<1> QED BY <1>1, <1>3, <1>4, <1>5, <1>6 DEF SlotInv, ParkedInv, SuccessInv

LEMMA StepAppliedSlot == ASSUME LaneInv, SlotInv, NEW r \in Requests, Applied(r) PROVE SlotInv'
<1> DEFINE kept == \A d \in Changes[r] \cap Persisted : rendered[d] = r
<1>1. /\ phase[r] = "applying"
      /\ phase'[r] = IF settled[r] # Changes[r] THEN "observing"
                     ELSE IF kept THEN "flushing" ELSE "enqueuing"
      /\ \A q \in Requests : q # r => phase'[q] = phase[q]
      /\ UNCHANGED <<todo, settled, slot, state, rendered, outcome, shown, robbed>>
  BY DEF Applied, Observed, LaneInv, settlement, app, history
<1>2. settled[r] = Changes[r] => shown[r] = Changes[r]
  <2>1. settled[r] \subseteq shown[r] /\ shown[r] \subseteq Changes[r]
    BY DEF SlotInv, ShownInv
  <2> QED BY <2>1
<1>3. ASSUME settled[r] = Changes[r], ~kept PROVE Gone(r)'
  <2>1. PICK d \in Changes[r] \cap Persisted : rendered[d] # r
    BY <1>3
  <2>2. d \in Domains /\ d \in shown[r]
    BY <1>2, <1>3, AgentBridgeAssumption
  <2>3. state[d] # r
    BY <2>1, <2>2 DEF SlotInv, GoneInv
  <2> QED BY <1>1, <2>1, <2>3 DEF Gone
<1>4. SlotType' /\ ShownInv'
  BY <1>1 DEF SlotInv, SlotType, ShownInv
<1>5. ParkedInv'
  BY <1>1 DEF SlotInv, SlotType, ParkedInv, Observing
<1>6. SuccessInv'
  BY <1>1, <1>2 DEF SlotInv, SuccessInv
<1>7. GoneInv'
  BY <1>1 DEF SlotInv, GoneInv
<1>8. MissedInv'
  <2>1. \A q \in Requests : (Gone(q) => Gone(q)') /\ (Missed(q) => Missed(q)')
    BY <1>1 DEF Gone, Missed
  <2> QED BY <1>1, <1>3, <2>1 DEF SlotInv, MissedInv, Observing
<1> QED BY <1>4, <1>5, <1>6, <1>7, <1>8 DEF SlotInv

LEMMA StepTimesOutSlot ==
  ASSUME LaneInv, SlotInv, NEW r \in Requests, SettlementTimesOut(r) PROVE SlotInv'
<1>1. /\ phase[r] = "observing" /\ phase'[r] = "salvaging" /\ Clear(r)
      /\ \A q \in Requests : q # r => phase'[q] = phase[q]
      /\ UNCHANGED <<todo, settled, state, rendered, outcome, shown>>
  BY PhaseTo DEF SettlementTimesOut, app
<1>2. SlotType' /\ ShownInv' /\ GoneInv'
  BY <1>1, ClearAt DEF SlotInv, SlotType, ShownInv, GoneInv
<1>3. ParkedInv'
  BY <1>1, ClearAt DEF SlotInv, SlotType, ParkedInv
<1>4. SuccessInv'
  BY <1>1 DEF SlotInv, SuccessInv
<1>5. MissedInv'
  <2>1. robbed \subseteq robbed'
    BY <1>1, ClearAt
  <2>2. ASSUME NEW q \in Requests \ robbed', q # r, phase[q] \in Observing,
               NEW d \in Changes[q] \ settled[q]
        PROVE  slot'[d] = q
    <3>1. slot[d] = q /\ d \in Domains
      BY <2>1, <2>2, AgentBridgeAssumption DEF SlotInv, MissedInv
    <3> QED BY <1>1, ClearAt, <2>2, <3>1, AgentBridgeAssumption
  <2>3. r \notin robbed' => shown[r] # Changes[r]
    <3> SUFFICES ASSUME r \notin robbed' PROVE shown[r] # Changes[r]
      OBVIOUS
    <3>1. settled[r] # Changes[r] /\ shown[r] \subseteq settled[r]
      BY <1>1, <2>1 DEF SlotInv, MissedInv, Observing
    <3>2. settled[r] \subseteq shown[r]
      BY DEF SlotInv, ShownInv
    <3> QED BY <3>1, <3>2
  <2>4. \A q \in Requests : (Gone(q) => Gone(q)') /\ (Missed(q) => Missed(q)')
    BY <1>1 DEF Gone, Missed
  <2>5. r \notin robbed' => Missed(r)'
    BY <1>1, <2>3 DEF Missed
  <2> QED BY <1>1, <2>1, <2>2, <2>4, <2>5 DEF SlotInv, MissedInv, Observing
<1> QED BY <1>2, <1>3, <1>4, <1>5 DEF SlotInv

LEMMA StepEnqueueTimesOutSlot ==
  ASSUME LaneInv, SlotInv, NEW r \in Requests, EnqueueTimesOut(r) PROVE SlotInv'
<1>1. /\ phase[r] = "enqueuing" /\ phase'[r] = "salvaging"
      /\ \A q \in Requests : q # r => phase'[q] = phase[q]
      /\ UNCHANGED <<todo, settled, slot, state, rendered, outcome, shown, robbed>>
  BY PhaseTo DEF EnqueueTimesOut, settlement, app, history
<1>2. SlotType' /\ ShownInv' /\ SuccessInv' /\ GoneInv'
  BY <1>1 DEF SlotInv, SlotType, ShownInv, SuccessInv, GoneInv
<1>3. ParkedInv'
  BY <1>1 DEF SlotInv, SlotType, ParkedInv, Observing
<1>4. MissedInv'
  <2>1. \A q \in Requests : (Gone(q) => Gone(q)' /\ Missed(q)') /\ (Missed(q) => Missed(q)')
    BY <1>1 DEF Gone, Missed
  <2> QED BY <1>1, <2>1 DEF SlotInv, MissedInv, Observing
<1> QED BY <1>2, <1>3, <1>4 DEF SlotInv

LEMMA StepEditSlot == ASSUME SlotInv, NEW d \in Domains, Edit(d) PROVE SlotInv'
<1>1. /\ state' = [state EXCEPT ![d] = "user"]
      /\ UNCHANGED <<phase, todo, settled, slot, rendered, outcome, shown, robbed>>
  BY DEF Edit, settlement, history
<1>2. SlotType' /\ ShownInv' /\ GoneInv'
  BY <1>1, AgentBridgeAssumption DEF SlotInv, SlotType, ShownInv, GoneInv
<1>3. MissedInv'
  <2>1. \A q \in Requests : Gone(q) => Gone(q)'
    BY <1>1, AgentBridgeAssumption DEF Gone, SlotInv, SlotType
  <2>2. \A q \in Requests : Missed(q) => Missed(q)'
    BY <1>1, <2>1 DEF Missed
  <2> QED BY <1>1, <2>1, <2>2 DEF SlotInv, MissedInv
<1> QED BY <1>1, <1>2, <1>3 DEF SlotInv, ParkedInv, SuccessInv

\* A commit settles, for each command, the slots it has for what is rendered.
LEMMA StepCommitSlot == ASSUME LaneInv, SlotInv, Commit PROVE SlotInv'
<1> DEFINE changed == {d \in Domains : state[d] # rendered[d]}
           resolved == {d \in changed : Matches(d)}
           all(r) == settled[r] \cup {d \in resolved : slot[d] = r}
           seen(r) == shown[r] \cup {d \in changed : state[d] = r}
           kept(r) == \A d \in Changes[r] \cap Persisted : state[d] = r
<1>1. /\ rendered' = state /\ UNCHANGED <<todo, state, outcome, robbed>>
      /\ \A d \in Domains : slot'[d] = IF d \in resolved THEN None ELSE slot[d]
      /\ slot' \in [Domains -> Requests \cup {None}]
      /\ settled' \in [Requests -> SUBSET Domains]
      /\ shown' \in [Requests -> SUBSET Domains]
      /\ \A r \in Requests : settled'[r] = all(r)
      /\ \A r \in Requests : shown'[r] = IF phase[r] \in Observing THEN seen(r) ELSE shown[r]
  BY DEF Commit, SlotsAfter, SlotInv, SlotType, Observing
<1>2. \A r \in Requests :
        IF phase[r] = "observing" /\ all(r) = Changes[r]
        THEN phase'[r] = IF kept(r) THEN "flushing" ELSE "enqueuing" ELSE phase'[r] = phase[r]
  BY DEF Commit, Observed
<1>3. \A d \in resolved : slot[d] # None /\ slot[d] = state[d] /\ d \in Domains /\ d \in changed
  BY DEF Matches
<1>4. \A d \in resolved : phase[slot[d]] \in Observing /\ slot[d] \in Requests /\ d \in Changes[slot[d]]
  BY <1>3 DEF SlotInv, SlotType, ParkedInv
<1>5. \A d \in changed, r \in Requests : state[d] = r => d \in Changes[r]
  BY AgentBridgeAssumption DEF SlotInv, ShownInv
<1> HIDE DEF changed, resolved
<1>6. SlotType'
  BY <1>1 DEF SlotInv, SlotType
<1>7. ASSUME NEW r \in Requests
      PROVE  /\ settled'[r] \subseteq shown'[r] /\ shown'[r] \subseteq Changes[r]
             /\ phase'[r] \in {"new", "queued", "planning"} => shown'[r] = {}
  <2>1. settled[r] \subseteq shown[r] /\ shown[r] \subseteq Changes[r]
    BY DEF SlotInv, ShownInv
  <2>2. settled'[r] \subseteq shown'[r]
    BY <1>1, <1>3, <1>4, <2>1
  <2>3. shown'[r] \subseteq Changes[r]
    BY <1>1, <1>5, <2>1
  <2>4. phase'[r] \in {"new", "queued", "planning"} => shown'[r] = {}
    BY <1>1, <1>2 DEF SlotInv, ShownInv, Observing
  <2> QED BY <2>2, <2>3, <2>4
<1>8. ShownInv'
  BY <1>1, <1>7 DEF SlotInv, ShownInv
<1>9. ParkedInv'
  <2> SUFFICES ASSUME NEW d \in Domains, slot'[d] # None
               PROVE  phase'[slot'[d]] \in Observing /\ d \in Changes[slot'[d]] \ settled'[slot'[d]]
    BY DEF ParkedInv
  <2>1. slot'[d] = slot[d] /\ d \notin resolved /\ slot[d] \in Requests
    BY <1>1 DEF SlotInv, SlotType
  <2>2. phase[slot[d]] \in Observing /\ d \in Changes[slot[d]] \ settled[slot[d]]
    BY <2>1 DEF SlotInv, ParkedInv
  <2>3. d \notin settled'[slot[d]]
    BY <1>1, <2>1, <2>2
  <2>4. phase'[slot[d]] \in Observing
    BY <1>1, <1>2, <2>1, <2>2, <2>3 DEF Observing
  <2> QED BY <2>1, <2>2, <2>3, <2>4
<1>10. SuccessInv'
  <2>1. \A r \in Requests : phase[r] \notin Observing => shown'[r] = shown[r]
    BY <1>1
  <2>2. \A r \in Requests : phase'[r] # phase[r] => settled'[r] = Changes[r]
    BY <1>1, <1>2
  <2>3. \A r \in Requests : phase'[r] # phase[r] => shown'[r] = Changes[r]
    BY <1>7, <2>2
  <2>4. \A r \in Requests : phase'[r] # phase[r] => phase[r] # "done"
    BY <1>2
  <2> QED BY <1>1, <2>1, <2>2, <2>3, <2>4 DEF SlotInv, SuccessInv, Observing
<1>11. GoneInv'
  BY <1>1, <1>2 DEF SlotInv, GoneInv
<1>12. ASSUME NEW r \in Requests
       PROVE  /\ Gone(r) => Gone(r)'
              /\ phase[r] \notin Observing /\ Missed(r) => Missed(r)'
              /\ ~kept(r) => Gone(r)'
  BY <1>1, AgentBridgeAssumption DEF Gone, Missed
<1>13. MissedInv'
  <2> SUFFICES ASSUME NEW r \in Requests \ robbed
               PROVE  /\ phase'[r] \in Observing => /\ \A d \in Changes[r] \ settled'[r] : slot'[d] = r
                                                    /\ shown'[r] \subseteq settled'[r]
                      /\ phase'[r] = "observing" => settled'[r] # Changes[r]
                      /\ phase'[r] = "enqueuing" => Gone(r)'
                      /\ phase'[r] = "salvaging" => Missed(r)'
                      /\ Kind[r] = "mutation" /\ outcome'[r] = "commitNotObserved" =>
                           phase'[r] = "done" /\ Missed(r)'
    BY <1>1 DEF MissedInv
  <2>1. /\ phase[r] \in Observing => /\ \A d \in Changes[r] \ settled[r] : slot[d] = r
                                     /\ shown[r] \subseteq settled[r]
        /\ phase[r] = "enqueuing" => Gone(r)
        /\ phase[r] = "salvaging" => Missed(r)
        /\ Kind[r] = "mutation" /\ outcome[r] = "commitNotObserved" =>
             phase[r] = "done" /\ Missed(r)
    BY DEF SlotInv, MissedInv
  <2>2. phase'[r] \in Observing => phase[r] \in Observing /\ phase'[r] = phase[r]
    BY <1>2 DEF Observing
  <2>3. phase[r] \in Observing => \A d \in Changes[r] \ settled'[r] : slot'[d] = r
    BY <1>1, <2>1, AgentBridgeAssumption
  <2>4. phase[r] \in Observing => shown'[r] \subseteq settled'[r]
    <3> SUFFICES ASSUME phase[r] \in Observing, NEW d \in shown'[r], d \notin settled[r]
                 PROVE  d \in settled'[r]
      BY <1>1
    <3>1. d \in changed /\ state[d] = r
      BY <1>1, <2>1
    <3>2. slot[d] = r
      BY <1>5, <2>1, <3>1
    <3>3. d \in resolved
      BY <3>1, <3>2, AgentBridgeAssumption DEF Matches, resolved
    <3> QED BY <1>1, <3>2, <3>3
  <2>5. phase'[r] = "observing" => settled'[r] # Changes[r]
    BY <1>1, <1>2
  <2>6. phase'[r] = "enqueuing" => phase[r] = "enqueuing" \/ ~kept(r)
    BY <1>2
  <2>7. phase'[r] = "salvaging" => phase[r] = "salvaging"
    BY <1>2
  <2>8. phase[r] = "done" => phase'[r] = "done"
    BY <1>2
  <2>9. phase[r] \in {"salvaging", "done"} => phase[r] \notin Observing
    BY DEF Observing
  <2> QED BY <1>1, <1>12, <2>1, <2>2, <2>3, <2>4, <2>5, <2>6, <2>7, <2>8, <2>9
<1> QED BY <1>6, <1>8, <1>9, <1>10, <1>11, <1>13 DEF SlotInv

LEMMA StepFinishSlot == ASSUME LaneInv, SlotInv, NEW r \in Requests, Finishes(r) PROVE SlotInv'
<1>1. ASSUME GestureEnds(r) \/ Refuse(r) \/ Flushed(r) PROVE SlotInv'
  <2>1. /\ UNCHANGED <<todo, settled, slot, state, rendered, shown, robbed>>
        /\ phase[r] \in {"gesturing", "planning", "flushing", "salvaging"}
    BY <1>1 DEF GestureEnds, Refuse, Flushed, settlement, app, history
  <2>2. PICK o \in Answers :
          /\ Finish(r, o)
          /\ phase[r] = "gesturing" \/ o # "ok" \/ phase[r] = "flushing"
          /\ o = "commitNotObserved" => phase[r] = "salvaging"
    BY <1>1 DEF GestureEnds, Refuse, Flushed, Answers
  <2>3. Kind[r] = "mutation" /\ o = "ok" => shown[r] = Changes[r]
    BY <2>2 DEF LaneInv, SlotInv, SuccessInv
  <2>4. o = "commitNotObserved" => r \in robbed \/ Missed(r)
    BY <2>2 DEF SlotInv, MissedInv
  <2> QED BY <2>1, <2>2, <2>3, <2>4, FinishSlot DEF Underway, Observing
<1>2. ASSUME ApplyFails(r) PROVE SlotInv'
  <2>1. /\ phase[r] = "applying" /\ Clear(r) /\ Finish(r, "error")
        /\ UNCHANGED <<todo, settled, state, rendered, shown>>
    BY <1>2 DEF ApplyFails, app
  <2> QED BY <2>1, FinishSlot DEF Underway, Answers
<1> QED BY <1>1, <1>2 DEF Finishes

\* The steps that touch no command's settlement.
LEMMA StepIdleSlot ==
  ASSUME LaneInv, SlotInv,
         \/ Start \/ Backstop
         \/ \E r \in Requests : Enqueue(r) \/ Wait(r) \/ WaitEnds(r) \/ Gesture(r)
  PROVE  SlotInv'
<1>1. UNCHANGED <<todo, settled, slot, state, rendered, shown, robbed>>
  BY DEF Start, Backstop, Enqueue, Wait, WaitEnds, Gesture, settlement, app, history
<1>2. outcome \in [Requests -> Answers]
  BY DEF SlotInv, SlotType
<1>3. CASE Start
  <2>1. queue # <<>> /\ Running = {} /\ phase' = [phase EXCEPT ![Head(queue)] = "planning"] /\ UNCHANGED outcome
    BY <1>3 DEF Start
  <2>2. Head(queue) = queue[1] /\ 1 \in DOMAIN queue /\ Head(queue) \in Requests
    BY <2>1, QueueAt
  <2>3. phase[Head(queue)] = "queued"
    BY <2>1, <2>2, RunningAt
  <2>4. \A q \in Requests : phase'[q] = phase[q] \/ (phase[q] = "queued" /\ phase'[q] = "planning")
    BY <2>1, <2>2, <2>3 DEF LaneInv
  <2> QED BY <1>1, <1>2, <2>1, <2>4, SlotIdle
<1>4. CASE Backstop
  <2>1. UNCHANGED phase /\ \E r \in Requests : outcome' = [outcome EXCEPT ![r] = "requestNotSettled"]
    BY <1>4, RunningAt DEF Backstop
  <2>2. /\ outcome' \in [Requests -> Answers]
        /\ \A q \in Requests : outcome'[q] = outcome[q] \/ outcome'[q] = "requestNotSettled"
    BY <1>2, <2>1 DEF Answers
  <2> QED BY <1>1, <2>1, <2>2, SlotIdle
<1>5. ASSUME NEW r \in Requests, Enqueue(r) PROVE SlotInv'
  <2>1. \A q \in Requests : phase'[q] = phase[q] \/ (phase[q] = "new" /\ phase'[q] = "queued")
    BY <1>5 DEF Enqueue, LaneInv
  <2>2. UNCHANGED outcome
    BY <1>5 DEF Enqueue
  <2> QED BY <1>1, <1>2, <2>1, <2>2, SlotIdle
<1>6. ASSUME NEW r \in Requests, Wait(r) \/ WaitEnds(r) \/ Gesture(r) PROVE SlotInv'
  <2>1. \A q \in Requests : phase'[q] = phase[q] \/ (Kind[q] = "direct" /\ phase'[q] \in {"gesturing", "done"})
    BY <1>6 DEF Wait, WaitEnds, Gesture, LaneInv
  <2>2. /\ outcome' \in [Requests -> Answers]
        /\ \A q \in Requests : outcome'[q] = outcome[q] \/ Kind[q] = "direct"
    BY <1>2, <1>6 DEF Wait, WaitEnds, Gesture, BeginAndFail, Answers
  <2> QED BY <1>1, <2>1, <2>2, SlotIdle DEF Underway
<1> QED BY <1>3, <1>4, <1>5, <1>6

LEMMA NextSlot == ASSUME LaneInv, SlotInv, [Next]_vars PROVE SlotInv'
<1>1. CASE UNCHANGED vars
  BY <1>1 DEF vars, settlement, app, history, SlotInv, SlotType, ShownInv, ParkedInv, SuccessInv, GoneInv,
              MissedInv, Gone, Missed
<1> QED BY <1>1, NextCases, StepIdleSlot, StepFinishSlot, StepCommitSlot, StepEditSlot, StepPlanSlot,
           StepWriteSlot, StepAppliedSlot, StepTimesOutSlot, StepEnqueueTimesOutSlot DEF Moves

LEMMA SlotInductive == Spec => [](LaneInv /\ ClockInv /\ SlotInv)
<1>1. Init => LaneInv /\ ClockInv /\ SlotInv
  BY InitLane, InitClock, InitSlot
<1>2. LaneInv /\ ClockInv /\ SlotInv /\ [Next]_vars => (LaneInv /\ ClockInv /\ SlotInv)'
  BY NextLane, NextClock, NextSlot
<1> QED BY <1>1, <1>2, PTL DEF Spec

\* A mutation that answers "ok" has seen everything it changed rendered, even
\* when commands that were abandoned wrote the same domains in between.
THEOREM SuccessesWereRendered == Spec => []SuccessWasRendered
<1>1. SlotInv => SuccessWasRendered
  BY DEF SlotInv, SuccessInv, SuccessWasRendered, Of
<1> QED BY <1>1, SlotInductive, PTL

\* A mutation whose slots nobody took answers "commitNotObserved" only when it
\* was not seen rendered, or its workspace was replaced before it was enqueued.
THEOREM MissesWereNotObserved == Spec => []NotObserved
<1>1. SlotInv => NotObserved
  BY DEF SlotInv, MissedInv, Missed, Gone, NotObserved, Of
<1> QED BY <1>1, SlotInductive, PTL

\* The lanes, the clock and the slots hold what belongs in them.
THEOREM BridgeTyped == Spec => []TypeOK
<1>1. ASSUME LaneInv, ClockInv, SlotInv PROVE TypeOK
  <2>1. ToSet(queue) \subseteq Of("mutation")
    BY <1>1, QueueAt DEF LaneInv, ToSet, Of, Underway
  <2>2. \A d \in Domains : slot[d] = None \/ d \in Changes[slot[d]] \ settled[slot[d]]
    BY <1>1 DEF SlotInv, ParkedInv
  <2>3. \A d \in Domains : {state[d], rendered[d]} \subseteq Of("mutation") \cup {"user"}
    BY <1>1 DEF SlotInv, SlotType
  <2> QED BY <1>1, <2>1, <2>2, <2>3 DEF TypeOK, LaneInv, ClockInv, ClockType
<1> QED BY <1>1, SlotInductive, PTL
=============================================================================
