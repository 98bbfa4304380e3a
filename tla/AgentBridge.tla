----------------------------- MODULE AgentBridge -----------------------------
(***************************************************************************)
(* Agent Control in the frontend of a workbench (agentControl/bridge,      *)
(* useAgentControlBridge.js): what happens to the requests that AgentBroker*)
(* hands over.                                                             *)
(*                                                                         *)
(* Commands run one at a time in a serialized queue; one that takes too    *)
(* long is abandoned, but it keeps running. Waits and panel gestures are   *)
(* answered outside the queue, in the direct lane. A command that mutates  *)
(* is planned, arms a settlement slot per domain, calls the business       *)
(* function and waits until React has rendered what it expects; a Preset   *)
(* that is applied also waits for its workspace to be handed to            *)
(* persistence. Then it flushes and answers. Commits of React advance the  *)
(* public revision; a command's batch makes its commits advance it once,   *)
(* and holds back the waits they would wake until it ends.                 *)
(*                                                                         *)
(* One action is one turn of the event loop with its microtasks. A domain  *)
(* holds the name of the request that last wrote it, or "user".            *)
(***************************************************************************)
EXTENDS Integers, Sequences, FiniteSets, SequencesExt, TLC

CONSTANTS Requests,
          Kind,      \* of each request: mutation, or direct for a wait or gesture
          Domains,
          Changes,   \* the domains a mutation changes and observes: both for
                     \* preset.apply, one for most of the commands
          Persisted, \* the domains whose persistence is awaited too: the workspace
          None,
          MaxWaits,  \* waits the frontend holds
          MaxEdits   \* bound: changes the user makes in the interface

ASSUME AgentBridgeAssumption ==
  /\ Kind \in [Requests -> {"mutation", "direct"}]
  /\ Changes \in [Requests -> SUBSET Domains] /\ Persisted \subseteq Domains
  /\ None \notin Requests \cup {"ok", "error", "requestNotSettled", "commitNotObserved"}
  /\ "user" \notin Requests
  /\ None \notin [owner : Requests, start : Nat, bumped : BOOLEAN, wakePending : BOOLEAN]
  /\ MaxWaits \in Nat /\ MaxEdits \in Nat

VARIABLES
  asked,      \* expectedRevision of a mutation
  queue,      \* the serialized lane, the running command first
  phase,      \* how far a request is
  abandoned,  \* commands the backstop gave up, which still run
  todo,       \* the domains a command has still to write
  settled,    \* the domains whose settlement of a command is resolved
  slot,       \* the settlement registry: the command parked on a domain
  state,      \* the app state of a domain
  rendered,   \* what React rendered of it
  revision, batch,
  waiters,    \* the revision waiters: afterRevision
  outcome,    \* what a command answers
  edits,      \* bound: the changes made by the user
  shown,      \* history: the domains that rendered what a command awaits
  displaced,  \* history: the commands whose batch another has replaced
  unwoken,    \* history: the waits whose wake went with a batch that was replaced
  robbed      \* history: the commands whose slot another has taken or cleared

lane == <<queue, abandoned>>
settlement == <<todo, settled, slot>>
app == <<state, rendered, edits>>
clock == <<revision, batch, waiters>>
meetings == <<displaced, unwoken>>
history == <<shown, meetings, robbed>>
vars == <<asked, lane, phase, settlement, app, clock, outcome, history>>

Of(k) == {r \in Requests : Kind[r] = k}
Started(r) == phase[r] \notin {"new", "queued", "done"}
Running == IF queue # <<>> /\ Started(Head(queue)) THEN {Head(queue)} ELSE {}

-----------------------------------------------------------------------------
Init ==
  /\ asked = [r \in Requests |-> 0]
  /\ queue = <<>> /\ abandoned = {}
  /\ phase = [r \in Requests |-> "new"]
  /\ todo = [r \in Requests |-> {}]
  /\ settled = [r \in Requests |-> {}]
  /\ slot = [d \in Domains |-> None]
  /\ state = [d \in Domains |-> "user"]
  /\ rendered = state
  /\ revision = 0 /\ batch = None /\ waiters = <<>>
  /\ outcome = [r \in Requests |-> None]
  /\ edits = 0
  /\ shown = [r \in Requests |-> {}]
  /\ displaced = {} /\ unwoken = {} /\ robbed = {}

-----------------------------------------------------------------------------
(* The revision clock.                                                     *)

\* Who loses by it: the owner, and the waits that the batch was to wake.
Displaces ==
  IF batch = None THEN UNCHANGED meetings
  ELSE /\ displaced' = displaced \cup {batch.owner}
       /\ unwoken' = unwoken \cup {w \in DOMAIN waiters : waiters[w] # revision}

\* beginBatch replaces what is there.
Begin(r) ==
  /\ batch' = [owner |-> r, start |-> revision, bumped |-> FALSE, wakePending |-> FALSE]
  /\ Displaces

\* A command that fails in the turn in which it begins.
BeginAndFail(r) ==
  /\ batch' = None
  /\ Displaces
  /\ outcome' = [outcome EXCEPT ![r] = "error"]

\* onWake, at the end of the turn: every waiter for another revision answers.
Wake(now) == waiters' = [w \in {v \in DOMAIN waiters : waiters[v] = now} |-> waiters[w]]

\* A batch is over: the wake it held back is published.
EndBatch ==
  /\ batch' = None
  /\ IF batch.wakePending THEN Wake(revision) ELSE UNCHANGED waiters

\* Mutant: whoever ends takes the batch along.
OwnsAny(r) == batch # None

\* endBatch checks the identity, so a late command cannot end another's batch.
Owns(r) == batch # None /\ batch.owner = r

\* A command ends with an answer; for an abandoned one it is too late.
Finish(r, o) ==
  /\ phase' = [phase EXCEPT ![r] = "done"]
  /\ queue' = IF r \in Running THEN Tail(queue) ELSE queue
  /\ abandoned' = abandoned \ {r}
  /\ outcome' = IF r \in abandoned THEN outcome ELSE [outcome EXCEPT ![r] = o]
  /\ IF Owns(r) THEN EndBatch ELSE UNCHANGED <<batch, waiters>>

-----------------------------------------------------------------------------
(* The direct lane. A client knows the revisions the app has had.          *)

\* app.wait: a batch that has advanced the revision is not over for a wait
\* that names the revision it started from.
AwaitsActiveBatch(after) == batch # None /\ batch.bumped /\ after = batch.start

Wait(w) ==
  /\ Kind[w] = "direct" /\ phase[w] = "new"
  /\ phase' = [phase EXCEPT ![w] = "done"]
  /\ \E n \in 0..revision :
       waiters' = IF \/ revision # n /\ ~AwaitsActiveBatch(n)
                     \/ Cardinality(DOMAIN waiters) >= MaxWaits
                  THEN waiters
                  ELSE [v \in DOMAIN waiters \cup {w} |-> IF v = w THEN n ELSE waiters[v]]
  /\ UNCHANGED <<asked, lane, settlement, app, revision, batch, outcome, history>>

\* The wait times out, or its client left and it is cancelled.
WaitEnds(w) ==
  /\ w \in DOMAIN waiters
  /\ waiters' = [v \in DOMAIN waiters \ {w} |-> waiters[v]]
  /\ UNCHANGED <<asked, lane, phase, settlement, app, revision, batch, outcome, history>>

\* A gesture names a revision, so it has a batch though it does not queue.
Gesture(g) ==
  /\ Kind[g] = "direct" /\ phase[g] = "new"
  /\ \/ /\ Begin(g)
        /\ phase' = [phase EXCEPT ![g] = "gesturing"]
        /\ UNCHANGED outcome
     \/ /\ BeginAndFail(g)
        /\ phase' = [phase EXCEPT ![g] = "done"]
  /\ UNCHANGED <<asked, lane, settlement, app, revision, waiters, shown, robbed>>

GestureEnds(g) ==
  /\ phase[g] = "gesturing"
  /\ Finish(g, "ok")
  /\ UNCHANGED <<asked, settlement, app, revision, history>>

-----------------------------------------------------------------------------
(* The serialized lane.                                                    *)

\* The request names the current revision; one that names an earlier one will
\* be refused, and so may this one.
Enqueue(r) ==
  /\ Kind[r] = "mutation" /\ phase[r] = "new"
  /\ asked' = [asked EXCEPT ![r] = revision]
  /\ queue' = Append(queue, r)
  /\ phase' = [phase EXCEPT ![r] = "queued"]
  /\ UNCHANGED <<abandoned, settlement, app, clock, outcome, history>>

\* processRequest begins the batch and awaits the monitors and the scene.
Start ==
  /\ queue # <<>> /\ Running = {}
  /\ phase' = [phase EXCEPT ![Head(queue)] = "planning"]
  /\ Begin(Head(queue))
  /\ UNCHANGED <<asked, lane, settlement, app, revision, waiters, outcome, shown, robbed>>

\* The others that are parked on the domains of a command lose their slots.
Robs(r) == robbed' = robbed \cup ({slot[d] : d \in Changes[r]} \ {None, r})

\* The Preset is planned and its snapshot captured; the revision is checked
\* again after that. Then settlement.arm: the last command to arm has the slot.
Plan(r) ==
  /\ phase[r] = "planning"
  /\ asked[r] = revision
  /\ phase' = [phase EXCEPT ![r] = "applying"]
  /\ todo' = [todo EXCEPT ![r] = Changes[r]]
  /\ slot' = [d \in Domains |-> IF d \in Changes[r] THEN r ELSE slot[d]]
  /\ Robs(r)
  /\ UNCHANGED <<asked, lane, settled, app, clock, outcome, shown, meetings>>

\* The revision is another, or the request is refused; or there is nothing to do.
Refuse(r) ==
  /\ phase[r] = "planning"
  /\ Finish(r, "error")
  /\ UNCHANGED <<asked, settlement, app, revision, history>>

\* applySnapshot changes one domain after another.
Write(r, d) ==
  /\ phase[r] = "applying" /\ d \in todo[r]
  /\ todo' = [todo EXCEPT ![r] = @ \ {d}]
  /\ state' = [state EXCEPT ![d] = r]
  /\ UNCHANGED <<asked, lane, phase, settled, slot, rendered, edits, clock, outcome, history>>

\* The promise of every slot is resolved. The persistence of the workspace
\* follows what was rendered last: when that is what the command wrote, it is on
\* to the flush. A change is not taken back, so what has been replaced does not
\* come any more.
Observed(ready, now) ==
  LET enqueued(r) == \A d \in Changes[r] \cap Persisted : now[d] = r
  IN  phase' = [r \in Requests |-> IF r \notin ready THEN phase[r]
                                  ELSE IF enqueued(r) THEN "flushing" ELSE "enqueuing"]

Applied(r) ==
  /\ phase[r] = "applying" /\ todo[r] = {}
  /\ IF settled[r] = Changes[r] THEN Observed({r}, rendered)
     ELSE phase' = [phase EXCEPT ![r] = "observing"]
  /\ UNCHANGED <<asked, lane, settlement, app, clock, outcome, history>>

\* settlement.clear: whoever clears a slot clears what is parked there.
Clear(r) ==
  /\ slot' = [d \in Domains |-> IF d \in Changes[r] THEN None ELSE slot[d]]
  /\ Robs(r)

ApplyFails(r) ==
  /\ phase[r] = "applying"
  /\ Clear(r)
  /\ Finish(r, "error")
  /\ UNCHANGED <<asked, todo, settled, app, revision, shown, meetings>>

\* awaitSettlement gives up; what was applied is persisted all the same.
SettlementTimesOut(r) ==
  /\ phase[r] = "observing"
  /\ Clear(r)
  /\ phase' = [phase EXCEPT ![r] = "salvaging"]
  /\ UNCHANGED <<asked, lane, todo, settled, app, clock, outcome, shown, meetings>>

\* Its second use, after the slots, is for the workspace that was replaced
\* before its persistence followed; there is no slot to clear.
EnqueueTimesOut(r) ==
  /\ phase[r] = "enqueuing"
  /\ phase' = [phase EXCEPT ![r] = "salvaging"]
  /\ UNCHANGED <<asked, lane, settlement, app, clock, outcome, history>>

\* flush returns or fails.
Flushed(r) ==
  /\ \/ phase[r] = "flushing" /\ \E o \in {"ok", "error"} : Finish(r, o)
     \/ phase[r] = "salvaging" /\ Finish(r, "commitNotObserved")
  /\ UNCHANGED <<asked, settlement, app, revision, history>>

\* Mutant: the batch goes, and its wake with it.
DropBatch == batch' = None /\ UNCHANGED waiters

AbandonBatch == IF batch = None THEN UNCHANGED <<batch, waiters>> ELSE EndBatch

\* Mutant: the queue waits for the command after all.
QueueAfterAll == queue

QueueAfterBackstop == Tail(queue)

\* The backstop: the command is answered for, and the queue goes on.
Backstop ==
  /\ \E r \in Running :
       /\ abandoned' = abandoned \cup {r}
       /\ outcome' = [outcome EXCEPT ![r] = "requestNotSettled"]
  /\ AbandonBatch
  /\ queue' = QueueAfterBackstop
  /\ UNCHANGED <<asked, phase, settlement, app, revision, history>>

-----------------------------------------------------------------------------
(* The app.                                                                *)

Edit(d) ==
  /\ edits < MaxEdits /\ state[d] # "user"
  /\ edits' = edits + 1
  /\ state' = [state EXCEPT ![d] = "user"]
  /\ UNCHANGED <<asked, lane, phase, settlement, rendered, clock, outcome, history>>

\* Mutant: any commit of the domain resolves its slot.
MatchesAny(d) == slot[d] # None

\* Mutant: the promise is made after the business function returned.
MatchesWhenAwaited(d) == slot[d] # None /\ slot[d] = state[d] /\ phase[slot[d]] = "observing"

Matches(d) == slot[d] # None /\ slot[d] = state[d]

\* Mutant: resolve leaves in the slot what it resolved.
SlotsKept(resolved) == slot

\* settlement.resolve empties the slot.
SlotsAfter(resolved) == [d \in Domains |-> IF d \in resolved THEN None ELSE slot[d]]

\* React commits, and the watchers of the domains that changed observe it: one
\* advance and one wake for the commit, or none of its own within a batch.
Commit ==
  /\ state # rendered
  /\ rendered' = state
  /\ LET changed == {d \in Domains : state[d] # rendered[d]}
         resolved == {d \in changed : Matches(d)}
         all(r) == settled[r] \cup {d \in resolved : slot[d] = r}
     IN  /\ revision' = IF batch # None /\ batch.bumped THEN revision ELSE revision + 1
         /\ IF batch = None THEN UNCHANGED batch /\ Wake(revision')
            ELSE /\ batch' = [batch EXCEPT !.bumped = TRUE, !.wakePending = TRUE]
                 /\ UNCHANGED waiters
         /\ slot' = SlotsAfter(resolved)
         /\ settled' = [r \in Requests |-> all(r)]
         /\ shown' = [r \in Requests |->
                        IF phase[r] \in {"applying", "observing"}
                        THEN shown[r] \cup {d \in changed : state[d] = r} ELSE shown[r]]
         /\ Observed({r \in Requests : phase[r] = "observing" /\ all(r) = Changes[r]}, state)
  /\ UNCHANGED <<asked, lane, todo, state, edits, outcome, meetings, robbed>>

-----------------------------------------------------------------------------
DirectStep(r) == Wait(r) \/ WaitEnds(r) \/ Gesture(r) \/ GestureEnds(r)
CommandStep(r) ==
  \/ Enqueue(r) \/ Plan(r) \/ Refuse(r) \/ Applied(r) \/ ApplyFails(r)
  \/ SettlementTimesOut(r) \/ EnqueueTimesOut(r) \/ Flushed(r)
  \/ \E d \in Domains : Write(r, d)
Next ==
  \/ \E r \in Requests : DirectStep(r) \/ CommandStep(r)
  \/ Start \/ Backstop \/ Commit
  \/ \E d \in Domains : Edit(d)

Spec == Init /\ [][Next]_vars

\* The queue is run and its timer fires; what a business function, React or a
\* flush does is not assumed.
FairSpec == Spec /\ WF_vars(Start) /\ WF_vars(Backstop)

-----------------------------------------------------------------------------
\* The lanes hold what belongs in them, no more waits are held than app.wait allows, and a
\* settlement slot names a command that still has that domain to observe.
TypeOK ==
  /\ asked \in [Requests -> 0..revision]
  /\ ToSet(queue) \cup abandoned \subseteq Of("mutation")
  /\ DOMAIN waiters \subseteq Of("direct") /\ Cardinality(DOMAIN waiters) <= MaxWaits
  /\ \A d \in Domains : slot[d] = None \/ d \in Changes[slot[d]] \ settled[slot[d]]
  /\ \A d \in Domains : {state[d], rendered[d]} \subseteq Of("mutation") \cup {"user"}

\* No wait sleeps through a change: a revision waiter waits for the current
\* revision, or for the end of the batch that has advanced it and will wake it.
\* Only the waits of a batch that was replaced before it woke them may sleep on.
WaitersAwake ==
  \A w \in DOMAIN waiters \ unwoken :
    \/ waiters[w] = revision
    \/ batch # None /\ batch.wakePending /\ waiters[w] = batch.start

\* The running command has its own batch, whatever an abandoned command does
\* late, and its commits advance the revision once. Only a gesture that begins
\* takes it away.
CommandAdvancesOnce ==
  \A r \in Running \ displaced :
    /\ batch # None /\ batch.owner = r
    /\ revision = batch.start + (IF batch.bumped THEN 1 ELSE 0)

\* A mutation that answers "ok" has seen everything it changed rendered.
SuccessWasRendered ==
  \A r \in Of("mutation") : outcome[r] = "ok" => shown[r] = Changes[r]

\* A mutation that answers "commitNotObserved" was not seen rendered as a
\* whole, or what it had put in the workspace has been replaced since. Only a
\* command whose slot another took may answer it without being right.
NotObserved ==
  \A r \in Of("mutation") \ robbed :
    outcome[r] = "commitNotObserved" =>
      \/ shown[r] # Changes[r]
      \/ \E d \in Changes[r] \cap Persisted : rendered[d] # r

\* A queued command is started, whatever the commands before it wait for.
QueueMoves == \A r \in Of("mutation") : phase[r] = "queued" ~> phase[r] # "queued"
=============================================================================
