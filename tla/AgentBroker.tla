----------------------------- MODULE AgentBroker -----------------------------
(***************************************************************************)
(* The way of an Agent Control request through a workbench: the broker in  *)
(* the Rust process, which holds the request for its client and a thread   *)
(* (agent_control/broker.rs), the listener that useAgentControlBridge      *)
(* installs in the frontend and takes away again, and the answer's way     *)
(* back. What the frontend does with a request is AgentBridge's.           *)
(*                                                                         *)
(* An effect run of the hook (a mount) listens, then announces itself; a   *)
(* teardown can come at any point of that. Calls from the page to Rust and *)
(* their replies keep their order; an event reaches the listeners that     *)
(* were registered when it was emitted and have not been taken away.       *)
(***************************************************************************)
EXTENDS Integers, Sequences, FiniteSets, TLC

CONSTANTS Requests,
          Kind,        \* of each request: command, import or wait
          None,
          MaxPending,  \* requests the broker holds
          MaxMounts    \* bound: effect runs

ASSUME AgentBrokerAssumption ==
  /\ Kind \in [Requests -> {"command", "import", "wait"}]
  /\ MaxPending \in Nat /\ MaxMounts \in Nat
  /\ None \notin {"answer", "unavailable", "awaited", "done", "failed"}

Runs == 1..MaxMounts

VARIABLES
  ready, pending, \* BrokerInner
  client,         \* what became of the client of a request
  inbox,          \* the channel to the thread of a request
  events,         \* on their way to the page: type, request, listeners
  calls, replies, \* the page's calls to Rust, and what they resolve
  listening,      \* the effect runs whose listener is registered
  mounted,        \* the effect run that is mounted, 0 for none: aliveRef
  mounts,         \* bound: the effect runs so far
  stage,          \* of an effect run
  handled,        \* the effect runs whose listener took up a request
  running,        \* the requests the frontend works on, waits included
  answers,        \* the answers on their way to the broker
  delivery,       \* the fate of an answer that may have an afterResponse
  relaunched      \* reloadAfterProfileChange has run

rust == <<ready, pending, client, inbox>>
effect == <<listening, mounted, mounts, stage>>
ipc == <<calls, replies>>
work == <<handled, running, answers>>
after == <<delivery, relaunched>>
vars == <<rust, effect, ipc, work, after, events>>

-----------------------------------------------------------------------------
Init ==
  /\ ready = FALSE /\ pending = {}
  /\ client = [r \in Requests |-> "new"]
  /\ inbox = [r \in Requests |-> None]
  /\ events = <<>> /\ calls = <<>> /\ replies = <<>>
  /\ listening = {} /\ mounted = 0 /\ mounts = 0
  /\ stage = [k \in Runs |-> "none"]
  /\ handled = [r \in Requests |-> {}]
  /\ running = {} /\ answers = {}
  /\ delivery = [r \in Requests |-> None]
  /\ relaunched = FALSE

-----------------------------------------------------------------------------
(* The broker and the thread of a request.                                 *)

Event(type, r) == [type |-> type, id |-> r, to |-> listening]

\* Mutant: one request too many.
FullLate == Cardinality(pending) > MaxPending

Full == Cardinality(pending) >= MaxPending

\* Broker::dispatch: refused, or pending before it is emitted.
Dispatch(r) ==
  /\ client[r] = "new"
  /\ IF ready /\ ~Full
     THEN pending' = pending \cup {r} /\ client' = [client EXCEPT ![r] = "emitting"]
     ELSE client' = [client EXCEPT ![r] = "refused"] /\ UNCHANGED pending
  /\ UNCHANGED <<ready, inbox, effect, ipc, work, after, events>>

\* Mutant: the frontend is not told.
CancelsSilently(r) == pending' = pending \ {r} /\ UNCHANGED events

\* cancel, cancel_pending: whoever takes the request out of pending cancels it.
CancelPending(r) ==
  /\ pending' = pending \ {r}
  /\ events' = IF r \in pending THEN Append(events, Event("cancel", r)) ELSE events

Emit(r) ==
  /\ client[r] = "emitting"
  /\ \/ /\ events' = Append(events, Event("request", r))
        /\ client' = [client EXCEPT ![r] = "waiting"]
        /\ UNCHANGED pending
     \/ /\ CancelPending(r)
        /\ client' = [client EXCEPT ![r] = "refused"]
  /\ UNCHANGED <<ready, inbox, effect, ipc, work, after>>

\* The channel of a thread that is gone is closed, which fails a delivery.
Close(r) ==
  delivery' = IF delivery[r] = "awaited" THEN [delivery EXCEPT ![r] = "failed"] ELSE delivery

\* wait_submission_until gives up: its time is over, or the client left.
GiveUp(r) ==
  /\ client[r] = "waiting"
  /\ client' = [client EXCEPT ![r] = "gone"]
  /\ CancelPending(r)
  /\ Close(r)
  /\ UNCHANGED <<ready, inbox, effect, ipc, work, relaunched>>

\* The thread takes what is in its channel and writes it to its client; a
\* response that awaits its delivery is confirmed.
Deliver(r) ==
  /\ client[r] = "waiting" /\ inbox[r] # None
  /\ \/ inbox[r] = "unavailable" /\ client' = [client EXCEPT ![r] = "unavailable"] /\ UNCHANGED delivery
     \/ /\ inbox[r] = "answer"
        /\ client' = [client EXCEPT ![r] = "answered"]
        /\ delivery' = IF delivery[r] = "awaited"
                       THEN [delivery EXCEPT ![r] = "done"] ELSE delivery
     \/ inbox[r] = "answer" /\ client' = [client EXCEPT ![r] = "gone"] /\ Close(r)
  /\ UNCHANGED <<ready, pending, inbox, effect, ipc, work, relaunched, events>>

\* Mutant: the import does not ask for the delivery.
AwaitsNoDelivery(r) == FALSE

AwaitsDelivery(r) == Kind[r] = "import"

\* agent_control_respond, submit_response: only a pending request is answered.
Respond(r) ==
  /\ r \in answers
  /\ answers' = answers \ {r}
  /\ pending' = pending \ {r}
  /\ IF r \in pending
     THEN /\ inbox' = [inbox EXCEPT ![r] = "answer"]
          /\ delivery' = [delivery EXCEPT ![r] = IF AwaitsDelivery(r) THEN "awaited" ELSE "done"]
     ELSE UNCHANGED inbox /\ delivery' = [delivery EXCEPT ![r] = "failed"]
  /\ UNCHANGED <<ready, client, effect, ipc, handled, running, relaunched, events>>

\* respond_and_wait_for_delivery: no confirmation within CLIENT_GRACE.
DeliveryTimesOut(r) ==
  /\ delivery[r] = "awaited"
  /\ delivery' = [delivery EXCEPT ![r] = "failed"]
  /\ UNCHANGED <<rust, effect, ipc, work, relaunched, events>>

\* afterResponse: an import whose answer was accepted reloads the app, which
\* takes its time (the commit of the operation comes first).
Relaunch(r) ==
  /\ Kind[r] = "import" /\ delivery[r] = "done" /\ mounted # 0 /\ ~relaunched
  /\ relaunched' = TRUE
  /\ UNCHANGED <<rust, effect, ipc, work, delivery, events>>

-----------------------------------------------------------------------------
(* The calls of the page, in their order.                                  *)

Call(cmd, k) == [cmd |-> cmd, run |-> k]
CallsNext(cmd) == calls # <<>> /\ Head(calls).cmd = cmd /\ calls' = Tail(calls)

\* The event plugin registers the listener.
Listen ==
  /\ CallsNext("listen")
  /\ listening' = listening \cup {Head(calls).run}
  /\ replies' = Append(replies, Head(calls))
  /\ UNCHANGED <<rust, mounted, mounts, stage, work, after, events>>

FrontendReady ==
  /\ CallsNext("ready")
  /\ ready' = TRUE
  /\ replies' = Append(replies, Head(calls))
  /\ UNCHANGED <<pending, client, inbox, effect, work, after, events>>

\* frontend_not_ready, fail_all: every thread is told.
FrontendNotReady ==
  /\ CallsNext("notReady")
  /\ ready' = FALSE
  /\ pending' = {}
  /\ inbox' = [r \in Requests |-> IF r \in pending THEN "unavailable" ELSE inbox[r]]
  /\ UNCHANGED <<client, replies, effect, work, after, events>>

-----------------------------------------------------------------------------
(* The effect: install and teardown.                                       *)

Mount ==
  /\ mounted = 0 /\ mounts < MaxMounts
  /\ mounts' = mounts + 1
  /\ mounted' = mounts'
  /\ stage' = [stage EXCEPT ![mounts'] = "listening"]
  /\ calls' = Append(calls, Call("listen", mounts'))
  /\ UNCHANGED <<rust, listening, replies, work, after, events>>

\* Mutant: the run believes aliveRef, which a remount sets again.
TornDownForGood(k) == mounted = 0

\* cancelled: the run was torn down.
Cancelled(k) == mounted # k

RepliesNext(cmd) == replies # <<>> /\ Head(replies).cmd = cmd /\ replies' = Tail(replies)

\* install goes on after listen: it stops a listener it no longer needs.
Listened ==
  /\ RepliesNext("listen")
  /\ LET k == Head(replies).run
     IN  IF Cancelled(k)
         THEN /\ listening' = listening \ {k}
              /\ stage' = [stage EXCEPT ![k] = "over"]
              /\ UNCHANGED calls
         ELSE /\ stage' = [stage EXCEPT ![k] = "announcing"]
              /\ calls' = Append(calls, Call("ready", k))
              /\ UNCHANGED listening
  /\ UNCHANGED <<rust, mounted, mounts, work, after, events>>

\* Mutant: the run leaves the broker as it is.
LeavesBroker(k) == calls

UndoesAnnouncement(k) == Append(calls, Call("notReady", k))

\* install goes on after the announcement: the teardown saw ready still false.
Announced ==
  /\ RepliesNext("ready")
  /\ LET k == Head(replies).run
     IN  IF Cancelled(k)
         THEN /\ listening' = listening \ {k}
              /\ stage' = [stage EXCEPT ![k] = "over"]
              /\ calls' = UndoesAnnouncement(k)
         ELSE stage' = [stage EXCEPT ![k] = "ready"] /\ UNCHANGED <<listening, calls>>
  /\ UNCHANGED <<rust, mounted, mounts, work, after, events>>

\* Teardown: waits are dropped, commands run on; a run that is ready says so.
Unmount ==
  /\ mounted # 0
  /\ mounted' = 0
  /\ running' = {r \in running : Kind[r] # "wait"}
  /\ listening' = IF stage[mounted] = "listening" THEN listening ELSE listening \ {mounted}
  /\ calls' = IF stage[mounted] = "ready" THEN Append(calls, Call("notReady", mounted)) ELSE calls
  /\ stage' = IF stage[mounted] = "ready" THEN [stage EXCEPT ![mounted] = "over"] ELSE stage
  /\ UNCHANGED <<rust, mounts, replies, handled, answers, after, events>>

-----------------------------------------------------------------------------
(* The page: requests and cancellations, and answers.                      *)

Reached == Head(events).to \cap listening

TakeUp ==
  /\ events # <<>> /\ Head(events).type = "request"
  /\ events' = Tail(events)
  /\ handled' = [handled EXCEPT ![Head(events).id] = @ \cup Reached]
  /\ running' = IF Reached = {} THEN running ELSE running \cup {Head(events).id}
  /\ UNCHANGED <<rust, effect, ipc, answers, after>>

\* A cancellation ends a wait; a command runs on.
Cancel ==
  /\ events # <<>> /\ Head(events).type = "cancel"
  /\ events' = Tail(events)
  /\ running' = IF Reached # {} /\ Kind[Head(events).id] = "wait"
                THEN running \ {Head(events).id} ELSE running
  /\ UNCHANGED <<rust, effect, ipc, handled, answers, after>>

\* A request ends; an unmounted bridge does not answer.
Complete(r) ==
  /\ r \in running
  /\ running' = running \ {r}
  /\ answers' = IF mounted # 0 THEN answers \cup {r} ELSE answers
  /\ UNCHANGED <<rust, effect, ipc, handled, after, events>>

-----------------------------------------------------------------------------
ThreadStep(r) == Dispatch(r) \/ Emit(r) \/ GiveUp(r) \/ Deliver(r) \/ DeliveryTimesOut(r)
CallStep == Listen \/ FrontendReady \/ FrontendNotReady
EffectStep == Mount \/ Listened \/ Announced \/ Unmount
PageStep == TakeUp \/ Cancel \/ \E r \in Requests : Complete(r) \/ Respond(r) \/ Relaunch(r)

Next == CallStep \/ EffectStep \/ PageStep \/ \E r \in Requests : ThreadStep(r)

Spec == Init /\ [][Next]_vars

-----------------------------------------------------------------------------
\* The broker never holds more than its bound, and holds a request only while its
\* client waits; only a run of the effect that is not over listens.
TypeOK ==
  /\ pending \subseteq {r \in Requests : client[r] \in {"emitting", "waiting"}}
  /\ Cardinality(pending) <= MaxPending
  /\ client \in [Requests -> {"new", "emitting", "waiting", "refused", "answered",
                              "unavailable", "gone"}]
  /\ listening \subseteq {k \in Runs : stage[k] # "over"}
  /\ mounted \in {0, mounts}
  /\ running \subseteq {r \in Requests : handled[r] # {}}

\* Every request is taken up once, and by the mounted run. Any other run that
\* takes it up was torn down while its listener was being registered: install
\* stops that listener only when it goes on (useAgentControlBridge.js:389-392).
TakenUpOnce ==
  [][\A r \in Requests : handled'[r] # handled[r] =>
       /\ handled[r] = {}
       /\ handled'[r] \ {mounted} \subseteq {k \in Runs : stage[k] = "listening"}]_vars

\* Once the calls are done, the broker takes requests exactly when somebody
\* listens to them, and that is the mounted run.
BrokerKnowsListener ==
  calls = <<>> /\ replies = <<>> =>
    /\ ready <=> mounted # 0
    /\ listening = {mounted} \ {0}

\* The app reloads only after the client of the import has its answer.
RelaunchAfterDelivery ==
  relaunched => \E r \in Requests : Kind[r] = "import" /\ client[r] = "answered"

\* A wait of the mounted run whose client has given up does not keep its place:
\* its cancellation is on the way. (A request the broker dropped, for a
\* teardown, between its insertion and its emission is nobody's to cancel.)
NoOrphanWait ==
  \A w \in running :
    Kind[w] = "wait" /\ client[w] = "gone" /\ handled[w] = {mounted}
      /\ inbox[w] # "unavailable" =>
        \E i \in DOMAIN events : events[i].type = "cancel" /\ events[i].id = w
=============================================================================
