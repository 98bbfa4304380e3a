----------------------------- MODULE LiveCapture -----------------------------
(***************************************************************************)
(* LIVE capture of one workbench: the transport (useCaptureTransport.js),   *)
(* the effect of useAudioEngine.js that owns the native session, and the    *)
(* owner of the published measurement (liveMeasurementOwner.js). The effect *)
(* begins a new run whenever the device, its format or the recovery count   *)
(* changes; a run that was torn down notices only where it looks at         *)
(* `mounted`, and the native commands it has posted are carried out anyway. *)
(*                                                                         *)
(* The commands of the engine are synchronous: the main thread carries them *)
(* out and answers them in the order they were posted. React runs the       *)
(* effect of a state change before the next event. audio_stop, which fails  *)
(* only when a lock is poisoned, succeeds.                                  *)
(***************************************************************************)
EXTENDS Naturals, Sequences

CONSTANTS MaxRuns,    \* bound: runs of the effect
          MaxClears,  \* bound: times the user clears the measurement
          Interrupts  \* the events that may come before the engine has settled

Events == {"start", "stop", "file", "device", "format", "failure", "clear"}
ASSUME LiveCaptureAssumption ==
  MaxRuns \in Nat /\ MaxClears \in Nat /\ Interrupts \subseteq Events

Runs == 1 .. MaxRuns

VARIABLES
  view,     \* the transport and the refs of the effect, see TypeOK
  stage,    \* how far the init of each run has come
  posted,   \* commands the main thread has yet to carry out
  replies,  \* answers the page has yet to handle
  source,   \* the run whose audio_start the native session answers to, 0 for none
  owner,    \* the measurement owner; caught: the run of pending.latest
  labels,   \* history: <<generation, run>> of the records published
  clears

native == <<posted, replies, source>>
vars == <<view, stage, native, owner, labels, clears>>

OnItsWay == {"waiting", "preparing", "configuring", "calling"}

\* Every variable keeps its shape; a run is mounted exactly while capture is wanted, and
\* a restart of the device has somebody who waits for it exactly while it is under way.
TypeOK ==
  /\ view \in [lifecycle : {"stopped", "starting", "running", "stopping", "error"},
               restarting : BOOLEAN, \* deviceTransition
               running : BOOLEAN,
               asked : SUBSET {"start", "stop", "restart"}, \* promises not settled
               run : 0 .. MaxRuns,      \* the run that is mounted
               begun : 0 .. MaxRuns,
               audio : 0 .. MaxRuns,    \* audioRef, by its run
               stopped : 0 .. MaxRuns,  \* stoppedAudioRef
               inFlight : 0 .. MaxRuns, \* stopInFlightRef, 0 when it has resolved
               awaits : [Runs -> 0 .. MaxRuns], \* the stop that init of a run awaits
               rests : [Runs -> {"no", "mark", "keep"}], \* what follows a stop otherwise
               recoverable : BOOLEAN]   \* recoveryAvailableRef
  /\ stage \in [Runs -> OnItsWay \cup {"unborn", "live", "over"}]
  /\ posted \in Seq({"start", "stop"} \X Runs)
  /\ replies \in Seq({"started", "refused", "stopped"} \X Runs)
  /\ source \in 0 .. MaxRuns
  /\ owner \in [generation : Nat, pending : Nat, caught : 0 .. MaxRuns]
  /\ labels \subseteq Nat \X Runs
  /\ clears \in 0 .. MaxClears
  \* The effect follows the state, and every run but the mounted one is over or forgotten.
  /\ view.running = (view.run # 0)
  /\ \A k \in Runs : stage[k] = "live" => k = view.run
  /\ view.asked \cap {"restart"} = {} <=> ~view.restarting

Init ==
  /\ view = [lifecycle |-> "stopped", restarting |-> FALSE, running |-> FALSE, asked |-> {},
             run |-> 0, begun |-> 0, audio |-> 0, stopped |-> 0, inFlight |-> 0,
             awaits |-> [k \in Runs |-> 0], rests |-> [k \in Runs |-> "no"],
             recoverable |-> TRUE]
  /\ stage = [k \in Runs |-> "unborn"]
  /\ posted = <<>> /\ replies = <<>> /\ source = 0
  /\ owner = [generation |-> 0, pending |-> 0, caught |-> 0]
  /\ labels = {} /\ clears = 0

-----------------------------------------------------------------------------
(* The transport.                                                          *)

MarkStarted(v) ==
  [v EXCEPT !.lifecycle = "running", !.restarting = FALSE, !.asked = @ \ {"start", "restart"}]

MarkStartFailed(v) ==
  [v EXCEPT !.running = FALSE, !.lifecycle = "error", !.restarting = FALSE,
            !.asked = @ \ {"start", "restart"}]

\* Mutant: a stop leaves the device transition as it was.
MarkStoppedOnly(v) ==
  [v EXCEPT !.running = FALSE, !.lifecycle = "stopped", !.asked = @ \ {"stop", "restart"}]

\* A start that waits is not answered by it.
MarkStopped(v) ==
  [v EXCEPT !.running = FALSE, !.lifecycle = "stopped", !.restarting = FALSE,
            !.asked = @ \ {"stop", "restart"}]

-----------------------------------------------------------------------------
(* The effect: its cleanup and its two bodies.                             *)

ToStop(v) == v.run # 0 /\ v.audio # 0 /\ v.stopped # v.audio

\* The cleanup: what is held is stopped, once. A run that holds nothing yet stops nothing.
Unmounted(v) ==
  IF ToStop(v)
  THEN [v EXCEPT !.run = 0, !.stopped = v.audio, !.inFlight = v.audio]
  ELSE [v EXCEPT !.run = 0]

\* The body of a run, which awaits the stop in flight.
Mounted(v) ==
  LET k == v.begun + 1
  IN  [v EXCEPT !.run = k, !.begun = k, !.awaits[k] = v.inFlight, !.inFlight = 0]

\* What follows a stop when nothing is to run.
Rested(v, failed) ==
  LET u == [v EXCEPT !.audio = 0] IN IF failed THEN u ELSE MarkStopped(u)

\* The body when nothing is to run.
Resting(v) ==
  LET u == [v EXCEPT !.inFlight = 0]
      failed == v.lifecycle = "error"
  IN  IF v.inFlight = 0
      THEN Rested(u, failed)
      ELSE [u EXCEPT !.rests[v.inFlight] = IF failed THEN "keep" ELSE "mark"]

\* The effect after a change of `running`, and after a change of the other inputs.
Committed(v) ==
  CASE v.running /\ v.run = 0  -> Mounted([v EXCEPT !.recoverable = TRUE])
    [] ~v.running /\ v.run # 0 -> Resting(Unmounted([v EXCEPT !.recoverable = TRUE]))
    [] OTHER                   -> v
Rerun(v) == IF v.running THEN Mounted(Unmounted(v)) ELSE Resting(v)
CanRerun(v) == v.running => v.begun < MaxRuns

\* The step from view to v, with what the effect posts and the runs it begins and ends.
Become(v, stages) ==
  /\ view' = v
  /\ stage' = [k \in Runs |->
       IF k = v.run /\ stage[k] = "unborn"
       THEN IF v.awaits[k] = 0 THEN "preparing" ELSE "waiting"
       ELSE IF stages[k] = "live" /\ k # v.run THEN "over" ELSE stages[k]]
  /\ posted' = IF v.stopped # view.stopped THEN Append(posted, <<"stop", v.stopped>>) ELSE posted

-----------------------------------------------------------------------------
(* What may happen at any time, or only once the engine has settled.       *)

Settled == posted = <<>> /\ replies = <<>> /\ \A k \in Runs : stage[k] \notin OnItsWay
May(event) == event \in Interrupts \/ Settled

\* Mutant: a stop after a failure waits for the engine to acknowledge it.
StopWaits ==
  /\ May("stop")
  /\ view.lifecycle \in {"running", "error"} /\ ~view.restarting
  /\ Become(Committed([view EXCEPT !.lifecycle = "stopping", !.running = FALSE,
                                   !.asked = @ \cup {"stop"}]), stage)
  /\ UNCHANGED <<replies, source, owner, labels, clears>>

\* startLiveForControl, and startLive, which ignores the promise.
Start ==
  /\ May("start")
  /\ view.lifecycle \in {"stopped", "error"} /\ ~view.restarting /\ view.begun < MaxRuns
  /\ Become(Committed([view EXCEPT !.lifecycle = "starting", !.running = TRUE,
                                   !.asked = @ \cup {"start"}]), stage)
  /\ UNCHANGED <<replies, source, owner, labels, clears>>

\* stopLiveForControl, and stopLive, which alone stops a start that is under way.
Stop ==
  /\ May("stop")
  /\ \/ /\ view.lifecycle = "error" /\ ~view.restarting
        /\ Become(Committed(MarkStopped(view)), stage)
     \/ /\ view.lifecycle = "running" /\ ~view.restarting
        /\ Become(Committed([view EXCEPT !.lifecycle = "stopping", !.running = FALSE,
                                         !.asked = @ \cup {"stop"}]), stage)
     \/ /\ view.lifecycle = "starting"
        /\ Become(Committed([view EXCEPT !.lifecycle = "stopping", !.running = FALSE,
                                         !.asked = @ \ {"start"}]), stage)
  /\ UNCHANGED <<replies, source, owner, labels, clears>>

\* switchSource("file"), which halts without waiting.
SwitchToFile ==
  /\ May("file") /\ view.running
  /\ Become(Committed(MarkStopped(view)), stage)
  /\ UNCHANGED <<replies, source, owner, labels, clears>>

\* selectCaptureDevice, once the preview of the device has answered.
SelectDevice ==
  /\ May("device") /\ CanRerun(view)
  /\ \/ /\ view.lifecycle = "running" /\ ~view.restarting
        /\ Become(Rerun([view EXCEPT !.restarting = TRUE, !.asked = @ \cup {"restart"},
                                     !.recoverable = TRUE]), stage)
     \/ /\ view.lifecycle \in {"stopped", "error"}
        /\ Become(Rerun(view), stage)
  /\ UNCHANGED <<replies, source, owner, labels, clears>>

\* The format of the selected device, or the device behind Automatic, changes; or a device
\* is committed that was chosen before the start.
ChangeFormat ==
  /\ May("format") /\ CanRerun(view)
  /\ Become(Rerun([view EXCEPT !.recoverable = TRUE]), stage)
  /\ UNCHANGED <<replies, source, owner, labels, clears>>

\* The capture thread ends by itself. The listener of the mounted run rebuilds an
\* invalidated stream once and halts otherwise; a run that has none yet misses it.
EngineFails(invalidated) ==
  /\ May("failure") /\ source # 0
  /\ source' = 0
  /\ IF view.run = 0 \/ stage[view.run] \notin {"calling", "live"}
     THEN UNCHANGED <<view, stage, posted>>
     ELSE IF invalidated /\ view.recoverable
          THEN /\ CanRerun(view)
               /\ Become(Rerun([view EXCEPT !.recoverable = FALSE]), stage)
          ELSE Become(Committed(MarkStartFailed(view)), stage)
  /\ UNCHANGED <<replies, owner, labels, clears>>

\* clearLiveSource.
Clear ==
  /\ May("clear") /\ clears < MaxClears
  /\ clears' = clears + 1
  /\ owner' = [generation |-> owner.generation + 1, pending |-> 0, caught |-> 0]
  /\ UNCHANGED <<view, stage, native, labels>>

-----------------------------------------------------------------------------
(* init of a run.                                                          *)

Reached(k, s) == [stage EXCEPT ![k] = s]

\* The device is found. This is the last look at `mounted` before the start.
Prepare(k) ==
  /\ stage[k] = "preparing"
  /\ stage' = Reached(k, IF view.run = k THEN "configuring" ELSE "over")
  /\ UNCHANGED <<view, native, owner, labels, clears>>

\* It is not, which halts the transport whether the run is mounted or not.
FailToPrepare(k) ==
  /\ stage[k] = "preparing"
  /\ Become(Committed(MarkStartFailed(view)), Reached(k, "over"))
  /\ UNCHANGED <<replies, source, owner, labels, clears>>

\* What the order of the answers leaves of a race of two runs. An earlier run that is not
\* over had its last look at `mounted` before run k was mounted, and six calls to make
\* from there, audio_start the sixth. Run k asks for the devices first and makes the same
\* calls then: its sixth is posted, and answered, after the other's, and only then does it
\* begin. The calls between the look and the start are one stage of the model.
EarlierAnswered(k) == \A j \in 1 .. k - 1 : stage[j] \notin OnItsWay

\* The roles and the dialogue settings are set, the listeners registered, the start posted.
Begin(k) ==
  /\ stage[k] = "configuring" /\ EarlierAnswered(k)
  /\ stage' = Reached(k, "calling")
  /\ posted' = Append(posted, <<"start", k>>)
  /\ owner' = IF owner.pending # 0 THEN owner
              ELSE [owner EXCEPT !.pending = owner.generation + 1, !.caught = 0]
  /\ UNCHANGED <<view, replies, source, labels, clears>>

Aborted == [owner EXCEPT !.pending = 0, !.caught = 0]

\* Mutant: the answer does not ask whether the run is mounted.
StartedAnyhow(k) ==
  /\ Become(MarkStarted([view EXCEPT !.audio = k]), Reached(k, "over"))
  /\ owner' = Aborted /\ UNCHANGED labels

\* The answer to audio_start finds the run mounted.
Started(k) ==
  /\ view.run = k
  /\ Become(MarkStarted([view EXCEPT !.audio = k]), Reached(k, "live"))
  /\ IF owner.pending = 0 THEN UNCHANGED <<owner, labels>>
     ELSE /\ owner' = [Aborted EXCEPT !.generation = owner.pending]
          /\ labels' = labels \cup ({owner.pending} \X ({owner.caught} \ {0}))

\* Or it does not: the listeners are released, the session is not.
StartedTooLate(k) ==
  /\ view.run # k
  /\ stage' = Reached(k, "over")
  /\ owner' = Aborted
  /\ UNCHANGED <<view, posted, labels>>

Refused(k) ==
  /\ owner' = Aborted
  /\ Become(Committed(MarkStartFailed(view)), Reached(k, "over"))
  /\ UNCHANGED labels

\* The answer to the audio_stop of what run k held.
Stopped(k) ==
  /\ CASE view.rests[k] = "mark" ->
            Become(Committed(Rested([view EXCEPT !.rests[k] = "no"], FALSE)), stage)
       [] view.rests[k] = "keep" ->
            Become(Rested([view EXCEPT !.rests[k] = "no"], TRUE), stage)
       [] OTHER ->
            Become([view EXCEPT !.inFlight = IF @ = k THEN 0 ELSE @],
                   [j \in Runs |-> IF stage[j] # "waiting" \/ view.awaits[j] # k THEN stage[j]
                                   ELSE IF view.run = j THEN "preparing" ELSE "over"])
  /\ UNCHANGED <<owner, labels>>

Answered ==
  /\ replies # <<>>
  /\ replies' = Tail(replies)
  /\ LET k == Head(replies)[2]
     IN  \/ Head(replies)[1] = "started" /\ (Started(k) \/ StartedTooLate(k))
         \/ Head(replies)[1] = "refused" /\ Refused(k)
         \/ Head(replies)[1] = "stopped" /\ Stopped(k)
  /\ UNCHANGED <<source, clears>>

-----------------------------------------------------------------------------
(* The native engine.                                                      *)

\* audio_start ends the session there is before it tries to open its own.
AudioStart(k) ==
  \/ source' = k /\ replies' = Append(replies, <<"started", k>>)
  \/ source' = 0 /\ replies' = Append(replies, <<"refused", k>>)

AudioStop(k) == source' = 0 /\ replies' = Append(replies, <<"stopped", k>>)

CarryOut ==
  /\ posted # <<>>
  /\ posted' = Tail(posted)
  /\ LET k == Head(posted)[2]
     IN  IF Head(posted)[1] = "start" THEN AudioStart(k) ELSE AudioStop(k)
  /\ UNCHANGED <<view, stage, owner, labels, clears>>

\* Mutant: a frame is published though its session has not been committed.
FrameAtOnce ==
  /\ source # 0 /\ source = view.run
  /\ labels' = labels \cup {<<owner.generation, source>>}
  /\ UNCHANGED <<view, stage, native, owner, clears>>

\* A frame reaches applyFrame of the run, which drops it when it is not mounted. Frames of
\* a rebuilt stream that lasts arm the recovery again.
Frame ==
  /\ source # 0 /\ source = view.run
  /\ IF owner.pending # 0
     THEN owner' = [owner EXCEPT !.caught = source] /\ UNCHANGED labels
     ELSE labels' = labels \cup {<<owner.generation, source>>} /\ UNCHANGED owner
  /\ view' \in {view, [view EXCEPT !.recoverable = TRUE]}
  /\ UNCHANGED <<stage, native, clears>>

UserStep == Start \/ Stop \/ SwitchToFile \/ SelectDevice \/ Clear
DeviceStep == ChangeFormat \/ \E invalidated \in BOOLEAN : EngineFails(invalidated)
RunStep(k) == Prepare(k) \/ FailToPrepare(k) \/ Begin(k)
EngineStep == CarryOut \/ Answered

Next ==
  \/ UserStep
  \/ DeviceStep
  \/ \E k \in Runs : RunStep(k)
  \/ EngineStep
  \/ Frame

Spec == Init /\ [][Next]_vars
\* The main thread and the page go on.
FairSpec == Spec /\ WF_vars(EngineStep) /\ \A k \in Runs : WF_vars(RunStep(k))

-----------------------------------------------------------------------------
\* When the transport says that capture is over, and nothing is under way, the native
\* session has been released.
StoppedMeansReleased ==
  Settled /\ view.lifecycle \in {"stopped", "error"} => source = 0

\* When it says that capture is running, the session is the mounted run's, whose frames are
\* not dropped and which the next stop will release.
RunningIsCapturing ==
  Settled /\ view.lifecycle = "running" =>
    /\ source = view.run /\ view.audio = view.run /\ view.stopped # view.run

\* No generation of the measurement names records of two sessions.
OneSessionPerGeneration ==
  \A x, y \in labels : x[1] = y[1] => x[2] = y[2]

\* A transition comes to an end, and whoever waits for a stop or a restart is answered.
TransitionsEnd ==
  view.lifecycle \in {"starting", "stopping"} \/ view.asked \cap {"stop", "restart"} # {} ~>
    view.lifecycle \notin {"starting", "stopping"} /\ view.asked \cap {"stop", "restart"} = {}
=============================================================================
