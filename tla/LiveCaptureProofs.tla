-------------------------- MODULE LiveCaptureProofs --------------------------
(***************************************************************************)
(* The safety properties of LiveCapture, for any number of runs of the     *)
(* effect and any events that may interrupt the engine. The invariant says *)
(* how far each run may be beside the others (StageInv), which commands and *)
(* answers are on their way for them (WireInv) and what the records of the *)
(* current generation can be (OwnerInv).                                   *)
(***************************************************************************)
EXTENDS LiveCapture, TLAPS

-----------------------------------------------------------------------------
(* The view, and what the operators on it change.                          *)

RunOrNone == 0 .. MaxRuns
Capturing == {"starting", "running"}
Views ==
  [lifecycle : {"stopped", "starting", "running", "stopping", "error"},
   restarting : BOOLEAN,
   running : BOOLEAN,
   asked : SUBSET {"start", "stop", "restart"},
   run : 0 .. MaxRuns,
   begun : 0 .. MaxRuns,
   audio : 0 .. MaxRuns,
   stopped : 0 .. MaxRuns,
   inFlight : 0 .. MaxRuns,
   awaits : [Runs -> 0 .. MaxRuns],
   rests : [Runs -> {"no", "mark", "keep"}],
   recoverable : BOOLEAN]

\* Capture is wanted exactly in the lifecycles in which it is or will be, and a
\* restart is waited for exactly while it is under way.
Coherent(v) ==
  /\ v \in Views
  /\ v.running <=> v.lifecycle \in Capturing
  /\ "restart" \in v.asked <=> v.restarting

\* The runs and sessions of two views are the same.
SameRuns(u, v) ==
  u.run = v.run /\ u.begun = v.begun /\ u.audio = v.audio /\ u.stopped = v.stopped

LEMMA MarkStartedAt ==
  ASSUME NEW v, v \in Views, v.running
  PROVE  /\ Coherent(MarkStarted(v)) /\ MarkStarted(v).running
         /\ SameRuns(MarkStarted(v), v)
<1> DEFINE u == MarkStarted(v)
<1>1. u \in Views
  BY DEF MarkStarted, Views
<1>2. u.lifecycle = "running" /\ ~u.restarting /\ u.running /\ "restart" \notin u.asked
  BY DEF MarkStarted, Views
<1>3. SameRuns(u, v)
  BY DEF MarkStarted, Views, SameRuns
<1> QED BY <1>1, <1>2, <1>3 DEF Coherent, Capturing

\* Both ways to halt.
LEMMA HaltsAt ==
  ASSUME NEW v, v \in Views, NEW u, u \in {MarkStartFailed(v), MarkStopped(v)}
  PROVE  Coherent(u) /\ ~u.running /\ SameRuns(u, v)
<1> DEFINE f == MarkStartFailed(v)
           s == MarkStopped(v)
<1>1. /\ f \in Views /\ SameRuns(f, v)
      /\ f.lifecycle = "error" /\ ~f.restarting /\ ~f.running /\ "restart" \notin f.asked
  BY DEF MarkStartFailed, Views, SameRuns
<1>2. /\ s \in Views /\ SameRuns(s, v)
      /\ s.lifecycle = "stopped" /\ ~s.restarting /\ ~s.running /\ "restart" \notin s.asked
  BY DEF MarkStopped, Views, SameRuns
<1>3. Coherent(f) /\ Coherent(s)
  BY <1>1, <1>2 DEF Coherent, Capturing
<1> QED BY <1>1, <1>2, <1>3

\* A halted view that nothing is mounted in, after the view v.
Rests(u, v) ==
  /\ Coherent(u) /\ ~u.running /\ u.run = 0 /\ u.begun = v.begun
  /\ u.audio \in {v.audio, 0}

LEMMA RestedAt ==
  ASSUME NEW v, Coherent(v), ~v.running, NEW failed \in BOOLEAN
  PROVE  LET u == Rested(v, failed)
         IN  /\ Coherent(u) /\ ~u.running /\ u.run = v.run /\ u.begun = v.begun
             /\ u.stopped = v.stopped /\ u.audio \in {v.audio, 0}
<1> DEFINE w == [v EXCEPT !.audio = 0]
           u == Rested(v, failed)
<1>1. /\ w \in Views /\ w.lifecycle = v.lifecycle /\ w.running = v.running /\ w.asked = v.asked
      /\ w.restarting = v.restarting
      /\ w.run = v.run /\ w.begun = v.begun /\ w.stopped = v.stopped /\ w.audio = 0
  BY LiveCaptureAssumption DEF Coherent, Views
<1>2. Coherent(w) /\ ~w.running
  BY <1>1 DEF Coherent
<1>3. u = w \/ u = MarkStopped(w)
  BY DEF Rested
<1>4. u = MarkStopped(w) => Coherent(u) /\ ~u.running /\ SameRuns(u, w)
  BY <1>1, HaltsAt
<1> QED BY <1>1, <1>2, <1>3, <1>4 DEF SameRuns

LEMMA RestingAt ==
  ASSUME NEW v, Coherent(v), ~v.running, v.run = 0
  PROVE  Rests(Resting(v), v) /\ Resting(v).stopped = v.stopped
<1> DEFINE u == [v EXCEPT !.inFlight = 0]
           failed == v.lifecycle = "error"
<1>1. /\ u \in Views /\ u.lifecycle = v.lifecycle /\ u.running = v.running /\ u.asked = v.asked
      /\ u.restarting = v.restarting /\ u.rests = v.rests
      /\ u.run = v.run /\ u.begun = v.begun /\ u.stopped = v.stopped /\ u.audio = v.audio
  BY LiveCaptureAssumption DEF Coherent, Views
<1>2. Coherent(u) /\ ~u.running
  BY <1>1 DEF Coherent
<1>3. CASE v.inFlight = 0
  <2>1. Resting(v) = Rested(u, failed)
    BY <1>3 DEF Resting
  <2>2. failed \in BOOLEAN
    OBVIOUS
  <2>3. /\ Coherent(Rested(u, failed)) /\ ~Rested(u, failed).running
        /\ Rested(u, failed).run = u.run /\ Rested(u, failed).begun = u.begun
        /\ Rested(u, failed).stopped = u.stopped /\ Rested(u, failed).audio \in {u.audio, 0}
    BY <1>2, <2>2, RestedAt
  <2> QED BY <1>1, <2>1, <2>3 DEF Rests
<1>4. CASE v.inFlight # 0
  <2> DEFINE mark == IF failed THEN "keep" ELSE "mark"
             w == [u EXCEPT !.rests[v.inFlight] = mark]
  <2>1. Resting(v) = w
    BY <1>4 DEF Resting
  <2>2. v.rests \in [Runs -> {"no", "mark", "keep"}] /\ mark \in {"no", "mark", "keep"}
    BY DEF Coherent, Views
  <2>3. [v.rests EXCEPT ![v.inFlight] = mark] \in [Runs -> {"no", "mark", "keep"}]
    BY <2>2
  <2>4. w = [u EXCEPT !.rests = [v.rests EXCEPT ![v.inFlight] = mark]]
    BY <1>1
  <2>5. /\ w \in Views /\ w.lifecycle = u.lifecycle /\ w.running = u.running /\ w.asked = u.asked
        /\ w.restarting = u.restarting
        /\ w.run = u.run /\ w.begun = u.begun /\ w.stopped = u.stopped /\ w.audio = u.audio
    BY <1>1, <2>3, <2>4 DEF Views
  <2> QED BY <1>1, <1>2, <2>1, <2>5 DEF Rests, Coherent
<1> QED BY <1>3, <1>4

LEMMA UnmountedAt ==
  ASSUME NEW v, Coherent(v)
  PROVE  LET u == Unmounted(v)
         IN  /\ Coherent(u) /\ u.running = v.running /\ u.run = 0 /\ u.begun = v.begun
             /\ u.audio = v.audio /\ u.lifecycle = v.lifecycle
             /\ u.stopped = v.stopped \/ (u.stopped = v.audio /\ v.audio # 0)
<1> DEFINE u == Unmounted(v)
<1>1. 0 \in 0 .. MaxRuns /\ v.audio \in 0 .. MaxRuns
  BY LiveCaptureAssumption DEF Coherent, Views
<1>2. CASE ToStop(v)
  <2>1. u = [v EXCEPT !.run = 0, !.stopped = v.audio, !.inFlight = v.audio] /\ v.audio # 0
    BY <1>2 DEF Unmounted, ToStop
  <2> DEFINE w == [v EXCEPT !.run = 0, !.stopped = v.audio, !.inFlight = v.audio]
  <2>2. v \in Views
    BY DEF Coherent
  <2>3. w \in Views
    BY <1>1, <2>2 DEF Views
  <2>4. /\ w.lifecycle = v.lifecycle /\ w.running = v.running /\ w.asked = v.asked
        /\ w.restarting = v.restarting
        /\ w.run = 0 /\ w.begun = v.begun /\ w.audio = v.audio /\ w.stopped = v.audio
    BY <2>2 DEF Views
  <2>5. u = w /\ Coherent(w)
    BY <2>1, <2>3, <2>4 DEF Coherent
  <2> QED BY <2>1, <2>4, <2>5
<1>3. CASE ~ToStop(v)
  <2>1. u = [v EXCEPT !.run = 0]
    BY <1>3 DEF Unmounted
  <2>2. /\ u \in Views /\ u.lifecycle = v.lifecycle /\ u.running = v.running /\ u.asked = v.asked
        /\ u.restarting = v.restarting
        /\ u.run = 0 /\ u.begun = v.begun /\ u.audio = v.audio /\ u.stopped = v.stopped
    BY <1>1, <2>1 DEF Coherent, Views
  <2> QED BY <2>2 DEF Coherent
<1> QED BY <1>2, <1>3

\* A view in which the next run is mounted, after the view v.
Mounts(u, v) ==
  /\ Coherent(u) /\ u.running /\ u.run = v.begun + 1 /\ u.begun = v.begun + 1
  /\ u.audio = v.audio

LEMMA MountedAt ==
  ASSUME NEW v, Coherent(v), v.running, v.begun < MaxRuns
  PROVE  Mounts(Mounted(v), v) /\ Mounted(v).stopped = v.stopped
<1> DEFINE k == v.begun + 1
           f == [v.awaits EXCEPT ![k] = v.inFlight]
           u == [v EXCEPT !.run = k, !.begun = k, !.awaits = f, !.inFlight = 0]
<1>1. /\ k \in 0 .. MaxRuns /\ 0 \in 0 .. MaxRuns
      /\ v.awaits \in [Runs -> 0 .. MaxRuns] /\ v.inFlight \in 0 .. MaxRuns
  BY LiveCaptureAssumption DEF Coherent, Views
<1>2. f \in [Runs -> 0 .. MaxRuns]
  BY <1>1
<1>3. Mounted(v) = u
  BY DEF Mounted, Coherent, Views
<1> HIDE DEF k, f
<1>4. /\ u \in Views /\ u.lifecycle = v.lifecycle /\ u.running = v.running /\ u.asked = v.asked
      /\ u.restarting = v.restarting
      /\ u.run = k /\ u.begun = k /\ u.audio = v.audio /\ u.stopped = v.stopped
  BY <1>1, <1>2 DEF Coherent, Views
<1> QED BY <1>3, <1>4 DEF Mounts, Coherent, k

\* The session that is released, if any, is the one that is held.
Releases(u, v) == u.stopped = v.stopped \/ (u.stopped = v.audio /\ v.audio # 0)

LEMMA RecoverableAt ==
  ASSUME NEW v, Coherent(v), NEW b \in BOOLEAN
  PROVE  LET u == [v EXCEPT !.recoverable = b]
         IN  /\ Coherent(u) /\ SameRuns(u, v) /\ u.running = v.running
<1> DEFINE u == [v EXCEPT !.recoverable = b]
<1>1. /\ u \in Views /\ u.lifecycle = v.lifecycle /\ u.running = v.running /\ u.asked = v.asked
      /\ u.restarting = v.restarting /\ SameRuns(u, v)
  BY DEF Coherent, Views, SameRuns
<1> QED BY <1>1 DEF Coherent

\* The effect of a change of `running`.
LEMMA CommittedRests ==
  ASSUME NEW v, Coherent(v), ~v.running
  PROVE  Rests(Committed(v), v) /\ Releases(Committed(v), v)
<1>1. CASE v.run = 0
  <2>1. Committed(v) = v
    BY <1>1 DEF Committed
  <2> QED BY <1>1, <2>1 DEF Rests, Releases
<1>2. CASE v.run # 0
  <2> DEFINE w == [v EXCEPT !.recoverable = TRUE]
             u == Unmounted(w)
  <2>1. Committed(v) = Resting(u)
    BY <1>2 DEF Committed
  <2>2. Coherent(w) /\ SameRuns(w, v) /\ ~w.running
    BY RecoverableAt
  <2>3. /\ Coherent(u) /\ ~u.running /\ u.run = 0 /\ u.begun = w.begun /\ u.audio = w.audio
        /\ u.stopped = w.stopped \/ (u.stopped = w.audio /\ w.audio # 0)
    BY <2>2, UnmountedAt
  <2>4. Rests(Resting(u), u) /\ Resting(u).stopped = u.stopped
    BY <2>3, RestingAt
  <2> QED BY <2>1, <2>2, <2>3, <2>4 DEF SameRuns, Rests, Releases
<1> QED BY <1>1, <1>2

LEMMA CommittedMounts ==
  ASSUME NEW v, Coherent(v), v.running, v.run = 0, v.begun < MaxRuns
  PROVE  Mounts(Committed(v), v) /\ Releases(Committed(v), v)
<1> DEFINE w == [v EXCEPT !.recoverable = TRUE]
<1>1. Committed(v) = Mounted(w)
  BY DEF Committed
<1>2. Coherent(w) /\ SameRuns(w, v) /\ w.running
  BY RecoverableAt
<1>3. Mounts(Mounted(w), w) /\ Mounted(w).stopped = w.stopped
  BY <1>2, MountedAt DEF SameRuns
<1> QED BY <1>1, <1>2, <1>3 DEF SameRuns, Mounts, Releases

\* The effect of a change of the other inputs.
LEMMA RerunAt ==
  ASSUME NEW v, Coherent(v), v.running = (v.run # 0), CanRerun(v)
  PROVE  Releases(Rerun(v), v) /\ (Rests(Rerun(v), v) \/ Mounts(Rerun(v), v))
<1>1. CASE v.running
  <2> DEFINE u == Unmounted(v)
  <2>1. Rerun(v) = Mounted(u)
    BY <1>1 DEF Rerun
  <2>2. /\ Coherent(u) /\ u.running /\ u.run = 0 /\ u.begun = v.begun /\ u.audio = v.audio
        /\ u.stopped = v.stopped \/ (u.stopped = v.audio /\ v.audio # 0)
    BY <1>1, UnmountedAt
  <2>3. Mounts(Mounted(u), u) /\ Mounted(u).stopped = u.stopped
    BY <1>1, <2>2, MountedAt DEF CanRerun
  <2> QED BY <2>1, <2>2, <2>3 DEF Mounts, Releases
<1>2. CASE ~v.running
  <2>1. Rerun(v) = Resting(v) /\ v.run = 0
    BY <1>2 DEF Rerun
  <2> QED BY <1>2, <2>1, RestingAt DEF Releases
<1> QED BY <1>1, <1>2

-----------------------------------------------------------------------------
(* How far the runs are.                                                   *)

Stages == OnItsWay \cup {"unborn", "live", "over"}

\* Only the run that began last can be mounted or have the start of a session
\* to itself; the runs before it have come to their end by then.
StageInv ==
  /\ Coherent(view)
  /\ stage \in [Runs -> Stages]
  /\ view.running = (view.run # 0)
  /\ view.run \in {0, view.begun}
  /\ view.run # 0 => stage[view.run] # "over"
  /\ \A k \in Runs : stage[k] = "unborn" <=> k > view.begun
  /\ \A k \in Runs : stage[k] = "live" => k = view.run
  /\ \A j, k \in Runs : j < k /\ stage[k] \in {"calling", "live"} => stage[j] \notin OnItsWay

\* A step after which nothing is mounted, or the next run is.
Leads(v) == Releases(v, view) /\ (Rests(v, view) \/ Mounts(v, view))

LEMMA LeadsFrom ==
  ASSUME NEW u, NEW w, SameRuns(w, view), Releases(u, w), Rests(u, w) \/ Mounts(u, w)
  PROVE  Leads(u)
BY DEF Leads, SameRuns, Releases, Rests, Mounts

\* At most a stop is posted.
PostsStop == posted' = posted \/ \E k \in Runs : posted' = Append(posted, <<"stop", k>>)

\* What such a step leaves of the runs and of what they have posted.
Halted ==
  /\ \A k \in Runs : /\ stage'[k] = "calling" => stage[k] = "calling"
                     /\ stage[k] = "calling" => stage'[k] \in {"calling", "over"}
                     /\ stage[k] \in {"live", "over"} => stage'[k] = "over"
  /\ view'.run \in RunOrNone
  /\ view'.run # 0 => stage'[view'.run] \in {"waiting", "preparing"} /\ stage[view'.run] = "unborn"
  /\ PostsStop
  /\ view'.audio \in {view.audio, 0}
  /\ view'.stopped \in {view.stopped, view.audio}

\* The inits that a step moves: one that waited goes on, or one ends.
Reaches(stages) ==
  /\ stages \in [Runs -> Stages]
  /\ \A k \in Runs : \/ stages[k] = stage[k]
                     \/ stage[k] = "waiting" /\ stages[k] \in {"preparing", "over"}
                     \/ stage[k] \in {"preparing", "calling"} /\ stages[k] = "over"

LEMMA ReachedOver ==
  ASSUME StageInv, NEW k \in Runs, stage[k] \in {"preparing", "calling"}
  PROVE  Reaches(Reached(k, "over"))
BY DEF StageInv, Reaches, Reached, Stages

LEMMA BecomeLeads ==
  ASSUME StageInv, NEW v, NEW stages, Leads(v), Reaches(stages), Become(v, stages)
  PROVE  /\ StageInv' /\ Halted
         /\ \A k \in Runs : stage'[k] = "calling" <=> stages[k] = "calling"
<1>1. /\ view' = v /\ Coherent(v) /\ v \in Views /\ v.running = (v.run # 0) /\ view \in Views
      /\ \/ v.run = 0 /\ v.begun = view.begun
         \/ v.run = view.begun + 1 /\ v.begun = v.run
      /\ v.audio \in {view.audio, 0}
  BY DEF Become, Leads, Rests, Mounts, StageInv, Coherent, Views
<1>2. /\ v.run \in 0 .. MaxRuns /\ v.begun \in 0 .. MaxRuns /\ view.begun \in 0 .. MaxRuns
      /\ view.audio \in 0 .. MaxRuns /\ MaxRuns \in Nat
  BY <1>1, LiveCaptureAssumption DEF Views
<1>3. \A k \in Runs :
        stage'[k] = IF k = v.run /\ stage[k] = "unborn"
                    THEN IF v.awaits[k] = 0 THEN "preparing" ELSE "waiting"
                    ELSE IF stages[k] = "live" /\ k # v.run THEN "over" ELSE stages[k]
  BY DEF Become
<1>4. stage' \in [Runs -> Stages]
  BY DEF Become, Reaches, Stages, OnItsWay
<1>5. v.run # 0 => v.run \in Runs /\ stage[v.run] = "unborn"
  BY <1>1, <1>2 DEF StageInv, Runs
<1>6. \A k \in Runs : k # v.run =>
        /\ stage[k] \notin {"waiting", "preparing", "calling", "live"} => stage'[k] = stage[k]
        /\ stage[k] = "waiting" => stage'[k] \in {"waiting", "preparing", "over"}
        /\ stage[k] = "preparing" => stage'[k] \in {"preparing", "over"}
        /\ stage[k] = "calling" => stage'[k] \in {"calling", "over"} /\ stage'[k] = stages[k]
        /\ stage[k] = "live" => stage'[k] = "over"
  BY <1>3 DEF Reaches
<1>7. \A k \in Runs : k = v.run => stage'[k] \in {"waiting", "preparing"}
  BY <1>3, <1>5 DEF Runs
<1>8. \A k \in Runs : stage'[k] = "unborn" <=> k > v.begun
  BY <1>1, <1>2, <1>5, <1>6, <1>7 DEF StageInv, Runs, Stages, OnItsWay
<1>9. \A k \in Runs : stage'[k] # "live" /\ (stage'[k] = "calling" => stage[k] = "calling")
  BY <1>6, <1>7 DEF StageInv, Stages, OnItsWay
<1>10. ASSUME NEW j \in Runs, NEW k \in Runs, j < k, stage'[k] = "calling" PROVE stage'[j] \notin OnItsWay
  <2>1. stage[k] = "calling" /\ k # v.run
    BY <1>7, <1>9, <1>10
  <2>2. k <= view.begun
    BY <1>2, <2>1 DEF StageInv, Runs
  <2>3. j # v.run
    BY <1>1, <1>2, <1>10, <2>2 DEF Runs
  <2>4. stage[j] \notin OnItsWay
    BY <1>10, <2>1 DEF StageInv
  <2> QED BY <1>6, <2>3, <2>4 DEF OnItsWay, StageInv, Stages
<1>11. StageInv'
  BY <1>1, <1>4, <1>5, <1>7, <1>8, <1>9, <1>10 DEF StageInv
<1>12. PostsStop
  <2>1. v.stopped # view.stopped => v.stopped \in Runs
    BY <1>2 DEF Leads, Releases, Runs
  <2> QED BY <2>1 DEF Become, PostsStop
<1>13. v.stopped \in {view.stopped, view.audio}
  BY DEF Leads, Releases
<1>14. Halted
  <2>1. \A k \in Runs : stage[k] \in {"calling", "live", "over"} => k # v.run
    BY <1>5 DEF Runs
  <2>2. \A k \in Runs : /\ stage[k] = "calling" => stage'[k] \in {"calling", "over"}
                        /\ stage[k] \in {"live", "over"} => stage'[k] = "over"
    BY <1>6, <2>1
  <2>3. v.run # 0 => stage'[v.run] \in {"waiting", "preparing"} /\ stage[v.run] = "unborn"
    BY <1>5, <1>7
  <2>4. \A k \in Runs : /\ stage'[k] = "calling" => stage[k] = "calling"
                        /\ stage[k] = "calling" => stage'[k] \in {"calling", "over"}
                        /\ stage[k] \in {"live", "over"} => stage'[k] = "over"
    BY <1>9, <2>2
  <2>5. view'.run = v.run /\ view'.audio = v.audio /\ view'.stopped = v.stopped /\ v.run \in RunOrNone
    BY <1>1, <1>2 DEF RunOrNone
  <2>6. view'.run # 0 => stage'[view'.run] \in {"waiting", "preparing"} /\ stage[view'.run] = "unborn"
    BY <2>3, <2>5
  <2>7. view'.run \in RunOrNone /\ view'.audio \in {view.audio, 0} /\ view'.stopped \in {view.stopped, view.audio}
    BY <1>1, <1>13, <2>5
  <2> QED BY <1>12, <2>4, <2>6, <2>7 DEF Halted
<1>15. \A k \in Runs : stage'[k] = "calling" <=> stages[k] = "calling"
  BY <1>3, <1>5, <1>7 DEF Reaches
<1> QED BY <1>11, <1>14, <1>15

\* The mounted run stays.
LEMMA BecomeStays ==
  ASSUME StageInv, NEW v, Coherent(v), NEW stages, Reaches(stages), Become(v, stages),
         v.running = view.running, v.run = view.run, v.begun = view.begun,
         v.stopped = view.stopped,
         \A k \in Runs : stages[k] = "over" => stage[k] = "over" \/ k # view.run
  PROVE  /\ StageInv' /\ UNCHANGED posted /\ view' = v
         /\ \A k \in Runs : stage'[k] = stages[k]
<1>1. view' = v /\ UNCHANGED posted
  BY DEF Become
<1>2. \A k \in Runs : stage'[k] = stages[k]
  <2>1. \A k \in Runs : k = view.run => stage[k] # "unborn"
    BY DEF StageInv, Coherent, Views, Runs
  <2>2. \A k \in Runs : stages[k] = "live" => k = view.run
    BY DEF StageInv, Reaches
  <2> QED BY <2>1, <2>2 DEF Become
<1>3. stage' \in [Runs -> Stages]
  BY <1>2 DEF Become, Reaches
<1>4. \A k \in Runs : /\ stage'[k] \in {"unborn", "live"} <=> stage[k] \in {"unborn", "live"}
                      /\ stage'[k] = "live" <=> stage[k] = "live"
                      /\ stage'[k] = "calling" => stage[k] = "calling"
                      /\ stage'[k] \in OnItsWay => stage[k] \in OnItsWay
  BY <1>2 DEF Reaches, OnItsWay
<1>5. view'.run # 0 => stage'[view'.run] # "over"
  BY <1>1, <1>2 DEF StageInv, Coherent, Views, Runs
<1>6. StageInv'
  <2>1. /\ view'.running = (view'.run # 0) /\ view'.run \in {0, view'.begun} /\ Coherent(view')
        /\ view'.run = view.run /\ view'.begun = view.begun
    BY <1>1 DEF StageInv
  <2>2. \A k \in Runs : stage'[k] = "unborn" <=> k > view'.begun
    BY <1>4, <2>1 DEF StageInv
  <2>3. \A k \in Runs : stage'[k] = "live" => k = view'.run
    BY <1>4, <2>1 DEF StageInv
  <2>4. \A j, k \in Runs : j < k /\ stage'[k] \in {"calling", "live"} => stage'[j] \notin OnItsWay
    BY <1>4 DEF StageInv
  <2> QED BY <1>3, <1>5, <2>1, <2>2, <2>3, <2>4 DEF StageInv
<1> QED BY <1>1, <1>2, <1>6

\* One run goes on by itself.
LEMMA ReachedStage ==
  ASSUME StageInv, UNCHANGED view, NEW k \in Runs, stage[k] \in OnItsWay,
         NEW s \in OnItsWay \cup {"over"}, stage' = Reached(k, s),
         s = "over" => view.run # k,
         s = "calling" => \A j \in 1 .. k - 1 : stage[j] \notin OnItsWay
  PROVE  StageInv' /\ stage'[k] = s /\ \A j \in Runs : j # k => stage'[j] = stage[j]
<1>1. stage'[k] = s /\ \A j \in Runs : j # k => stage'[j] = stage[j]
  BY DEF Reached, StageInv
<1>2. stage' \in [Runs -> Stages]
  BY DEF Reached, StageInv, Stages
<1>3. \A j \in Runs : stage'[j] = "unborn" <=> j > view.begun
  BY <1>1 DEF StageInv, OnItsWay
<1>4. \A j \in Runs : stage'[j] = "live" => j = view.run
  BY <1>1 DEF StageInv, OnItsWay
<1>5. view.run # 0 => stage'[view.run] # "over"
  BY <1>1 DEF StageInv, Coherent, Views, Runs, OnItsWay
<1>6. ASSUME NEW i \in Runs, NEW j \in Runs, i < j, stage'[j] \in {"calling", "live"}
      PROVE  stage'[i] \notin OnItsWay
  <2>1. CASE j = k
    BY <1>1, <1>6, <2>1 DEF Runs, OnItsWay
  <2>2. CASE j # k
    BY <1>1, <1>6, <2>2 DEF StageInv
  <2> QED BY <2>1, <2>2
<1>7. StageInv'
  BY <1>2, <1>3, <1>4, <1>5, <1>6 DEF StageInv
<1> QED BY <1>1, <1>7

-----------------------------------------------------------------------------
(* The steps that halt a run or begin one.                                 *)

LEMMA TurnAt ==
  ASSUME NEW v, v \in Views, NEW r \in BOOLEAN,
         NEW l \in {"stopped", "starting", "running", "stopping", "error"},
         NEW a \in SUBSET {"start", "stop", "restart"},
         r <=> l \in Capturing, "restart" \in a <=> v.restarting
  PROVE  LET u == [v EXCEPT !.lifecycle = l, !.running = r, !.asked = a]
         IN  Coherent(u) /\ SameRuns(u, v) /\ u.running = r
<1> DEFINE u == [v EXCEPT !.lifecycle = l, !.running = r, !.asked = a]
<1>1. /\ u \in Views /\ u.lifecycle = l /\ u.running = r /\ u.asked = a
      /\ u.restarting = v.restarting /\ SameRuns(u, v)
  BY DEF Views, SameRuns
<1> QED BY <1>1 DEF Coherent

\* Whatever halts the transport halts the run.
LEMMA HaltsRun ==
  ASSUME StageInv, NEW w, Coherent(w), ~w.running, SameRuns(w, view), NEW stages, Reaches(stages),
         Become(Committed(w), stages)
  PROVE  /\ StageInv' /\ Halted
         /\ \A k \in Runs : stage'[k] = "calling" <=> stages[k] = "calling"
<1>1. Leads(Committed(w))
  BY CommittedRests, LeadsFrom
<1> QED BY <1>1, BecomeLeads

\* The calls of the runs are the same as before.
CallsKept == \A k \in Runs : stage'[k] = "calling" <=> stage[k] = "calling"

LEMMA SameReaches == ASSUME StageInv PROVE Reaches(stage)
BY DEF StageInv, Reaches

LEMMA StepStart == ASSUME StageInv, Start PROVE StageInv' /\ Halted /\ CallsKept
<1> DEFINE a == view.asked \cup {"start"}
           w == [view EXCEPT !.lifecycle = "starting", !.running = TRUE, !.asked = a]
<1>1. /\ view.lifecycle \in {"stopped", "error"} /\ ~view.restarting /\ view.begun < MaxRuns
      /\ Become(Committed([view EXCEPT !.lifecycle = "starting", !.running = TRUE,
                                       !.asked = @ \cup {"start"}]), stage)
  BY DEF Start
<1>2. view \in Views /\ Coherent(view) /\ a \in SUBSET {"start", "stop", "restart"}
      /\ ("restart" \in a <=> view.restarting) /\ view.run = 0
  BY <1>1 DEF StageInv, Coherent, Views, Capturing
<1>3. w = [view EXCEPT !.lifecycle = "starting", !.running = TRUE, !.asked = @ \cup {"start"}]
  BY <1>2 DEF Views
<1> HIDE DEF a
<1>4. Coherent(w) /\ SameRuns(w, view) /\ w.running = TRUE
  <2>1. TRUE <=> "starting" \in Capturing
    BY DEF Capturing
  <2> QED BY <1>2, <2>1, TurnAt
<1> HIDE DEF w
<1>5. Become(Committed(w), stage)
  BY <1>1, <1>3
<1>6. Mounts(Committed(w), w) /\ Releases(Committed(w), w)
  BY <1>1, <1>2, <1>4, CommittedMounts DEF SameRuns
<1>7. Leads(Committed(w))
  BY <1>4, <1>6, LeadsFrom
<1> QED BY <1>5, <1>7, BecomeLeads, SameReaches DEF CallsKept

LEMMA StepStop == ASSUME StageInv, Stop PROVE StageInv' /\ Halted /\ CallsKept
<1>1. view \in Views /\ Coherent(view)
  BY DEF StageInv, Coherent
<1>2. ASSUME NEW w, Coherent(w), ~w.running, SameRuns(w, view), Become(Committed(w), stage)
      PROVE  StageInv' /\ Halted /\ CallsKept
  BY <1>2, HaltsRun, SameReaches DEF CallsKept
<1>3. CASE Become(Committed(MarkStopped(view)), stage)
  BY <1>1, <1>2, <1>3, HaltsAt
<1>4. ASSUME NEW a \in SUBSET {"start", "stop", "restart"}, "restart" \in a <=> view.restarting,
             Become(Committed([view EXCEPT !.lifecycle = "stopping", !.running = FALSE, !.asked = a]), stage)
      PROVE  StageInv' /\ Halted /\ CallsKept
  <2> DEFINE w == [view EXCEPT !.lifecycle = "stopping", !.running = FALSE, !.asked = a]
  <2>1. Coherent(w) /\ SameRuns(w, view) /\ ~w.running
    BY <1>1, <1>4, TurnAt DEF Capturing
  <2> HIDE DEF w
  <2>2. Become(Committed(w), stage)
    BY <1>4 DEF w
  <2> QED BY <1>2, <2>1, <2>2
<1>5. /\ view.asked \cup {"stop"} \in SUBSET {"start", "stop", "restart"}
      /\ view.asked \ {"start"} \in SUBSET {"start", "stop", "restart"}
      /\ "restart" \in view.asked \cup {"stop"} <=> view.restarting
      /\ "restart" \in view.asked \ {"start"} <=> view.restarting
  BY <1>1 DEF Coherent, Views
<1>6. /\ [view EXCEPT !.lifecycle = "stopping", !.running = FALSE, !.asked = @ \cup {"stop"}]
           = [view EXCEPT !.lifecycle = "stopping", !.running = FALSE, !.asked = view.asked \cup {"stop"}]
      /\ [view EXCEPT !.lifecycle = "stopping", !.running = FALSE, !.asked = @ \ {"start"}]
           = [view EXCEPT !.lifecycle = "stopping", !.running = FALSE, !.asked = view.asked \ {"start"}]
  BY <1>1 DEF Views
<1> QED BY <1>3, <1>4, <1>5, <1>6 DEF Stop

LEMMA StepSwitch == ASSUME StageInv, SwitchToFile PROVE StageInv' /\ Halted /\ CallsKept
<1>1. Become(Committed(MarkStopped(view)), stage) /\ view \in Views
  BY DEF SwitchToFile, StageInv, Coherent
<1> QED BY <1>1, HaltsAt, HaltsRun, SameReaches DEF CallsKept

\* Whatever makes the effect run again ends a run.
LEMMA RerunsRun ==
  ASSUME StageInv, NEW w, Coherent(w), w.running = view.running, SameRuns(w, view),
         CanRerun(view), Become(Rerun(w), stage)
  PROVE  StageInv' /\ Halted /\ CallsKept
<1>1. w.running = (w.run # 0) /\ CanRerun(w)
  BY DEF SameRuns, CanRerun, StageInv
<1>2. Leads(Rerun(w))
  BY <1>1, RerunAt, LeadsFrom
<1> QED BY <1>2, BecomeLeads, SameReaches DEF CallsKept

LEMMA StepSelect ==
  ASSUME StageInv, SelectDevice \/ ChangeFormat PROVE StageInv' /\ Halted /\ CallsKept
<1>1. view \in Views /\ Coherent(view)
  BY DEF StageInv, Coherent
<1>2. CASE CanRerun(view) /\ Become(Rerun(view), stage)
  BY <1>1, <1>2, RerunsRun DEF SameRuns
<1>3. CASE CanRerun(view) /\ Become(Rerun([view EXCEPT !.recoverable = TRUE]), stage)
  BY <1>1, <1>3, RecoverableAt, RerunsRun
<1>4. CASE CanRerun(view) /\ Become(Rerun([view EXCEPT !.restarting = TRUE, !.asked = @ \cup {"restart"},
                                                       !.recoverable = TRUE]), stage)
  <2> DEFINE w == [view EXCEPT !.restarting = TRUE, !.asked = @ \cup {"restart"}, !.recoverable = TRUE]
  <2>1. /\ w \in Views /\ w.lifecycle = view.lifecycle /\ w.running = view.running /\ w.restarting
        /\ "restart" \in w.asked /\ SameRuns(w, view)
    BY <1>1 DEF Views, SameRuns
  <2>2. Coherent(w)
    BY <1>1, <2>1 DEF Coherent
  <2> HIDE DEF w
  <2>3. Become(Rerun(w), stage)
    BY <1>4 DEF w
  <2> QED BY <1>4, <2>1, <2>2, <2>3, RerunsRun
<1> QED BY <1>2, <1>3, <1>4 DEF SelectDevice, ChangeFormat

LEMMA StepFails ==
  ASSUME StageInv, NEW invalidated \in BOOLEAN, EngineFails(invalidated)
  PROVE  \/ /\ UNCHANGED <<view, stage, posted>>
            /\ view.run = 0 \/ stage[view.run] \notin {"calling", "live"}
         \/ StageInv' /\ Halted /\ CallsKept
<1>1. view \in Views /\ Coherent(view)
  BY DEF StageInv, Coherent
<1>2. CASE CanRerun(view) /\ Become(Rerun([view EXCEPT !.recoverable = FALSE]), stage)
  BY <1>1, <1>2, RecoverableAt, RerunsRun
<1>3. CASE Become(Committed(MarkStartFailed(view)), stage)
  BY <1>1, <1>3, HaltsAt, HaltsRun, SameReaches DEF CallsKept
<1> QED BY <1>2, <1>3 DEF EngineFails

LEMMA StepFailToPrepare ==
  ASSUME StageInv, NEW k \in Runs, FailToPrepare(k) PROVE StageInv' /\ Halted /\ CallsKept
<1>1. /\ view \in Views /\ stage[k] = "preparing"
      /\ Become(Committed(MarkStartFailed(view)), Reached(k, "over"))
  BY DEF FailToPrepare, StageInv, Coherent
<1>2. Reaches(Reached(k, "over"))
  BY <1>1, ReachedOver
<1>3. \A j \in Runs : Reached(k, "over")[j] = "calling" <=> stage[j] = "calling"
  BY <1>1 DEF Reached, StageInv
<1>4. /\ StageInv' /\ Halted
      /\ \A j \in Runs : stage'[j] = "calling" <=> Reached(k, "over")[j] = "calling"
  BY <1>1, <1>2, HaltsAt, HaltsRun
<1> QED BY <1>3, <1>4 DEF CallsKept

-----------------------------------------------------------------------------
(* The commands and the answers on their way.                              *)

Commands == {"start", "stop"} \X Runs
Answers == {"started", "refused", "stopped"} \X Runs

\* A message of a start: its command, or its answer.
IsStart(m) == m[1] \in {"start", "started", "refused"}

NoStart(s) == \A i \in DOMAIN s : ~IsStart(s[i])
AtMostOne(s) == \A i, j \in DOMAIN s : IsStart(s[i]) /\ IsStart(s[j]) => i = j
Within(s, ks) == \A i \in DOMAIN s : IsStart(s[i]) => s[i][2] \in ks
Ends(s, m) == s # <<>> /\ s[Len(s)] = m

LEMMA AppendMessage ==
  ASSUME NEW S, NEW s \in Seq(S), NEW m \in S
  PROVE  LET t == Append(s, m)
         IN  /\ t \in Seq(S) /\ Ends(t, m)
             /\ NoStart(s) /\ ~IsStart(m) => NoStart(t)
             /\ AtMostOne(s) /\ (NoStart(s) \/ ~IsStart(m)) => AtMostOne(t)
             /\ \A ks : Within(s, ks) /\ (IsStart(m) => m[2] \in ks) => Within(t, ks)
<1> DEFINE t == Append(s, m)
<1>1. /\ t \in Seq(S) /\ Len(s) \in Nat /\ Len(t) = Len(s) + 1
      /\ DOMAIN s = 1 .. Len(s) /\ DOMAIN t = 1 .. Len(s) + 1
      /\ t[Len(s) + 1] = m /\ \A i \in 1 .. Len(s) : t[i] = s[i]
  OBVIOUS
<1>2. Ends(t, m)
  BY <1>1 DEF Ends
<1> HIDE DEF t
<1>3. \A i \in DOMAIN t : (i \in DOMAIN s /\ t[i] = s[i]) \/ (i = Len(s) + 1 /\ t[i] = m)
  BY <1>1
<1>4. NoStart(s) /\ ~IsStart(m) => NoStart(t)
  BY <1>3 DEF NoStart
<1>5. AtMostOne(s) /\ (NoStart(s) \/ ~IsStart(m)) => AtMostOne(t)
  BY <1>3 DEF NoStart, AtMostOne
<1>6. \A ks : Within(s, ks) /\ (IsStart(m) => m[2] \in ks) => Within(t, ks)
  BY <1>3 DEF Within
<1> QED BY <1>1, <1>2, <1>4, <1>5, <1>6 DEF t

LEMMA TailMessages ==
  ASSUME NEW S, NEW s \in Seq(S), s # <<>>
  PROVE  LET t == Tail(s)
         IN  /\ t \in Seq(S) /\ Head(s) \in S
             /\ NoStart(s) => NoStart(t) /\ ~IsStart(Head(s))
             /\ AtMostOne(s) => AtMostOne(t) /\ (IsStart(Head(s)) => NoStart(t))
             /\ \A ks : Within(s, ks) => Within(t, ks) /\ (IsStart(Head(s)) => Head(s)[2] \in ks)
             /\ \A m : Ends(s, m) => Ends(t, m) \/ (t = <<>> /\ Head(s) = m)
             /\ \A m : Ends(s, m) /\ IsStart(m) /\ AtMostOne(s) /\ IsStart(Head(s)) =>
                  t = <<>> /\ Head(s) = m
<1> DEFINE t == Tail(s)
<1>1. /\ t \in Seq(S) /\ Len(s) \in Nat /\ Len(s) > 0 /\ Len(t) = Len(s) - 1
      /\ DOMAIN s = 1 .. Len(s) /\ DOMAIN t = 1 .. Len(s) - 1
      /\ Head(s) = s[1] /\ Head(s) \in S /\ \A i \in 1 .. Len(s) - 1 : t[i] = s[i + 1]
  <2>1. Len(s) \in Nat /\ Len(s) > 0 /\ DOMAIN s = 1 .. Len(s) /\ Head(s) = s[1] /\ s[1] \in S
    OBVIOUS
  <2>2. t \in Seq(S) /\ Len(t) = Len(s) - 1
    OBVIOUS
  <2>3. DOMAIN t = 1 .. Len(s) - 1
    BY <2>2
  <2>4. \A i \in 1 .. Len(s) - 1 : t[i] = s[i + 1]
    OBVIOUS
  <2>5. Head(s) \in S
    BY <2>1
  <2> HIDE DEF t
  <2> QED BY <2>1, <2>2, <2>3, <2>4, <2>5
<1> HIDE DEF t
<1>2. (t = <<>>) <=> Len(s) = 1
  BY <1>1
<1>3. \A i \in DOMAIN t : i + 1 \in DOMAIN s /\ t[i] = s[i + 1] /\ i + 1 # 1
  BY <1>1
<1>4. 1 \in DOMAIN s /\ Head(s) = s[1]
  BY <1>1
<1>5. NoStart(s) => NoStart(t) /\ ~IsStart(Head(s))
  BY <1>3, <1>4 DEF NoStart
<1>6. AtMostOne(s) => AtMostOne(t) /\ (IsStart(Head(s)) => NoStart(t))
  <2>1. \A i, j \in DOMAIN t : i + 1 = j + 1 => i = j
    BY <1>1
  <2>2. AtMostOne(s) => AtMostOne(t)
    BY <1>3, <2>1 DEF AtMostOne
  <2>3. AtMostOne(s) /\ IsStart(Head(s)) => NoStart(t)
    BY <1>3, <1>4 DEF AtMostOne, NoStart
  <2> QED BY <2>2, <2>3
<1>7. \A ks : Within(s, ks) => Within(t, ks) /\ (IsStart(Head(s)) => Head(s)[2] \in ks)
  BY <1>3, <1>4 DEF Within
<1>8. ASSUME NEW m, Ends(s, m) PROVE Ends(t, m) \/ (t = <<>> /\ Head(s) = m)
  <2>1. CASE Len(s) = 1
    BY <1>1, <1>2, <1>8, <2>1 DEF Ends
  <2>2. CASE Len(s) # 1
    <3>1. Len(s) - 1 \in 1 .. Len(s) - 1 /\ Len(s) - 1 + 1 = Len(s) /\ t # <<>>
      BY <1>1, <1>2, <2>2
    <3> QED BY <1>1, <1>8, <3>1 DEF Ends
  <2> QED BY <2>1, <2>2
<1>9. ASSUME NEW m, Ends(s, m), IsStart(m), AtMostOne(s), IsStart(Head(s)) PROVE t = <<>> /\ Head(s) = m
  <2>1. Len(s) \in DOMAIN s /\ IsStart(s[Len(s)])
    BY <1>1, <1>9 DEF Ends
  <2>2. Len(s) = 1
    BY <1>4, <1>9, <2>1 DEF AtMostOne
  <2> QED BY <1>1, <1>2, <1>9, <2>2 DEF Ends
<1> QED BY <1>1, <1>5, <1>6, <1>7, <1>8, <1>9 DEF t

LEMMA NoStartIsWithin ==
  ASSUME NEW s PROVE NoStart(s) => AtMostOne(s) /\ \A ks : Within(s, ks)
BY DEF NoStart, AtMostOne, Within

LEMMA WithinNone == ASSUME NEW s, Within(s, {}) PROVE NoStart(s)
BY DEF NoStart, Within

\* The runs whose audio_start has been posted and whose answer has not been handled.
Calling == {k \in Runs : stage[k] = "calling"}

\* One start at a time is on its way, of a run that waits for it.
MessageInv ==
  /\ posted \in Seq(Commands) /\ replies \in Seq(Answers) /\ source \in RunOrNone
  /\ Within(posted, Calling) /\ AtMostOne(posted)
  /\ Within(replies, Calling) /\ AtMostOne(replies)
  /\ NoStart(posted) \/ NoStart(replies)

\* Nothing follows the start of the mounted run: what it is answered will be true of the
\* native session when the page hears of it, and from then on the session is the run's.
MountedInv ==
  /\ view.run # 0 /\ stage[view.run] = "calling" =>
       \/ Ends(posted, <<"start", view.run>>)
       \/ posted = <<>> /\ Ends(replies, <<"refused", view.run>>)
       \/ posted = <<>> /\ Ends(replies, <<"started", view.run>>) /\ source = view.run
  /\ view.run # 0 /\ stage[view.run] = "live" =>
       /\ posted = <<>> /\ replies = <<>>
       /\ source = view.run /\ view.audio = view.run /\ view.stopped # view.run

\* What is held, or was stopped, or captures, was started by then.
HeldInv ==
  /\ view.audio # 0 => stage[view.audio] \in {"live", "over"}
  /\ view.stopped # 0 => stage[view.stopped] \in {"live", "over"}
  /\ source # 0 => stage[source] \in {"calling", "live", "over"}

WireInv == MessageInv /\ MountedInv /\ HeldInv

LEMMA CallsAlone ==
  ASSUME StageInv, NEW k \in Runs, stage[k] = "calling"
  PROVE  /\ Calling = {k}
         /\ view.run # 0 /\ stage[view.run] \in {"calling", "live"} => view.run = k
<1>1. ASSUME NEW j \in Runs, stage[j] \in {"calling", "live"}, j # k PROVE j < k /\ stage[j] = "live"
  BY <1>1 DEF StageInv, OnItsWay, Runs
<1>2. ASSUME NEW j \in Runs, stage[j] = "live" PROVE k <= j
  BY <1>2, LiveCaptureAssumption DEF StageInv, Runs, Coherent, Views
<1>3. \A j \in Runs : stage[j] \in {"calling", "live"} => j = k
  BY <1>1, <1>2 DEF Runs
<1>4. view.run # 0 => view.run \in Runs
  BY LiveCaptureAssumption DEF StageInv, Coherent, Views, Runs
<1> QED BY <1>3, <1>4 DEF Calling

\* An answer is handled, or none is.
Hears(kinds) ==
  \/ replies' = replies
  \/ replies # <<>> /\ Head(replies)[1] \in kinds /\ replies' = Tail(replies)

LEMMA MessagesKept ==
  ASSUME MessageInv, Calling' = Calling, PostsStop, Hears({"started", "refused", "stopped"}),
         source' \in {source, 0}
  PROVE  MessageInv'
<1>1. /\ posted' \in Seq(Commands) /\ AtMostOne(posted') /\ Within(posted', Calling)
      /\ NoStart(posted) => NoStart(posted')
  <2>1. CASE posted' = posted
    BY <2>1 DEF MessageInv
  <2>2. ASSUME NEW k \in Runs, posted' = Append(posted, <<"stop", k>>)
        PROVE  /\ posted' \in Seq(Commands) /\ AtMostOne(posted') /\ Within(posted', Calling)
               /\ NoStart(posted) => NoStart(posted')
    <3>1. posted \in Seq(Commands) /\ <<"stop", k>> \in Commands
      BY DEF MessageInv, Commands
    <3>2. ~IsStart(<<"stop", k>>)
      BY DEF IsStart
    <3> QED BY <2>2, <3>1, <3>2, AppendMessage DEF MessageInv
  <2> QED BY <2>1, <2>2 DEF PostsStop
<1>2. /\ replies' \in Seq(Answers) /\ AtMostOne(replies') /\ Within(replies', Calling)
      /\ NoStart(replies) => NoStart(replies')
  <2>1. CASE replies' = replies
    BY <2>1 DEF MessageInv
  <2>2. CASE replies # <<>> /\ replies' = Tail(replies)
    <3>1. replies \in Seq(Answers)
      BY DEF MessageInv
    <3> QED BY <2>2, <3>1, TailMessages DEF MessageInv
  <2> QED BY <2>1, <2>2 DEF Hears
<1>3. source' \in RunOrNone
  BY LiveCaptureAssumption DEF MessageInv, RunOrNone
<1> QED BY <1>1, <1>2, <1>3 DEF MessageInv

\* With the answer to a start handled, none is on its way.
LEMMA MessagesSettle ==
  ASSUME MessageInv, replies # <<>>, IsStart(Head(replies)), replies' = Tail(replies),
         PostsStop, UNCHANGED source
  PROVE  /\ MessageInv' /\ NoStart(posted) /\ Head(replies) \in Answers
         /\ Head(replies)[2] \in Runs /\ stage[Head(replies)[2]] = "calling"
<1>1. replies \in Seq(Answers)
  BY DEF MessageInv
<1>2. /\ replies' \in Seq(Answers) /\ NoStart(replies') /\ ~NoStart(replies)
      /\ Head(replies) \in Answers /\ Head(replies)[2] \in Calling
  BY <1>1, TailMessages DEF MessageInv
<1>3. NoStart(posted)
  BY <1>2 DEF MessageInv
<1>4. posted' \in Seq(Commands) /\ NoStart(posted')
  <2>1. CASE posted' = posted
    BY <1>3, <2>1 DEF MessageInv
  <2>2. ASSUME NEW k \in Runs, posted' = Append(posted, <<"stop", k>>)
        PROVE  posted' \in Seq(Commands) /\ NoStart(posted')
    <3>1. posted \in Seq(Commands) /\ <<"stop", k>> \in Commands
      BY DEF MessageInv, Commands
    <3>2. ~IsStart(<<"stop", k>>)
      BY DEF IsStart
    <3> QED BY <1>3, <2>2, <3>1, <3>2, AppendMessage
  <2> QED BY <2>1, <2>2 DEF PostsStop
<1>5. source' \in RunOrNone
  BY DEF MessageInv
<1>6. MessageInv'
  BY <1>2, <1>4, <1>5, NoStartIsWithin DEF MessageInv
<1> QED BY <1>2, <1>3, <1>6 DEF Calling

LEMMA HeldKept ==
  ASSUME StageInv, HeldInv, source \in RunOrNone,
         \A k \in Runs : /\ stage[k] = "calling" => stage'[k] \in {"calling", "live", "over"}
                         /\ stage[k] \in {"live", "over"} => stage'[k] \in {"live", "over"},
         view'.audio \in {view.audio, 0}, view'.stopped \in {view.stopped, view.audio},
         source' \in {source, 0}
  PROVE  HeldInv'
<1>1. \A r \in RunOrNone : r # 0 => r \in Runs
  BY DEF RunOrNone, Runs
<1>2. view.audio \in RunOrNone /\ view.stopped \in RunOrNone
  BY DEF StageInv, Coherent, Views, RunOrNone
<1>3. view'.audio # 0 => stage'[view'.audio] \in {"live", "over"}
  BY <1>1, <1>2 DEF HeldInv
<1>4. view'.stopped # 0 => stage'[view'.stopped] \in {"live", "over"}
  BY <1>1, <1>2 DEF HeldInv
<1>5. source' # 0 => stage'[source'] \in {"calling", "live", "over"}
  BY <1>1 DEF HeldInv
<1> QED BY <1>3, <1>4, <1>5 DEF HeldInv

LEMMA HaltedHeld ==
  ASSUME StageInv, WireInv, Halted, source' \in {source, 0} PROVE MountedInv' /\ HeldInv'
<1>1. HeldInv'
  BY HeldKept DEF WireInv, MessageInv, Halted
<1>2. MountedInv'
  BY DEF Halted, MountedInv
<1> QED BY <1>1, <1>2

LEMMA HaltedWire ==
  ASSUME StageInv, WireInv, Halted, CallsKept, Hears({"started", "refused", "stopped"}),
         source' \in {source, 0}
  PROVE  WireInv'
<1>1. Calling' = Calling
  BY DEF CallsKept, Calling
<1>2. MessageInv'
  BY <1>1, MessagesKept DEF WireInv, Halted
<1> QED BY <1>2, HaltedHeld DEF WireInv

\* The mounted run and its session stay.
Stays ==
  /\ view'.run = view.run /\ view'.stopped = view.stopped
  /\ view'.audio = view.audio \/ (view'.audio = 0 /\ replies # <<>>)
  /\ \A k \in Runs : \A s \in {"calling", "live"} : stage'[k] = s <=> stage[k] = s
  /\ \A k \in Runs : stage[k] = "over" => stage'[k] = "over"
  /\ UNCHANGED posted

LEMMA StaysWire ==
  ASSUME StageInv, WireInv, Stays, Hears({"stopped"}), UNCHANGED source PROVE WireInv'
<1>1. Calling' = Calling
  BY DEF Stays, Calling
<1>2. MessageInv'
  <2>1. Hears({"started", "refused", "stopped"}) /\ PostsStop
    BY DEF Hears, PostsStop, Stays
  <2> QED BY <1>1, <2>1, MessagesKept DEF WireInv
<1>3. HeldInv'
  <2>1. \A k \in Runs : /\ stage[k] = "calling" => stage'[k] \in {"calling", "live", "over"}
                        /\ stage[k] \in {"live", "over"} => stage'[k] \in {"live", "over"}
    BY DEF Stays
  <2> QED BY <2>1, HeldKept DEF WireInv, MessageInv, Stays
<1>4. view.run # 0 => view.run \in Runs
  BY DEF StageInv, Coherent, Views, Runs
<1>5. ASSUME NEW r \in Runs, NEW a \in {"refused", "started"}, Ends(replies, <<a, r>>)
      PROVE  Ends(replies', <<a, r>>)
  <2>1. CASE replies' = replies
    BY <1>5, <2>1
  <2>2. CASE replies # <<>> /\ Head(replies)[1] = "stopped" /\ replies' = Tail(replies)
    <3>1. replies \in Seq(Answers)
      BY DEF WireInv, MessageInv
    <3>2. Head(replies) # <<a, r>>
      BY <2>2
    <3> QED BY <1>5, <2>2, <3>1, <3>2, TailMessages
  <2> QED BY <2>1, <2>2 DEF Hears
<1>6. MountedInv'
  <2>1. CASE view.run # 0 /\ stage[view.run] = "calling"
    <3>1. view'.run = view.run /\ stage'[view.run] = "calling"
      BY <1>4, <2>1 DEF Stays
    <3> QED BY <1>4, <1>5, <2>1, <3>1 DEF WireInv, MountedInv, Stays
  <2>2. CASE view.run # 0 /\ stage[view.run] = "live"
    <3>1. view'.run = view.run /\ stage'[view.run] = "live"
      BY <1>4, <2>2 DEF Stays
    <3>2. replies = <<>> /\ replies' = replies /\ view'.audio = view.audio
      BY <2>2 DEF WireInv, MountedInv, Hears, Stays
    <3> QED BY <2>2, <3>1, <3>2 DEF WireInv, MountedInv, Stays
  <2>3. CASE view.run = 0 \/ stage[view.run] \notin {"calling", "live"}
    BY <1>4, <2>3 DEF MountedInv, Stays
  <2> QED BY <2>1, <2>2, <2>3
<1> QED BY <1>2, <1>3, <1>6 DEF WireInv

-----------------------------------------------------------------------------
(* The steps of the inits and of the engine, for the runs and the messages. *)

\* One run moves, outside of a call.
LEMMA MovesAside ==
  ASSUME StageInv, WireInv, UNCHANGED <<view, native>>, NEW k \in Runs, NEW s \in OnItsWay \cup {"over"},
         stage[k] \in OnItsWay \ {"calling"}, s # "calling", stage' = Reached(k, s),
         s = "over" => view.run # k
  PROVE  StageInv' /\ WireInv' /\ Stays
<1>1. StageInv' /\ stage'[k] = s /\ \A j \in Runs : j # k => stage'[j] = stage[j]
  BY ReachedStage
<1>2. \A j \in Runs : \A a \in {"calling", "live"} : stage'[j] = a <=> stage[j] = a
  BY <1>1 DEF OnItsWay
<1>3. \A j \in Runs : stage[j] = "over" => stage'[j] = "over"
  BY <1>1 DEF OnItsWay
<1>4. Stays
  BY <1>2, <1>3 DEF Stays, native
<1> QED BY <1>1, <1>4, StaysWire DEF Hears, native

LEMMA StepPrepare ==
  ASSUME StageInv, WireInv, NEW k \in Runs, Prepare(k) PROVE StageInv' /\ WireInv' /\ Stays
BY MovesAside DEF Prepare, OnItsWay

\* The view changes where it does not matter.
LEMMA StepFrameOrClear ==
  ASSUME StageInv, WireInv, Frame \/ Clear PROVE StageInv' /\ WireInv' /\ Stays
<1>1. view' = view \/ view' = [view EXCEPT !.recoverable = TRUE]
  BY DEF Frame, Clear
<1>2. /\ Coherent(view') /\ SameRuns(view', view) /\ view'.running = view.running
  BY <1>1, RecoverableAt DEF StageInv, SameRuns
<1>3. UNCHANGED <<stage, posted, replies, source>>
  BY DEF Frame, Clear, native
<1>4. StageInv'
  BY <1>2, <1>3 DEF StageInv, SameRuns
<1>5. Stays
  BY <1>2, <1>3 DEF Stays, SameRuns
<1> QED BY <1>3, <1>4, <1>5, StaysWire DEF Hears

LEMMA StepBegin ==
  ASSUME StageInv, WireInv, NEW k \in Runs, Begin(k)
  PROVE  /\ StageInv' /\ WireInv' /\ Calling = {} /\ stage'[k] = "calling"
         /\ \A j \in Runs : j # k => stage'[j] = stage[j] /\ stage[j] # "live"
<1>1. /\ stage[k] = "configuring" /\ UNCHANGED <<view, replies, source>>
      /\ stage' = Reached(k, "calling") /\ posted' = Append(posted, <<"start", k>>)
      /\ \A j \in 1 .. k - 1 : stage[j] \notin OnItsWay
  BY DEF Begin, EarlierAnswered
<1>2. StageInv' /\ stage'[k] = "calling" /\ \A j \in Runs : j # k => stage'[j] = stage[j]
  BY <1>1, ReachedStage DEF OnItsWay
<1>3. \A j \in Runs : j # k => stage[j] \notin {"calling", "live"}
  <2>1. ASSUME NEW j \in Runs, j # k, stage[j] = "calling" PROVE FALSE
    <3>1. j \in 1 .. k - 1 => FALSE
      BY <1>1, <2>1 DEF OnItsWay
    <3>2. k < j
      BY <2>1, <3>1, LiveCaptureAssumption DEF Runs
    <3> QED BY <1>1, <2>1, <3>2 DEF StageInv, OnItsWay
  <2>2. ASSUME NEW j \in Runs, j # k, stage[j] = "live" PROVE FALSE
    <3>1. k <= view.begun /\ j = view.begun
      BY <1>1, <2>2, LiveCaptureAssumption DEF StageInv, Coherent, Views, Runs
    <3>2. k < j
      BY <2>2, <3>1, LiveCaptureAssumption DEF Runs, StageInv, Coherent, Views
    <3> QED BY <1>1, <2>2, <3>2 DEF StageInv, OnItsWay
  <2> QED BY <2>1, <2>2
<1>4. Calling = {} /\ Calling' = {k}
  BY <1>1, <1>2, <1>3 DEF Calling
<1>5. /\ posted \in Seq(Commands) /\ replies \in Seq(Answers) /\ NoStart(posted) /\ NoStart(replies)
      /\ <<"start", k>> \in Commands
  BY <1>4, WithinNone DEF WireInv, MessageInv, Commands
<1>6. /\ posted' \in Seq(Commands) /\ Ends(posted', <<"start", k>>) /\ AtMostOne(posted')
      /\ Within(posted', {k})
  <2>1. Within(posted, {k}) /\ AtMostOne(posted) /\ <<"start", k>>[2] \in {k}
    BY <1>5, NoStartIsWithin
  <2> QED BY <1>1, <1>5, <2>1, AppendMessage
<1>7. MessageInv'
  BY <1>1, <1>4, <1>5, <1>6, NoStartIsWithin DEF WireInv, MessageInv
<1>8. view.run # 0 => view.run \in Runs
  BY DEF StageInv, Coherent, Views, Runs
<1>9. MountedInv'
  BY <1>1, <1>2, <1>3, <1>6, <1>8 DEF MountedInv
<1>10. HeldInv'
  BY <1>1, <1>2, HeldKept DEF WireInv, MessageInv
<1> QED BY <1>2, <1>3, <1>4, <1>7, <1>9, <1>10 DEF WireInv

LEMMA StepCarryOut ==
  ASSUME StageInv, WireInv, CarryOut PROVE StageInv' /\ WireInv'
<1>1. /\ posted # <<>> /\ posted' = Tail(posted) /\ UNCHANGED <<view, stage>>
      /\ IF Head(posted)[1] = "start" THEN AudioStart(Head(posted)[2]) ELSE AudioStop(Head(posted)[2])
  BY DEF CarryOut
<1> DEFINE k == Head(posted)[2]
<1>2. StageInv'
  BY <1>1 DEF StageInv
<1>3. /\ posted \in Seq(Commands) /\ replies \in Seq(Answers) /\ Head(posted) \in Commands
      /\ AtMostOne(posted) /\ Within(posted, Calling) /\ AtMostOne(replies) /\ Within(replies, Calling)
      /\ NoStart(posted) \/ NoStart(replies)
  <2>1. posted \in Seq(Commands)
    BY DEF WireInv, MessageInv
  <2>2. Head(posted) \in Commands
    BY <1>1, <2>1, TailMessages
  <2> QED BY <2>1, <2>2 DEF WireInv, MessageInv
<1>4. /\ posted' \in Seq(Commands) /\ AtMostOne(posted') /\ Within(posted', Calling)
      /\ NoStart(posted) => NoStart(posted') /\ ~IsStart(Head(posted))
      /\ IsStart(Head(posted)) => NoStart(posted') /\ k \in Calling
      /\ \A m : Ends(posted, m) => Ends(posted', m) \/ (posted' = <<>> /\ Head(posted) = m)
  BY <1>1, <1>3, TailMessages
<1>5. Calling' = Calling
  BY <1>1 DEF Calling
<1>6. Head(posted) = <<Head(posted)[1], k>> /\ Head(posted)[1] \in {"start", "stop"} /\ k \in Runs
  BY <1>3 DEF Commands
<1> HIDE DEF k
<1>7. CASE Head(posted)[1] = "start"
  <2>1. IsStart(Head(posted)) /\ k \in Calling /\ NoStart(posted') /\ NoStart(replies) /\ stage[k] = "calling"
    BY <1>3, <1>4, <1>7 DEF IsStart, Calling
  <2>2. PICK a \in {"started", "refused"} :
           replies' = Append(replies, <<a, k>>) /\ source' = (IF a = "started" THEN k ELSE 0)
    BY <1>1, <1>7 DEF AudioStart, k
  <2>3. <<a, k>> \in Answers /\ <<a, k>>[2] \in Calling
    BY <1>6, <2>1 DEF Answers
  <2>4. /\ replies' \in Seq(Answers) /\ AtMostOne(replies') /\ Within(replies', Calling)
        /\ Ends(replies', <<a, k>>)
    BY <1>3, <2>1, <2>2, <2>3, AppendMessage
  <2>5. source' \in RunOrNone
    BY <1>6, <2>2, LiveCaptureAssumption DEF RunOrNone, Runs
  <2>6. MessageInv'
    BY <1>4, <1>5, <2>1, <2>4, <2>5 DEF MessageInv
  <2>7. HeldInv'
    BY <1>1, <2>1, <2>2 DEF WireInv, HeldInv
  <2>8. ASSUME view.run # 0, stage[view.run] = "calling"
        PROVE  \/ Ends(posted', <<"start", view.run>>)
               \/ posted' = <<>> /\ Ends(replies', <<"refused", view.run>>)
               \/ posted' = <<>> /\ Ends(replies', <<"started", view.run>>) /\ source' = view.run
    <3>1. view.run = k
      BY <1>6, <2>1, <2>8, CallsAlone
    <3>2. Ends(posted, <<"start", view.run>>)
      BY <1>1, <2>8 DEF WireInv, MountedInv
    <3>3. ~Ends(posted', <<"start", view.run>>) => posted' = <<>>
      BY <1>4, <3>2
    <3> QED BY <2>2, <2>4, <3>1, <3>3
  <2>9. view.run # 0 => stage[view.run] # "live"
    BY <1>1 DEF WireInv, MountedInv
  <2>10. MountedInv'
    BY <1>1, <2>8, <2>9 DEF MountedInv
  <2> QED BY <1>2, <2>6, <2>7, <2>10 DEF WireInv
<1>8. CASE Head(posted)[1] = "stop"
  <2>1. source' = 0 /\ replies' = Append(replies, <<"stopped", k>>)
    BY <1>1, <1>8 DEF AudioStop, k
  <2>2. <<"stopped", k>> \in Answers /\ ~IsStart(<<"stopped", k>>)
    BY <1>6 DEF Answers, IsStart
  <2>3. /\ replies' \in Seq(Answers) /\ AtMostOne(replies') /\ Within(replies', Calling)
        /\ NoStart(replies) => NoStart(replies')
    BY <1>3, <2>1, <2>2, AppendMessage
  <2>4. source' \in RunOrNone
    BY <2>1, LiveCaptureAssumption DEF RunOrNone
  <2>5. MessageInv'
    BY <1>3, <1>4, <1>5, <2>3, <2>4 DEF MessageInv
  <2>6. HeldInv'
    BY <1>1, <2>1 DEF WireInv, HeldInv
  <2>7. ASSUME view.run # 0, stage[view.run] = "calling" PROVE Ends(posted', <<"start", view.run>>)
    <3>1. Ends(posted, <<"start", view.run>>)
      BY <1>1, <2>7 DEF WireInv, MountedInv
    <3>2. Head(posted) # <<"start", view.run>>
      BY <1>8
    <3> QED BY <1>4, <3>1, <3>2
  <2>8. view.run # 0 => stage[view.run] # "live"
    BY <1>1 DEF WireInv, MountedInv
  <2>9. MountedInv'
    BY <1>1, <2>7, <2>8 DEF MountedInv
  <2> QED BY <1>2, <2>5, <2>6, <2>9 DEF WireInv
<1> QED BY <1>6, <1>7, <1>8

\* The answer that run k is started finds it mounted.
LEMMA StepStarted ==
  ASSUME StageInv, WireInv, NEW k \in Runs, replies # <<>>, Head(replies) = <<"started", k>>,
         replies' = Tail(replies), UNCHANGED source, Started(k)
  PROVE  StageInv' /\ WireInv' /\ stage[k] = "calling" /\ view.run = k /\ view'.run = k
<1> DEFINE u == [view EXCEPT !.audio = k]
           w == MarkStarted(u)
<1>1. view.run = k /\ Become(w, Reached(k, "live"))
  BY DEF Started
<1>2. /\ k # 0 /\ view.running /\ view \in Views /\ view.begun = k
      /\ IsStart(Head(replies)) /\ Head(replies)[2] = k
  <2>1. k # 0
    BY DEF Runs
  <2>2. view.running /\ view \in Views /\ view.begun = k
    BY <1>1, <2>1 DEF StageInv, Coherent
  <2> QED BY <2>1, <2>2 DEF IsStart
<1>3. u \in Views /\ u.running /\ u.run = k /\ u.begun = k /\ u.audio = k /\ u.stopped = view.stopped
  BY <1>1, <1>2 DEF Views, Runs
<1> HIDE DEF u
<1>4. /\ Coherent(w) /\ w.running /\ w.run = k /\ w.begun = k /\ w.audio = k
      /\ w.stopped = view.stopped
  BY <1>3, MarkStartedAt DEF SameRuns
<1> HIDE DEF w
<1>5. view' = w /\ UNCHANGED posted
  BY <1>1, <1>4 DEF Become
<1>6. MessageInv' /\ NoStart(posted) /\ stage[k] = "calling"
  BY <1>2, <1>5, MessagesSettle DEF WireInv, PostsStop
<1>7. stage' = [j \in Runs |-> IF j = k /\ stage[j] = "unborn"
                               THEN IF w.awaits[j] = 0 THEN "preparing" ELSE "waiting"
                               ELSE IF Reached(k, "live")[j] = "live" /\ j # k THEN "over"
                               ELSE Reached(k, "live")[j]]
  BY <1>1, <1>4 DEF Become
<1>8. stage'[k] = "live" /\ \A j \in Runs : j # k => stage'[j] = stage[j] /\ stage[j] # "live"
  BY <1>1, <1>6, <1>7 DEF Reached, StageInv
<1>9. stage' \in [Runs -> Stages]
  BY <1>7, <1>8 DEF StageInv, Stages
<1>10. StageInv'
  <2>1. \A j \in Runs : stage'[j] = "unborn" <=> j > view'.begun
    BY <1>2, <1>4, <1>5, <1>6, <1>8 DEF StageInv
  <2>2. ASSUME NEW i \in Runs, NEW j \in Runs, i < j, stage'[j] \in {"calling", "live"}
        PROVE  stage'[i] \notin OnItsWay
    <3>1. stage[j] \in {"calling", "live"}
      BY <1>6, <1>8, <2>2
    <3> QED BY <1>8, <2>2, <3>1 DEF StageInv, OnItsWay
  <2> QED BY <1>1, <1>2, <1>4, <1>5, <1>8, <1>9, <2>1, <2>2 DEF StageInv
<1>11. view.stopped # k /\ view.stopped \in RunOrNone
  BY <1>2, <1>6 DEF WireInv, HeldInv, Views, RunOrNone
<1>12. posted' = <<>> /\ replies' = <<>> /\ source = k
  <2>1. ~Ends(posted, <<"start", k>>)
    <3>1. posted \in Seq(Commands) /\ IsStart(<<"start", k>>)
      BY DEF WireInv, MessageInv, IsStart
    <3> QED BY <1>6, <3>1 DEF Ends, NoStart
  <2>2. PICK a \in {"refused", "started"} :
          posted = <<>> /\ Ends(replies, <<a, k>>) /\ (a = "started" => source = k)
    BY <1>1, <1>2, <1>6, <2>1 DEF WireInv, MountedInv
  <2>3. replies \in Seq(Answers) /\ AtMostOne(replies) /\ IsStart(<<a, k>>)
    BY DEF WireInv, MessageInv, IsStart
  <2>4. replies' = <<>> /\ Head(replies) = <<a, k>>
    BY <1>2, <2>2, <2>3, TailMessages
  <2>5. a = "started"
    BY <2>4
  <2> QED BY <1>5, <2>2, <2>4, <2>5
<1>13. MountedInv'
  BY <1>2, <1>4, <1>5, <1>8, <1>11, <1>12 DEF MountedInv
<1>14. HeldInv'
  <2>1. view'.audio # 0 => stage'[view'.audio] \in {"live", "over"}
    BY <1>4, <1>5, <1>8
  <2>2. view'.stopped # 0 => stage'[view'.stopped] \in {"live", "over"}
    <3>1. view.stopped # 0 => view.stopped \in Runs
      BY <1>11 DEF RunOrNone, Runs
    <3> QED BY <1>4, <1>5, <1>8, <1>11, <3>1 DEF WireInv, HeldInv
  <2>3. source' # 0 => stage'[source'] \in {"calling", "live", "over"}
    BY <1>8, <1>12
  <2> QED BY <2>1, <2>2, <2>3 DEF HeldInv
<1> QED BY <1>1, <1>4, <1>5, <1>6, <1>10, <1>13, <1>14 DEF WireInv

\* It does not.
LEMMA StepStartedTooLate ==
  ASSUME StageInv, WireInv, NEW k \in Runs, replies # <<>>, Head(replies) = <<"started", k>>,
         replies' = Tail(replies), UNCHANGED source, StartedTooLate(k)
  PROVE  /\ StageInv' /\ WireInv'
         /\ view'.run # 0 => stage'[view'.run] \notin {"calling", "live"}
<1>1. /\ view.run # k /\ stage' = Reached(k, "over") /\ UNCHANGED <<view, posted>>
      /\ IsStart(Head(replies)) /\ Head(replies)[2] = k
  BY DEF StartedTooLate, IsStart
<1>2. MessageInv' /\ stage[k] = "calling"
  BY <1>1, MessagesSettle DEF WireInv, PostsStop
<1>3. StageInv' /\ stage'[k] = "over" /\ \A j \in Runs : j # k => stage'[j] = stage[j]
  BY <1>1, <1>2, ReachedStage DEF OnItsWay
<1>4. view.run # 0 => view.run \in Runs /\ stage[view.run] \notin {"calling", "live"}
  BY <1>1, <1>2, CallsAlone DEF StageInv, Coherent, Views, Runs
<1>5. view'.run # 0 => stage'[view'.run] \notin {"calling", "live"}
  BY <1>1, <1>3, <1>4
<1>6. MountedInv'
  BY <1>5 DEF MountedInv
<1>7. HeldInv'
  BY <1>1, <1>2, <1>3, HeldKept DEF WireInv, MessageInv
<1> QED BY <1>2, <1>3, <1>5, <1>6, <1>7 DEF WireInv

LEMMA StepRefused ==
  ASSUME StageInv, WireInv, NEW k \in Runs, replies # <<>>, Head(replies) = <<"refused", k>>,
         replies' = Tail(replies), UNCHANGED source, Refused(k)
  PROVE  StageInv' /\ WireInv' /\ Halted
<1>1. /\ view \in Views /\ Become(Committed(MarkStartFailed(view)), Reached(k, "over"))
      /\ IsStart(Head(replies)) /\ Head(replies)[2] = k
  BY DEF Refused, StageInv, Coherent, IsStart
<1>2. stage[k] = "calling"
  <2>1. replies \in Seq(Answers)
    BY DEF WireInv, MessageInv
  <2> QED BY <1>1, <2>1, TailMessages DEF WireInv, MessageInv, Calling
<1>3. StageInv' /\ Halted
  BY <1>1, <1>2, ReachedOver, HaltsAt, HaltsRun
<1>4. MessageInv'
  BY <1>1, <1>3, MessagesSettle DEF WireInv, Halted
<1> QED BY <1>3, <1>4, HaltedHeld DEF WireInv

LEMMA StepStopped ==
  ASSUME StageInv, WireInv, NEW k \in Runs, replies # <<>>, Head(replies) = <<"stopped", k>>,
         replies' = Tail(replies), UNCHANGED source, Stopped(k)
  PROVE  StageInv' /\ WireInv' /\ ((Halted /\ CallsKept) \/ Stays)
<1>1. view \in Views /\ Coherent(view) /\ Hears({"stopped"}) /\ Hears({"started", "refused", "stopped"})
  BY DEF StageInv, Coherent, Hears
<1> DEFINE u == [view EXCEPT !.rests[k] = "no"]
<1>2. /\ Coherent(u) /\ SameRuns(u, view) /\ u.running = view.running /\ u.lifecycle = view.lifecycle
  <2>1. [view.rests EXCEPT ![k] = "no"] \in [Runs -> {"no", "mark", "keep"}]
    BY <1>1 DEF Views
  <2>2. u = [view EXCEPT !.rests = [view.rests EXCEPT ![k] = "no"]]
    BY <1>1 DEF Views
  <2>3. /\ u \in Views /\ u.lifecycle = view.lifecycle /\ u.running = view.running
        /\ u.asked = view.asked /\ u.restarting = view.restarting /\ SameRuns(u, view)
    BY <1>1, <2>1, <2>2 DEF Views, SameRuns
  <2> QED BY <1>1, <2>3 DEF Coherent
<1> HIDE DEF u
<1>3. CASE Become(Committed(Rested(u, FALSE)), stage)
  <2> DEFINE x == [u EXCEPT !.audio = 0]
             w == MarkStopped(x)
  <2>1. Rested(u, FALSE) = w
    BY DEF Rested
  <2> 0 \in 0 .. MaxRuns
    BY LiveCaptureAssumption
  <2>2. x \in Views /\ x.run = view.run /\ x.begun = view.begun /\ x.stopped = view.stopped /\ x.audio = 0
    BY <1>2 DEF Coherent, Views, SameRuns
  <2> HIDE DEF x
  <2>3. /\ Coherent(w) /\ ~w.running /\ w.run = view.run /\ w.begun = view.begun
        /\ w.stopped = view.stopped /\ w.audio = 0
    BY <2>2, HaltsAt DEF SameRuns
  <2> HIDE DEF w
  <2>4. Rests(Committed(w), w) /\ Releases(Committed(w), w)
    BY <2>3, CommittedRests
  <2>5. Leads(Committed(w))
    BY <2>3, <2>4 DEF Leads, Rests, Releases
  <2>6. StageInv' /\ Halted /\ CallsKept
    BY <1>3, <2>1, <2>5, BecomeLeads, SameReaches DEF CallsKept
  <2> QED BY <1>1, <2>6, HaltedWire
<1>4. CASE Become(Rested(u, TRUE), stage)
  <2> DEFINE w == [u EXCEPT !.audio = 0]
  <2>1. Rested(u, TRUE) = w
    BY DEF Rested
  <2> 0 \in 0 .. MaxRuns
    BY LiveCaptureAssumption
  <2>2. /\ w \in Views /\ w.lifecycle = u.lifecycle /\ w.running = u.running /\ w.asked = u.asked
        /\ w.restarting = u.restarting
        /\ w.run = u.run /\ w.begun = u.begun /\ w.stopped = u.stopped /\ w.audio = 0
    BY <1>2 DEF Coherent, Views
  <2>3. /\ Coherent(w) /\ w.running = view.running /\ w.run = view.run /\ w.begun = view.begun
        /\ w.stopped = view.stopped
    BY <1>2, <2>2 DEF Coherent, SameRuns
  <2> HIDE DEF w
  <2>4. Become(w, stage)
    BY <1>4, <2>1
  <2>5. StageInv' /\ UNCHANGED posted /\ view' = w /\ \A j \in Runs : stage'[j] = stage[j]
    BY <2>3, <2>4, BecomeStays, SameReaches
  <2>6. w.audio = 0
    BY <2>2 DEF w
  <2>7. Stays
    BY <2>3, <2>5, <2>6 DEF Stays
  <2> QED BY <1>1, <2>5, <2>7, StaysWire
<1>5. CASE Become([view EXCEPT !.inFlight = IF @ = k THEN 0 ELSE @],
                  [j \in Runs |-> IF stage[j] # "waiting" \/ view.awaits[j] # k THEN stage[j]
                                  ELSE IF view.run = j THEN "preparing" ELSE "over"])
  <2> DEFINE w == [view EXCEPT !.inFlight = IF @ = k THEN 0 ELSE @]
             stages == [j \in Runs |-> IF stage[j] # "waiting" \/ view.awaits[j] # k THEN stage[j]
                                       ELSE IF view.run = j THEN "preparing" ELSE "over"]
  <2> DEFINE i == IF view.inFlight = k THEN 0 ELSE view.inFlight
  <2>0. w = [view EXCEPT !.inFlight = i] /\ i \in 0 .. MaxRuns
    <3> 0 \in 0 .. MaxRuns
      BY LiveCaptureAssumption
    <3> QED BY <1>1 DEF Views
  <2> HIDE DEF i
  <2>1. /\ w \in Views /\ w.lifecycle = view.lifecycle /\ w.running = view.running
        /\ w.asked = view.asked /\ w.restarting = view.restarting
        /\ w.run = view.run /\ w.begun = view.begun /\ w.stopped = view.stopped
        /\ w.audio = view.audio
    BY <1>1, <2>0 DEF Views
  <2>2. Coherent(w)
    BY <1>1, <2>1 DEF Coherent
  <2>3. Reaches(stages)
    BY DEF Reaches, StageInv, Stages, OnItsWay
  <2>4. \A j \in Runs : /\ stages[j] = "over" => stage[j] = "over" \/ j # view.run
                        /\ stage[j] = "over" => stages[j] = "over"
                        /\ \A s \in {"calling", "live"} : stages[j] = s <=> stage[j] = s
    OBVIOUS
  <2>5. Become(w, stages)
    BY <1>5
  <2> HIDE DEF w, stages
  <2>6. StageInv' /\ UNCHANGED posted /\ view' = w /\ \A j \in Runs : stage'[j] = stages[j]
    BY <2>1, <2>2, <2>3, <2>4, <2>5, BecomeStays
  <2>7. Stays
    BY <2>1, <2>4, <2>6 DEF Stays
  <2> QED BY <1>1, <2>6, <2>7, StaysWire
<1> QED BY <1>3, <1>4, <1>5 DEF Stopped, u

\* A session that ends unheard: nothing is mounted that could have it.
LEMMA StepFailsUnheard ==
  ASSUME StageInv, WireInv, UNCHANGED <<view, stage, posted, replies>>, source' = 0,
         view.run = 0 \/ stage[view.run] \notin {"calling", "live"}
  PROVE  StageInv' /\ WireInv'
<1>1. StageInv'
  BY DEF StageInv
<1>2. MessageInv'
  BY MessagesKept DEF WireInv, Calling, PostsStop, Hears
<1>3. HeldInv'
  BY HeldKept DEF WireInv, MessageInv
<1>4. MountedInv'
  BY DEF MountedInv
<1> QED BY <1>1, <1>2, <1>3, <1>4 DEF WireInv

-----------------------------------------------------------------------------
(* The owner of the measurement, and the records that it has published.    *)

\* A run whose frames are not dropped and whose session has been asked for.
Active == view.run # 0 /\ stage[view.run] \in {"calling", "live"}

OwnerType ==
  /\ owner \in [generation : Nat, pending : Nat, caught : RunOrNone]
  /\ labels \subseteq Nat \X Runs
  /\ clears \in 0 .. MaxClears

\* A generation is pending only while a start is asked for, and the frame caught for it is of
\* the run that asks.
PendingInv ==
  /\ owner.pending # 0 => owner.pending = owner.generation + 1 /\ Calling # {}
  /\ owner.pending = 0 => owner.caught = 0
  /\ owner.caught # 0 => stage[owner.caught] = "calling"

\* No record is of a generation to come; those of this one are of the run that publishes.
LabelInv ==
  /\ \A x \in labels : x[1] <= owner.generation
  /\ Active /\ owner.pending = 0 =>
       \A x \in labels : x[1] = owner.generation => x[2] = view.run
  /\ OneSessionPerGeneration

OwnerInv == OwnerType /\ PendingInv /\ LabelInv

LiveInv == StageInv /\ WireInv /\ OwnerInv

\* A step without a frame and without a commit.
LEMMA OwnerKept ==
  ASSUME StageInv, OwnerInv, UNCHANGED <<owner, labels, clears>>, CallsKept,
         Active' => Active /\ UNCHANGED view.run
  PROVE  OwnerInv'
<1>1. OwnerType'
  BY DEF OwnerInv, OwnerType
<1>2. PendingInv'
  <2>1. Calling' = Calling
    BY DEF CallsKept, Calling
  <2>2. owner.caught # 0 => owner.caught \in Runs
    BY DEF OwnerInv, OwnerType, RunOrNone, Runs
  <2> QED BY <2>1, <2>2 DEF OwnerInv, PendingInv, CallsKept
<1>3. LabelInv'
  BY DEF OwnerInv, LabelInv, OneSessionPerGeneration
<1> QED BY <1>1, <1>2, <1>3 DEF OwnerInv

LEMMA HaltedOwner ==
  ASSUME StageInv, OwnerInv, UNCHANGED <<owner, labels, clears>>, CallsKept, Halted
  PROVE  OwnerInv'
<1>1. ~Active'
  BY DEF Active, Halted
<1> QED BY <1>1, OwnerKept

LEMMA StaysOwner ==
  ASSUME StageInv, OwnerInv, UNCHANGED <<owner, labels, clears>>, Stays
  PROVE  OwnerInv'
<1>1. CallsKept
  BY DEF Stays, CallsKept
<1>2. view.run # 0 => view.run \in Runs
  BY DEF StageInv, Coherent, Views, Runs
<1>3. Active' => Active /\ UNCHANGED view.run
  BY <1>2 DEF Active, Stays
<1> QED BY <1>1, <1>3, OwnerKept

\* The attempt is given up, and nothing publishes.
LEMMA AbortedOwner ==
  ASSUME OwnerInv, owner' = Aborted, UNCHANGED <<labels, clears>>, ~Active' PROVE OwnerInv'
<1>1. /\ owner' \in [generation : Nat, pending : Nat, caught : RunOrNone]
      /\ owner'.generation = owner.generation /\ owner'.pending = 0 /\ owner'.caught = 0
  <2>1. 0 \in RunOrNone
    BY LiveCaptureAssumption DEF RunOrNone
  <2> QED BY <2>1 DEF OwnerInv, OwnerType, Aborted
<1>2. OwnerType'
  BY <1>1 DEF OwnerInv, OwnerType
<1>3. PendingInv'
  BY <1>1 DEF PendingInv
<1>4. LabelInv'
  BY <1>1 DEF OwnerInv, LabelInv, OneSessionPerGeneration
<1> QED BY <1>2, <1>3, <1>4 DEF OwnerInv

LEMMA BeginOwner ==
  ASSUME StageInv, OwnerInv, NEW k \in Runs, Begin(k), Calling = {}, stage'[k] = "calling"
  PROVE  OwnerInv'
<1>1. owner.pending = 0 /\ owner.caught = 0
  BY DEF OwnerInv, PendingInv
<1>2. owner' = [owner EXCEPT !.pending = owner.generation + 1, !.caught = 0]
  BY <1>1 DEF Begin
<1>3. /\ owner' \in [generation : Nat, pending : Nat, caught : RunOrNone]
      /\ owner'.generation = owner.generation /\ owner'.pending = owner.generation + 1
      /\ owner'.caught = 0 /\ owner'.pending # 0
  <2>1. 0 \in RunOrNone
    BY LiveCaptureAssumption DEF RunOrNone
  <2> DEFINE next == owner.generation + 1
  <2>2. next \in Nat /\ next # 0
    BY DEF OwnerInv, OwnerType
  <2>3. owner' = [owner EXCEPT !.pending = next, !.caught = 0]
    BY <1>2
  <2> HIDE DEF next
  <2>4. /\ owner' \in [generation : Nat, pending : Nat, caught : RunOrNone]
        /\ owner'.generation = owner.generation /\ owner'.pending = next
        /\ owner'.caught = 0
    BY <2>1, <2>2, <2>3 DEF OwnerInv, OwnerType
  <2> QED BY <2>2, <2>4 DEF next
<1>4. UNCHANGED <<labels, clears>>
  BY DEF Begin
<1>5. OwnerType'
  BY <1>3, <1>4 DEF OwnerInv, OwnerType
<1>6. PendingInv'
  BY <1>3 DEF PendingInv, Calling
<1>7. LabelInv'
  BY <1>3, <1>4 DEF OwnerInv, LabelInv, OneSessionPerGeneration
<1> QED BY <1>5, <1>6, <1>7 DEF OwnerInv

\* The commit: the generation that was pending begins with the frame that was caught for it.
LEMMA StartedOwner ==
  ASSUME StageInv, OwnerInv, NEW k \in Runs, stage[k] = "calling", view.run = k, view'.run = k,
         Started(k), UNCHANGED clears
  PROVE  OwnerInv'
<1>1. Calling = {k} /\ Active /\ k # 0
  BY CallsAlone DEF Active, Runs
<1>2. CASE owner.pending = 0
  <2>1. UNCHANGED <<owner, labels>>
    BY <1>2 DEF Started
  <2>2. OwnerType'
    BY <2>1 DEF OwnerInv, OwnerType
  <2>3. PendingInv'
    BY <1>2, <2>1 DEF OwnerInv, PendingInv
  <2>4. LabelInv'
    BY <1>1, <1>2, <2>1 DEF OwnerInv, LabelInv, OneSessionPerGeneration
  <2> QED BY <2>2, <2>3, <2>4 DEF OwnerInv
<1>3. CASE owner.pending # 0
  <2>1. /\ owner' = [Aborted EXCEPT !.generation = owner.pending]
        /\ labels' = labels \cup ({owner.pending} \X ({owner.caught} \ {0}))
    BY <1>3 DEF Started
  <2>2. /\ owner' \in [generation : Nat, pending : Nat, caught : RunOrNone]
        /\ owner'.generation = owner.pending /\ owner'.pending = 0 /\ owner'.caught = 0
    <3>1. 0 \in RunOrNone
      BY LiveCaptureAssumption DEF RunOrNone
    <3> QED BY <2>1, <3>1 DEF OwnerInv, OwnerType, Aborted
  <2>3. owner.pending = owner.generation + 1 /\ owner.generation \in Nat /\ owner.pending \in Nat
    BY <1>3 DEF OwnerInv, PendingInv, OwnerType
  <2>4. owner.caught # 0 => owner.caught = k
    <3>1. owner.caught # 0 => owner.caught \in Calling
      BY DEF OwnerInv, OwnerType, PendingInv, Calling, RunOrNone, Runs
    <3> QED BY <1>1, <3>1
  <2>5. \A x \in labels' : x \in labels \/ x = <<owner.pending, k>>
    BY <2>1, <2>4
  <2>6. labels' \subseteq Nat \X Runs
    BY <2>3, <2>5 DEF OwnerInv, OwnerType
  <2>7. OwnerType'
    BY <2>2, <2>6 DEF OwnerInv, OwnerType
  <2>8. PendingInv'
    BY <2>2 DEF PendingInv
  <2>9. \A x \in labels : x[1] \in Nat /\ x[1] <= owner.generation /\ x[1] < owner.pending
    <3>1. \A x \in labels : x[1] \in Nat /\ x[1] <= owner.generation
      BY DEF OwnerInv, OwnerType, LabelInv
    <3> QED BY <2>3, <3>1
  <2>10. \A x \in labels' : /\ x[1] <= owner'.generation
                            /\ x[1] = owner'.generation => x[2] = k
    <3>1. \A x \in labels : x[1] <= owner.pending /\ x[1] # owner.pending
      BY <2>3, <2>9
    <3>2. <<owner.pending, k>>[1] <= owner.pending /\ <<owner.pending, k>>[2] = k
      BY <2>3
    <3> QED BY <2>2, <2>5, <3>1, <3>2
  <2>11. OneSessionPerGeneration'
    <3>1. \A x \in labels : x[1] # owner.pending
      BY <2>3, <2>9
    <3>2. \A x, y \in labels : x[1] = y[1] => x[2] = y[2]
      BY DEF OwnerInv, LabelInv, OneSessionPerGeneration
    <3>3. \A x, y \in labels' : x[1] = y[1] => x[2] = y[2]
      BY <2>5, <3>1, <3>2
    <3> QED BY <3>3 DEF OneSessionPerGeneration
  <2>12. LabelInv'
    BY <2>10, <2>11 DEF LabelInv
  <2> QED BY <2>7, <2>8, <2>12 DEF OwnerInv
<1> QED BY <1>2, <1>3

LEMMA ClearOwner == ASSUME OwnerInv, Clear PROVE OwnerInv'
<1>1. /\ owner' = [generation |-> owner.generation + 1, pending |-> 0, caught |-> 0]
      /\ labels' = labels /\ clears < MaxClears /\ clears' = clears + 1
  BY DEF Clear
<1>2. OwnerType'
  <2>1. 0 \in RunOrNone
    BY LiveCaptureAssumption DEF RunOrNone
  <2>2. clears' \in 0 .. MaxClears
    BY <1>1, LiveCaptureAssumption DEF OwnerInv, OwnerType
  <2> QED BY <1>1, <2>1, <2>2 DEF OwnerInv, OwnerType
<1>3. PendingInv'
  BY <1>1 DEF PendingInv
<1>4. \A x \in labels : x[1] <= owner.generation + 1 /\ x[1] # owner.generation + 1
  <2>1. \A x \in labels : x[1] \in Nat /\ x[1] <= owner.generation
    BY DEF OwnerInv, OwnerType, LabelInv
  <2> QED BY <2>1 DEF OwnerInv, OwnerType
<1>5. LabelInv'
  BY <1>1, <1>4 DEF OwnerInv, LabelInv, OneSessionPerGeneration
<1> QED BY <1>2, <1>3, <1>5 DEF OwnerInv

\* A frame of the mounted run is caught for the generation that is pending, or published.
LEMMA FrameOwner == ASSUME StageInv, WireInv, OwnerInv, Stays, Frame PROVE OwnerInv'
<1>1. /\ source # 0 /\ source = view.run /\ source \in Runs /\ UNCHANGED <<stage, clears>>
      /\ view'.run = view.run
  BY DEF Frame, WireInv, MessageInv, RunOrNone, Runs, Stays
<1>2. Active
  <2>1. stage[source] \in {"calling", "live", "over"}
    BY <1>1 DEF WireInv, HeldInv
  <2> QED BY <1>1, <2>1 DEF Active, StageInv
<1>3. CASE owner.pending # 0
  <2>1. owner' = [owner EXCEPT !.caught = source] /\ labels' = labels
    BY <1>3 DEF Frame
  <2>2. /\ owner' \in [generation : Nat, pending : Nat, caught : RunOrNone]
        /\ owner'.generation = owner.generation /\ owner'.pending = owner.pending
        /\ owner'.caught = source
    BY <1>1, <2>1 DEF OwnerInv, OwnerType, RunOrNone, Runs
  <2>3. OwnerType'
    BY <1>1, <2>1, <2>2 DEF OwnerInv, OwnerType
  <2>4. stage[source] = "calling" /\ Calling # {}
    <3>1. PICK k \in Runs : stage[k] = "calling"
      BY <1>3 DEF OwnerInv, PendingInv, Calling
    <3>2. view.run = k
      BY <1>2, <3>1, CallsAlone DEF Active
    <3> QED BY <1>1, <3>1, <3>2 DEF Calling
  <2>5. PendingInv'
    BY <1>1, <1>3, <2>2, <2>4 DEF OwnerInv, PendingInv, Calling
  <2>6. LabelInv'
    BY <1>3, <2>1, <2>2 DEF OwnerInv, LabelInv, OneSessionPerGeneration
  <2> QED BY <2>3, <2>5, <2>6 DEF OwnerInv
<1>4. CASE owner.pending = 0
  <2>1. owner' = owner /\ labels' = labels \cup {<<owner.generation, source>>}
    BY <1>4 DEF Frame
  <2> DEFINE new == <<owner.generation, source>>
  <2>2. new \in Nat \X Runs /\ new[1] = owner.generation /\ new[2] = view.run
        /\ new[1] <= owner.generation /\ labels' = labels \cup {new}
    BY <1>1, <2>1 DEF OwnerInv, OwnerType
  <2> HIDE DEF new
  <2>3. OwnerType'
    BY <1>1, <2>1, <2>2 DEF OwnerInv, OwnerType
  <2>4. PendingInv'
    BY <1>4, <2>1 DEF OwnerInv, PendingInv
  <2>5. \A x \in labels' : x[1] <= owner.generation /\ (x[1] = owner.generation => x[2] = view.run)
    BY <1>2, <1>4, <2>2 DEF OwnerInv, LabelInv
  <2>6. \A x, y \in labels' : x[1] = y[1] => x[2] = y[2]
    <3>1. \A x, y \in labels : x[1] = y[1] => x[2] = y[2]
      BY DEF OwnerInv, LabelInv, OneSessionPerGeneration
    <3> QED BY <2>2, <2>5, <3>1
  <2>7. LabelInv'
    BY <1>1, <2>1, <2>5, <2>6 DEF LabelInv, OneSessionPerGeneration
  <2> QED BY <2>3, <2>4, <2>7 DEF OwnerInv
<1> QED BY <1>3, <1>4

-----------------------------------------------------------------------------
(* The invariant and the theorems.                                         *)

LEMMA InitLive == Init => LiveInv
<1> SUFFICES ASSUME Init PROVE LiveInv
  OBVIOUS
<1>1. Coherent(view)
  <2>1. 0 \in 0 .. MaxRuns
    BY LiveCaptureAssumption
  <2>2. view \in Views
    BY <2>1 DEF Init, Views
  <2> QED BY <2>2 DEF Init, Coherent, Capturing
<1>2. view.run = 0 /\ view.begun = 0 /\ view.audio = 0 /\ view.stopped = 0
      /\ view.running = FALSE
  BY DEF Init
<1>3. \A k \in Runs : k > 0 /\ stage[k] = "unborn"
  BY DEF Init, Runs
<1>4. stage \in [Runs -> Stages]
  BY DEF Init, Stages
<1>5. StageInv
  BY <1>1, <1>2, <1>3, <1>4 DEF StageInv
<1>6. MessageInv
  <2>1. posted = <<>> /\ replies = <<>> /\ source = 0 /\ 0 \in RunOrNone
    BY LiveCaptureAssumption DEF Init, RunOrNone
  <2>2. <<>> \in Seq(Commands) /\ <<>> \in Seq(Answers) /\ NoStart(<<>>)
    BY DEF NoStart
  <2> QED BY <2>1, <2>2, NoStartIsWithin DEF MessageInv
<1>7. WireInv
  BY <1>2, <1>6 DEF Init, WireInv, MountedInv, HeldInv
<1>8. OwnerInv
  <2>1. owner = [generation |-> 0, pending |-> 0, caught |-> 0] /\ labels = {} /\ clears = 0
    BY DEF Init
  <2>2. 0 \in RunOrNone /\ 0 \in 0 .. MaxClears
    BY LiveCaptureAssumption DEF RunOrNone
  <2> QED BY <2>1, <2>2 DEF OwnerInv, OwnerType, PendingInv, LabelInv, OneSessionPerGeneration
<1> QED BY <1>5, <1>7, <1>8 DEF LiveInv

\* A step of the transport that leaves the owner alone.
LEMMA HaltedLive ==
  ASSUME LiveInv, StageInv', Halted, CallsKept, Hears({"started", "refused", "stopped"}),
         source' \in {source, 0}, UNCHANGED <<owner, labels, clears>>
  PROVE  LiveInv'
BY HaltedWire, HaltedOwner DEF LiveInv

LEMMA NextLive == LiveInv /\ [Next]_vars => LiveInv'
<1> SUFFICES ASSUME LiveInv, [Next]_vars PROVE LiveInv'
  OBVIOUS
<1> USE DEF LiveInv
<1>1. CASE Start
  BY <1>1, StepStart, HaltedLive DEF Start, Hears
<1>2. CASE Stop
  BY <1>2, StepStop, HaltedLive DEF Stop, Hears
<1>3. CASE SwitchToFile
  BY <1>3, StepSwitch, HaltedLive DEF SwitchToFile, Hears
<1>4. CASE SelectDevice
  BY <1>4, StepSelect, HaltedLive DEF SelectDevice, Hears
<1>5. CASE ChangeFormat
  BY <1>5, StepSelect, HaltedLive DEF ChangeFormat, Hears
<1>6. CASE Clear
  BY <1>6, StepFrameOrClear, ClearOwner
<1>7. ASSUME NEW invalidated \in BOOLEAN, EngineFails(invalidated) PROVE LiveInv'
  <2>1. UNCHANGED <<replies, owner, labels, clears>> /\ source' = 0
    BY <1>7 DEF EngineFails
  <2>2. CASE StageInv' /\ Halted /\ CallsKept
    BY <2>1, <2>2, HaltedLive DEF Hears
  <2>3. CASE /\ UNCHANGED <<view, stage, posted>>
             /\ view.run = 0 \/ stage[view.run] \notin {"calling", "live"}
    <3>1. StageInv' /\ WireInv'
      BY <2>1, <2>3, StepFailsUnheard
    <3>2. OwnerInv'
      BY <2>1, <2>3, OwnerKept DEF CallsKept, Active
    <3> QED BY <3>1, <3>2
  <2> QED BY <1>7, <2>2, <2>3, StepFails
<1>8. ASSUME NEW k \in Runs, Prepare(k) PROVE LiveInv'
  BY <1>8, StepPrepare, StaysOwner DEF Prepare
<1>9. ASSUME NEW k \in Runs, FailToPrepare(k) PROVE LiveInv'
  BY <1>9, StepFailToPrepare, HaltedLive DEF FailToPrepare, Hears
<1>10. ASSUME NEW k \in Runs, Begin(k) PROVE LiveInv'
  BY <1>10, StepBegin, BeginOwner
<1>11. CASE CarryOut
  <2>1. StageInv' /\ WireInv'
    BY <1>11, StepCarryOut
  <2>2. OwnerInv'
    BY <1>11, OwnerKept DEF CarryOut, CallsKept, Active
  <2> QED BY <2>1, <2>2
<1>12. CASE Answered
  <2> DEFINE k == Head(replies)[2]
  <2>1. /\ replies # <<>> /\ replies' = Tail(replies) /\ UNCHANGED <<source, clears>>
        /\ \/ Head(replies)[1] = "started" /\ (Started(k) \/ StartedTooLate(k))
           \/ Head(replies)[1] = "refused" /\ Refused(k)
           \/ Head(replies)[1] = "stopped" /\ Stopped(k)
    BY <1>12 DEF Answered
  <2>2. k \in Runs /\ Head(replies) = <<Head(replies)[1], k>>
    <3>1. replies \in Seq(Answers)
      BY DEF WireInv, MessageInv
    <3>2. Head(replies) \in Answers
      BY <2>1, <3>1, TailMessages
    <3> QED BY <3>2 DEF Answers
  <2> HIDE DEF k
  <2>3. CASE Head(replies) = <<"started", k>> /\ Started(k)
    BY <2>1, <2>2, <2>3, StepStarted, StartedOwner
  <2>4. CASE Head(replies) = <<"started", k>> /\ StartedTooLate(k)
    <3>1. /\ StageInv' /\ WireInv'
          /\ view'.run # 0 => stage'[view'.run] \notin {"calling", "live"}
      BY <2>1, <2>2, <2>4, StepStartedTooLate
    <3>2. OwnerInv'
      BY <2>1, <2>4, <3>1, AbortedOwner DEF StartedTooLate, Active
    <3> QED BY <3>1, <3>2
  <2>5. CASE Head(replies) = <<"refused", k>> /\ Refused(k)
    <3>1. StageInv' /\ WireInv' /\ Halted
      BY <2>1, <2>2, <2>5, StepRefused
    <3>2. ~Active'
      BY <3>1 DEF Active, Halted
    <3>3. OwnerInv'
      BY <2>1, <2>5, <3>2, AbortedOwner DEF Refused
    <3> QED BY <3>1, <3>3
  <2>6. CASE Head(replies) = <<"stopped", k>> /\ Stopped(k)
    <3>1. StageInv' /\ WireInv' /\ ((Halted /\ CallsKept) \/ Stays)
      BY <2>1, <2>2, <2>6, StepStopped
    <3>2. UNCHANGED <<owner, labels, clears>>
      BY <2>1, <2>6 DEF Stopped
    <3> QED BY <3>1, <3>2, HaltedOwner, StaysOwner
  <2> QED BY <2>1, <2>2, <2>3, <2>4, <2>5, <2>6
<1>13. CASE Frame
  BY <1>13, StepFrameOrClear, FrameOwner
<1>14. CASE UNCHANGED vars
  <2>1. UNCHANGED <<view, stage, posted, replies, source, owner, labels, clears>>
    BY <1>14 DEF vars, native
  <2>2. StageInv'
    BY <2>1 DEF StageInv
  <2>3. Stays
    BY <2>1 DEF Stays
  <2> QED BY <2>1, <2>2, <2>3, StaysWire, StaysOwner DEF Hears
<1> QED BY <1>1, <1>2, <1>3, <1>4, <1>5, <1>6, <1>7, <1>8, <1>9, <1>10, <1>11, <1>12, <1>13, <1>14
        DEF Next, UserStep, DeviceStep, RunStep, EngineStep

\* The invariant holds of every state that LiveCapture reaches.
THEOREM LiveInvariant == Spec => []LiveInv
<1> QED BY InitLive, NextLive, PTL DEF Spec

\* Capture keeps the shape of its state, with every run but the mounted one over or
\* forgotten and every restart that is under way waited for (useCaptureTransport.js,
\* useAudioEngine.js), however many runs begin.
THEOREM CaptureTyped == Spec => []TypeOK
<1>1. LiveInv => TypeOK
  BY DEF LiveInv, StageInv, WireInv, MessageInv, OwnerInv, OwnerType, TypeOK, Coherent, Views,
         Stages, Commands, Answers, RunOrNone
<1> QED BY <1>1, LiveInvariant, PTL

\* Whatever stops, starts, failures and changes of device crossed one another before, a transport
\* that says it runs, once the engine has settled, captures with the session of the run that is
\* mounted and holds it for the next stop (useAudioEngine.js).
THEOREM RunningCaptures == Spec => []RunningIsCapturing
<1>1. LiveInv => RunningIsCapturing
  <2> SUFFICES ASSUME LiveInv, Settled, view.lifecycle = "running"
               PROVE  /\ source = view.run /\ view.audio = view.run /\ view.stopped # view.run
    BY DEF RunningIsCapturing
  <2>1. view.run # 0 /\ view.run \in Runs /\ stage[view.run] # "over" /\ view.run = view.begun
    BY DEF LiveInv, StageInv, Coherent, Capturing, Views, Runs
  <2>2. stage[view.run] = "live"
    BY <2>1, LiveCaptureAssumption DEF LiveInv, StageInv, Settled, Stages, Coherent, Views
  <2> QED BY <2>1, <2>2 DEF LiveInv, WireInv, MountedInv
<1> QED BY <1>1, LiveInvariant, PTL

\* The records of a generation of the measurement all come from one native session, although
\* frames arrive before the answer to the start and the user clears the measurement at any
\* time (liveMeasurementOwner.js).
THEOREM GenerationsAreSessions == Spec => []OneSessionPerGeneration
<1>1. LiveInv => OneSessionPerGeneration
  BY DEF LiveInv, OwnerInv, LabelInv
<1> QED BY <1>1, LiveInvariant, PTL
=============================================================================
