----------------------- MODULE UpdateControllerProofs -----------------------
(***************************************************************************)
(* Proofs about UpdateController for every set of releases and every bound  *)
(* on the checks, the choices and the confirmed installations.              *)
(***************************************************************************)
EXTENDS UpdateController, TLAPS

(* The inductive invariant, in parts. *)

Jobs(phases) ==
  [phase : phases, auto : BOOLEAN, revoked : BOOLEAN, live : BOOLEAN,
   result : Versions \cup {None, Refused, Nothing}]
CheckPhases == {"idle", "called", "asking", "answered", "downloading"}
TransferPhases == {"idle", "called", "fetching", "fetched", "answered"}
Stages == {"none", "downloading", "preparing", "asking", "committing", "releasing", "exited",
           "failing", "aborting", "failed", "relaunched"}

\* The variables that are no jobs.
PlainShapes ==
  /\ {prefs, stored} \subseteq Preferences
  /\ {candidate, ready, cache, agreed, worker} \subseteq Versions \cup {None}
  /\ details = None \/ details \in [version : Versions, staged : BOOLEAN]
  /\ feed \in Versions \cup {0}
  /\ checkStatus \in {"idle", "checking", "ok", "unavailable"}
  /\ cancel \in {"idle", "called", "done", "refused"}

\* What a transfer names until it is answered is a release.
Transfers(job) ==
  /\ job \in Jobs(TransferPhases)
  /\ job.phase \in {"called", "fetching", "fetched"} => job.result \in Versions
  /\ job.phase = "answered" => job.result \in Versions \cup {Refused, Nothing}
JobShapes == checkJob \in Jobs(CheckPhases) /\ Transfers(transfer)

InstallShape == install \in [stage : Stages, attempted : BOOLEAN]

Shapes == PlainShapes /\ JobShapes /\ InstallShape

\* Every transfer has the owner that waits for it, and nothing waits before the
\* status has been read.
Owned ==
  /\ transfer.phase = "idle" => ~downloading
  /\ transfer.phase # "idle" /\ transfer.auto <=> checkJob.phase = "downloading"
  /\ transfer.phase # "idle" /\ ~transfer.auto <=> install.stage = "downloading"
  /\ ~available => checkJob.phase = "idle"

\* What each stage of an installation finds of the helper and of the operation.
Staging ==
  /\ install.stage \in {"none", "downloading", "preparing", "failed", "relaunched"}
       => worker = None /\ operation = "none"
  /\ install.stage = "asking" => worker # None /\ operation = "none"
  /\ install.stage = "committing" => worker # None /\ operation = "prepared"
  /\ install.stage \in {"releasing", "exited"} => worker # None /\ operation = "committed"
  /\ install.stage = "aborting" => worker = None

\* The details are frozen while they are being installed.
Frozen ==
  /\ Confirming => details \in [version : Versions, staged : BOOLEAN] /\ details.version = agreed
  /\ worker # None => worker = agreed

\* A withdrawal that has been carried out still holds, and has disowned what
\* had been fetched without being published.
Disowned ==
  /\ withdrawn => ~Downloads(prefs)
  /\ transfer.phase = "fetched" /\ transfer.auto /\ transfer.live => ~withdrawn
  /\ ConsentWithdrawn

ControllerInv == Shapes /\ Owned /\ Staging /\ Frozen /\ Disowned

-----------------------------------------------------------------------------
LEMMA InitController == Init => ControllerInv
  BY UpdateControllerAssumption
  DEF Init, ControllerInv, Shapes, PlainShapes, JobShapes, Transfers, InstallShape, Owned, Staging,
      Frozen, Disowned, ConsentWithdrawn, Jobs, CheckPhases, TransferPhases, Stages, NoJob,
      Preferences, Confirming, Downloads

-----------------------------------------------------------------------------
(* The shapes. First what the steps make of a job.                         *)

LEMMA JobShape ==
  ASSUME NEW auto \in BOOLEAN, NEW version \in Versions \cup {None}
  PROVE  /\ Job(auto, version) \in Jobs(CheckPhases) /\ Job(auto, version) \in Jobs(TransferPhases)
         /\ Job(auto, version).phase = "called" /\ Job(auto, version).auto = auto
         /\ Job(auto, version).result = version
  BY DEF Job, NoJob, Jobs, CheckPhases, TransferPhases

LEMMA NoJobShape ==
  NoJob \in Jobs(CheckPhases) /\ NoJob \in Jobs(TransferPhases) /\ NoJob.phase = "idle"
  BY DEF NoJob, Jobs, CheckPhases, TransferPhases

LEMMA OutdatedShape ==
  ASSUME NEW phases, NEW job \in Jobs(phases)
  PROVE  /\ Outdated(job) \in Jobs(phases)
         /\ Outdated(job).phase = job.phase /\ Outdated(job).auto = job.auto
         /\ Outdated(job).live = job.live /\ Outdated(job).result = job.result
  BY DEF Outdated, Jobs

LEMMA PhaseShape ==
  ASSUME NEW phases, NEW job \in Jobs(phases), NEW phase \in phases
  PROVE  LET next == [job EXCEPT !.phase = phase]
         IN  /\ next \in Jobs(phases) /\ next.phase = phase
             /\ next.auto = job.auto /\ next.live = job.live /\ next.result = job.result
  BY DEF Jobs

LEMMA AnswerShape ==
  ASSUME NEW phases, NEW job \in Jobs(phases), NEW phase \in phases,
         NEW result \in Versions \cup {None, Refused, Nothing}
  PROVE  LET next == [job EXCEPT !.phase = phase, !.result = result]
         IN  /\ next \in Jobs(phases) /\ next.phase = phase
             /\ next.auto = job.auto /\ next.live = job.live /\ next.result = result
  BY DEF Jobs

\* The same of a transfer.
LEMMA TransferAnswers ==
  ASSUME NEW job, Transfers(job), NEW result \in Versions \cup {Refused, Nothing}
  PROVE  Transfers([job EXCEPT !.phase = "answered", !.result = result])
<1> DEFINE next == [job EXCEPT !.phase = "answered", !.result = result]
<1>1. job \in Jobs(TransferPhases) /\ "answered" \in TransferPhases
  BY DEF Transfers, TransferPhases
<1>2. next \in Jobs(TransferPhases) /\ next.phase = "answered" /\ next.result = result
  BY <1>1 DEF Jobs
<1> QED
  BY <1>2 DEF Transfers

LEMMA LiveShape ==
  ASSUME NEW phases, NEW job \in Jobs(phases), NEW phase \in phases
  PROVE  LET next == [job EXCEPT !.phase = phase, !.live = TRUE]
         IN  /\ next \in Jobs(phases) /\ next.phase = phase
             /\ next.auto = job.auto /\ next.result = job.result
  BY DEF Jobs

LEMMA DeadShape ==
  ASSUME NEW phases, NEW job \in Jobs(phases)
  PROVE  LET next == [job EXCEPT !.live = FALSE]
         IN  /\ next \in Jobs(phases) /\ next.phase = job.phase /\ ~next.live
             /\ next.auto = job.auto /\ next.result = job.result
  BY DEF Jobs

LEMMA CheckShape ==
  ASSUME NEW auto \in BOOLEAN, Check(auto)
  PROVE  checkJob' \in Jobs(CheckPhases) /\ checkJob'.phase = "called" /\ checkStatus' = "checking"
  BY JobShape DEF Check

\* What an automatic check finds is what it downloads.
LEMMA FetchedIsVersion ==
  ASSUME JobShapes, NEW version, FetchesAutomatically(version),
         version = IF checkJob.result = Nothing THEN None ELSE checkJob.result,
         checkJob.result # Refused
  PROVE  version \in Versions
  BY DEF JobShapes, FetchesAutomatically, Jobs

LEMMA NextPlain == ASSUME PlainShapes, JobShapes, Next PROVE PlainShapes'
<1> USE DEF PlainShapes, shown, native, installing
<1>1. ASSUME NEW auto \in BOOLEAN, Check(auto), Initialize \/ TimerCheck \/ CheckNow
      PROVE  PlainShapes'
  BY <1>1, CheckShape DEF Initialize, TimerCheck, CheckNow
<1>2. CASE Initialize /\ ~Checks(prefs)
  BY <1>2 DEF Initialize
<1>3. CASE CheckAnswered
  <2>1. candidate' \in Versions \cup {None}
    BY <1>3 DEF CheckAnswered, JobShapes, Jobs
  <2>2. checkStatus' \in {checkStatus, "unavailable", "ok"}
    BY <1>3 DEF CheckAnswered
  <2> QED
    BY <1>3, <2>1, <2>2 DEF CheckAnswered
<1>4. CASE Publish
  <2>1. cache' \in Versions \cup {None}
    BY <1>4 DEF Publish, JobShapes, Transfers
  <2> QED
    BY <1>4, <2>1 DEF Publish
<1>5. CASE Downloaded
  <2>1. ready' \in Versions \cup {None}
    BY <1>5 DEF Downloaded, JobShapes, Transfers
  <2>2. details' = None \/ details' \in [version : Versions, staged : BOOLEAN]
    BY <1>5 DEF Downloaded, Promoted
  <2> QED
    BY <1>5, <2>1, <2>2 DEF Downloaded
<1>6. ASSUME NEW p \in Preferences, Choose(p) PROVE PlainShapes'
  <2>1. checkStatus' \in {checkStatus, "checking"}
    BY <1>6 DEF Choose, Check
  <2>2. cancel' \in {"idle", "called"}
    BY <1>6 DEF Choose
  <2> QED
    BY <1>6, <2>1, <2>2 DEF Choose
<1>7. CASE FlushPreferences \/ CancelAnswered \/ Release \/ DismissDetails
  BY <1>7 DEF FlushPreferences, CancelAnswered, Release, DismissDetails
<1>8. CASE CancelUpdate
  <2>1. cache' \in {cache, None} /\ cancel' \in {"refused", "done"}
    BY <1>8 DEF CancelUpdate
  <2> QED
    BY <1>8, <2>1 DEF CancelUpdate
<1>9. CASE OpenDetails
  <2>1. PICK version \in Versions, staged \in BOOLEAN :
          details' = [version |-> version, staged |-> staged]
    BY <1>9 DEF OpenDetails
  <2> QED
    BY <1>9, <2>1 DEF OpenDetails
<1>10. CASE ConfirmInstall
  <2>1. agreed' \in Versions
    BY <1>10 DEF ConfirmInstall
  <2> QED
    BY <1>10, <2>1 DEF ConfirmInstall
<1>11. CASE PrepareInstall \/ AbortInstall
  <2>1. worker' \in {worker, cache, None}
    BY <1>11 DEF PrepareInstall, AbortInstall, HelperAborted
  <2> QED
    BY <1>11, <2>1 DEF PrepareInstall, AbortInstall
<1>12. CASE UNCHANGED <<prefs, stored, shown, agreed, feed, cache, worker, cancel>>
  BY <1>12
<1> QED
  BY <1>1, <1>2, <1>3, <1>4, <1>5, <1>6, <1>7, <1>8, <1>9, <1>10, <1>11, <1>12
  DEF Next, CheckStep, TransferStep, PreferenceStep, InstallStep, Initialize, TimerCheck, CheckNow,
      AskFeed, FeedAnswers, FetchPackage, PackageFetched, PrepareOperation, CommitOperation,
      CommitInstall, AbortOperation, Recover

LEMMA NextJobs == ASSUME PlainShapes, JobShapes, Next PROVE JobShapes'
<1> USE DEF JobShapes
<1>1. ASSUME NEW auto \in BOOLEAN, Check(auto), UNCHANGED transfer PROVE JobShapes'
  BY <1>1, CheckShape
<1>2. CASE AskFeed
  <2>1. checkJob' \in Jobs(CheckPhases)
    BY <1>2, AnswerShape, LiveShape DEF AskFeed, CheckPhases
  <2> QED
    BY <1>2, <2>1 DEF AskFeed
<1>3. CASE FeedAnswers
  <2>1. feed \in Versions \cup {None, Refused, Nothing}
    BY DEF PlainShapes, Nothing
  <2>2. PICK result \in Versions \cup {None, Refused, Nothing} :
          checkJob' = [checkJob EXCEPT !.phase = "answered", !.result = result]
    BY <1>3, <2>1 DEF FeedAnswers
  <2>3. checkJob' \in Jobs(CheckPhases)
    BY <2>2, AnswerShape DEF CheckPhases
  <2> QED
    BY <1>3, <2>3 DEF FeedAnswers
<1>4. CASE CheckAnswered
  <2>1. CASE checkJob' = NoJob /\ UNCHANGED transfer
    BY <2>1, NoJobShape
  <2>2. CASE ~(checkJob' = NoJob /\ UNCHANGED transfer)
    <3> DEFINE version == IF checkJob.result = Nothing THEN None ELSE checkJob.result
    <3>1. /\ checkJob.result # Refused /\ FetchesAutomatically(version) /\ Download(TRUE, version)
          /\ checkJob' = [checkJob EXCEPT !.phase = "downloading"]
      BY <1>4, <2>2 DEF CheckAnswered
    <3>2. version \in Versions
      BY <3>1, FetchedIsVersion
    <3>3. checkJob' \in Jobs(CheckPhases)
      BY <3>1, PhaseShape DEF CheckPhases
    <3>4. Transfers(transfer')
      BY <3>1, <3>2, JobShape DEF Download, Transfers
    <3> QED
      BY <3>3, <3>4 DEF Transfers
  <2> QED
    BY <2>1, <2>2
<1>5. CASE FetchPackage
  <2>1. CASE transfer' = [transfer EXCEPT !.phase = "answered", !.result = Refused]
    <3>1. Transfers(transfer')
      BY <2>1, TransferAnswers
    <3> QED
      BY <1>5, <3>1 DEF FetchPackage, Transfers
  <2>2. CASE transfer' = [transfer EXCEPT !.phase = "fetching", !.live = TRUE]
    <3>1. /\ transfer' \in Jobs(TransferPhases) /\ transfer'.phase = "fetching"
          /\ transfer'.result = transfer.result
      BY <2>2 DEF Transfers, Jobs, TransferPhases
    <3> QED
      BY <1>5, <3>1 DEF FetchPackage, Transfers
  <2> QED
    BY <1>5, <2>1, <2>2 DEF FetchPackage
<1>6. CASE PackageFetched
  <2>1. CASE transfer' = [transfer EXCEPT !.phase = "answered", !.result = Refused]
    BY <1>6, <2>1, TransferAnswers DEF PackageFetched, Transfers
  <2>2. CASE transfer' = [transfer EXCEPT !.phase = "fetched"]
    BY <1>6, <2>2, PhaseShape DEF PackageFetched, TransferPhases, Transfers
  <2> QED
    BY <1>6, <2>1, <2>2 DEF PackageFetched
<1>7. CASE Publish
  <2>1. CASE transfer' = [transfer EXCEPT !.phase = "answered"]
    BY <1>7, <2>1, PhaseShape DEF Publish, TransferPhases, Transfers
  <2>2. CASE transfer' = [transfer EXCEPT !.phase = "answered", !.result = Nothing]
    BY <1>7, <2>2, TransferAnswers DEF Publish, Transfers
  <2> QED
    BY <1>7, <2>1, <2>2 DEF Publish
<1>8. CASE Downloaded
  BY <1>8, NoJobShape DEF Downloaded, Transfers
<1>9. ASSUME NEW p \in Preferences, Choose(p) PROVE JobShapes'
  <2>1. checkJob' \in Jobs(CheckPhases)
    BY <1>9, OutdatedShape, CheckShape DEF Choose
  <2>2. Transfers(transfer')
    BY <1>9, OutdatedShape DEF Choose, Transfers
  <2> QED
    BY <2>1, <2>2 DEF Transfers
<1>10. CASE CancelUpdate
  <2>1. checkJob' \in Jobs(CheckPhases)
    BY <1>10, DeadShape DEF CancelUpdate
  <2>2. Transfers(transfer')
    BY <1>10, DeadShape DEF CancelUpdate, Transfers
  <2> QED
    BY <2>1, <2>2 DEF Transfers
<1>11. CASE ConfirmInstall
  <2>1. details.version \in Versions
    BY <1>11 DEF ConfirmInstall, PlainShapes
  <2>2. Transfers(transfer')
    BY <1>11, <2>1, JobShape DEF ConfirmInstall, Download, Transfers
  <2> QED
    BY <1>11, <2>2 DEF ConfirmInstall, Transfers
<1>12. CASE UNCHANGED <<checkJob, transfer>>
  BY <1>12 DEF Transfers
<1> QED
  BY <1>1, <1>2, <1>3, <1>4, <1>5, <1>6, <1>7, <1>8, <1>9, <1>10, <1>11, <1>12
  DEF Next, CheckStep, TransferStep, PreferenceStep, InstallStep, Initialize, TimerCheck, CheckNow,
      FlushPreferences, CancelAnswered, Release, OpenDetails, DismissDetails, PrepareInstall,
      PrepareOperation, CommitOperation, CommitInstall, AbortInstall, AbortOperation, Recover

LEMMA AdvanceShape ==
  ASSUME InstallShape, NEW stage \in Stages, Advance(stage)
  PROVE  InstallShape' /\ install'.stage = stage
  BY DEF InstallShape, Advance

LEMMA FailsShape == ASSUME InstallShape, Fails PROVE InstallShape' /\ install'.stage = "failing"
  BY AdvanceShape DEF Fails, Stages

LEMMA NextInstall == ASSUME InstallShape, Next PROVE InstallShape'
<1> USE DEF InstallShape
<1>1. CASE Downloaded
  <2>1. CASE \E stage \in {"preparing", "failing"} : install' = [install EXCEPT !.stage = stage]
    BY <2>1, AdvanceShape DEF Advance, Stages
  <2> QED
    BY <1>1, <2>1 DEF Downloaded
<1>4. ASSUME NEW stage \in Stages, NEW attempted \in BOOLEAN,
             install' = [stage |-> stage, attempted |-> attempted]
      PROVE  InstallShape'
  BY <1>4
<1>5. CASE ConfirmInstall \/ PrepareOperation \/ Recover
  <2>1. "preparing" \in Stages /\ "downloading" \in Stages /\ "committing" \in Stages
        /\ "none" \in Stages /\ "relaunched" \in Stages
    BY DEF Stages
  <2>2. CASE ConfirmInstall
    BY <1>4, <2>1, <2>2 DEF ConfirmInstall
  <2>3. CASE PrepareOperation
    BY <1>4, <2>1, <2>3, FailsShape DEF PrepareOperation
  <2>4. CASE Recover
    BY <1>4, <2>1, <2>4, AdvanceShape DEF Recover
  <2> QED
    BY <1>5, <2>2, <2>3, <2>4
<1>2. CASE PrepareInstall \/ CommitOperation \/ CommitInstall \/ AbortInstall \/ AbortOperation
  BY <1>2, FailsShape, AdvanceShape
  DEF PrepareInstall, CommitOperation, CommitInstall, AbortInstall, AbortOperation, Stages
<1>3. CASE UNCHANGED install
  BY <1>3
<1> QED
  BY <1>1, <1>2, <1>3, <1>4, <1>5
  DEF Next, CheckStep, TransferStep, PreferenceStep, InstallStep, Initialize, TimerCheck, CheckNow,
      AskFeed, FeedAnswers, CheckAnswered, FetchPackage, PackageFetched, Publish, Choose,
      FlushPreferences, CancelUpdate, CancelAnswered, Release, OpenDetails, DismissDetails,
      installing

-----------------------------------------------------------------------------
(* What a step leaves alone.                                               *)

\* Outside confirmInstall an installation only moves when its download is over.
LEMMA InstallMoves ==
  ASSUME Next
  PROVE  InstallStep \/ ConfirmInstall \/ Downloaded \/ UNCHANGED <<install, operation, worker, agreed>>
  BY DEF Next, CheckStep, TransferStep, PreferenceStep, Initialize, TimerCheck, CheckNow, AskFeed,
         FeedAnswers, CheckAnswered, FetchPackage, PackageFetched, Publish, Choose,
         FlushPreferences, CancelUpdate, CancelAnswered, Release, OpenDetails, DismissDetails,
         installing, native

LEMMA NextStaging == ASSUME Shapes, Owned, Frozen, Staging, Next PROVE Staging'
<1>0. /\ install \in [stage : Stages, attempted : BOOLEAN]
      /\ \A stage : [install EXCEPT !.stage = stage].stage = stage
  BY DEF Shapes, InstallShape
<1> USE <1>0 DEF Staging
<1>1. CASE ConfirmInstall
  <2>1. install.stage = "none" /\ install'.stage \in {"downloading", "preparing"}
    BY <1>1 DEF ConfirmInstall, Confirming
  <2> QED
    BY <1>1, <2>1 DEF ConfirmInstall, native
<1>2. CASE Downloaded
  <2>1. UNCHANGED <<operation, worker>>
    BY <1>2 DEF Downloaded, native
  <2>2. CASE transfer.auto
    BY <1>2, <2>1, <2>2 DEF Downloaded
  <2>3. CASE ~transfer.auto
    <3>1. install.stage = "downloading"
      BY <1>2, <2>3 DEF Downloaded, Owned
    <3>2. install'.stage \in {"preparing", "failing"}
      BY <1>2, <2>3 DEF Downloaded
    <3> QED
      BY <2>1, <3>1, <3>2
  <2> QED
    BY <2>2, <2>3
<1>3. CASE PrepareInstall
  <2>1. details.version \in Versions /\ details.version # None
    BY <1>3, UpdateControllerAssumption
    DEF PrepareInstall, Frozen, Confirming, Shapes, PlainShapes
  <2> QED
    BY <1>3, <2>1 DEF PrepareInstall, Loads, Fails, Advance
<1>4. CASE PrepareOperation
  BY <1>4 DEF PrepareOperation, Fails, Advance, native
<1>5. CASE CommitOperation
  BY <1>5 DEF CommitOperation, Fails, Advance, native
<1>6. CASE CommitInstall
  BY <1>6 DEF CommitInstall, Fails, Advance, native
<1>7. CASE AbortInstall
  BY <1>7 DEF AbortInstall, HelperAborted, Advance
<1>8. CASE AbortOperation
  BY <1>8 DEF AbortOperation, Advance, native
<1>9. CASE Recover
  BY <1>9 DEF Recover, Advance, native
<1>10. CASE UNCHANGED <<install, operation, worker, agreed>>
  BY <1>10
<1> QED
  BY <1>1, <1>2, <1>3, <1>4, <1>5, <1>6, <1>7, <1>8, <1>9, <1>10, InstallMoves DEF InstallStep

LEMMA NextFrozen == ASSUME Shapes, Owned, Staging, Frozen, Next PROVE Frozen'
<1>0. /\ install \in [stage : Stages, attempted : BOOLEAN]
      /\ \A stage : [install EXCEPT !.stage = stage].stage = stage
  BY DEF Shapes, InstallShape
<1> USE DEF Frozen, Confirming
<1>1. CASE ConfirmInstall
  <2>1. details' = details /\ details \in [version : Versions, staged : BOOLEAN]
    BY <1>1 DEF ConfirmInstall, Shapes, PlainShapes
  <2>2. agreed' = details.version /\ worker' = None
    BY <1>1 DEF ConfirmInstall, Staging, native
  <2> QED
    BY <2>1, <2>2
<1>2. CASE Downloaded
  <2>1. details \in [version : Versions, staged : BOOLEAN]
          => details' \in [version : Versions, staged : BOOLEAN] /\ details'.version = details.version
    BY <1>2 DEF Downloaded, Promoted
  <2>2. install'.stage # "none" => install.stage # "none"
    BY <1>2 DEF Downloaded, Owned
  <2> QED
    BY <1>2, <2>1, <2>2 DEF Downloaded, native
<1>3. CASE PrepareInstall
  BY <1>0, <1>3 DEF PrepareInstall, Loads, Fails, Advance, shown
<1>4. CASE PrepareOperation \/ CommitOperation \/ CommitInstall \/ AbortOperation \/ Recover
  <2>1. install'.stage # "none" => install.stage # "none"
    BY <1>4 DEF PrepareOperation, CommitOperation, CommitInstall, AbortOperation, Recover
  <2>2. UNCHANGED <<details, agreed, worker>>
    BY <1>4 DEF PrepareOperation, CommitOperation, CommitInstall, AbortOperation, Recover, shown, native
  <2> QED
    BY <2>1, <2>2
<1>5. CASE AbortInstall
  BY <1>0, <1>5 DEF AbortInstall, HelperAborted, Advance, shown
<1>6. CASE UNCHANGED <<install, operation, worker, agreed>> /\ ~InstallStep /\ ~Downloaded /\ ~ConfirmInstall
  <2>1. details' = details \/ install.stage = "none"
    BY <1>6 DEF Next, CheckStep, TransferStep, PreferenceStep, Initialize, TimerCheck, CheckNow,
         AskFeed, FeedAnswers, CheckAnswered, FetchPackage, PackageFetched, Publish, Choose,
         FlushPreferences, CancelUpdate, CancelAnswered, Release, OpenDetails, DismissDetails, shown
  <2> QED
    BY <1>6, <2>1
<1> QED
  BY <1>1, <1>2, <1>3, <1>4, <1>5, <1>6, InstallMoves DEF InstallStep

LEMMA NextDisowned == ASSUME Shapes, Disowned, Next PROVE Disowned'
<1> USE DEF Disowned, ConsentWithdrawn
<1>0. transfer \in Jobs(TransferPhases)
  BY DEF Shapes, JobShapes, Transfers
<1>1. ASSUME UNCHANGED native, UNCHANGED prefs,
             transfer'.phase = "fetched" => UNCHANGED transfer
      PROVE  Disowned'
  BY <1>1 DEF native
<1>2. CASE UNCHANGED <<native, prefs, transfer>>
  BY <1>1, <1>2
<1>3. ASSUME NEW version, Download(TRUE, version) \/ Download(FALSE, version)
      PROVE  transfer'.phase = "called"
  BY <1>3 DEF Download, Job, NoJob
<1>4. CASE CheckAnswered
  BY <1>1, <1>3, <1>4 DEF CheckAnswered
<1>5. CASE FetchPackage
  <2>1. transfer'.phase \in {"answered", "fetching"}
    BY <1>0, <1>5 DEF FetchPackage, Jobs
  <2> QED
    BY <1>1, <1>5, <2>1 DEF FetchPackage
<1>6. CASE PackageFetched
  <2>1. CASE transfer' = [transfer EXCEPT !.phase = "answered", !.result = Refused]
    <3>1. transfer'.phase = "answered"
      BY <1>0, <2>1 DEF Jobs
    <3> QED
      BY <1>1, <1>6, <3>1 DEF PackageFetched
  <2>2. CASE transfer' = [transfer EXCEPT !.phase = "fetched"] /\ (transfer.auto => Downloads(stored))
    <3>1. transfer'.auto = transfer.auto
      BY <1>0, <2>2 DEF Jobs
    <3> QED
      BY <1>6, <2>2, <3>1 DEF PackageFetched, native
  <2> QED
    BY <1>6, <2>1, <2>2 DEF PackageFetched
<1>7. CASE Publish
  <2>1. transfer'.phase = "answered"
    BY <1>0, <1>7 DEF Publish, Jobs
  <2>2. UNCHANGED <<prefs, withdrawn>>
    BY <1>7 DEF Publish
  <2>3. withdrawn' => cache' = None \/ ~automatic'
    BY <1>7 DEF Publish, Publishable
  <2> QED
    BY <2>1, <2>2, <2>3
<1>8. CASE Downloaded
  <2>1. transfer'.phase = "idle"
    BY <1>8 DEF Downloaded, NoJob
  <2> QED
    BY <1>1, <1>8, <2>1 DEF Downloaded
<1>9. ASSUME NEW p \in Preferences, Choose(p) PROVE Disowned'
  <2>1. /\ transfer'.phase = transfer.phase /\ transfer'.auto = transfer.auto
        /\ transfer'.live = transfer.live
    BY <1>0, <1>9, OutdatedShape DEF Choose
  <2> QED
    BY <1>9, <2>1 DEF Choose
<1>10. CASE FlushPreferences
  BY <1>10 DEF FlushPreferences
<1>11. CASE CancelUpdate
  <2>1. CASE worker # None
    BY <1>11, <2>1 DEF CancelUpdate
  <2>2. CASE worker = None
    <3>1. ~transfer'.live
      BY <1>0, <1>11, <2>2 DEF CancelUpdate, Jobs
    <3> QED
      BY <1>11, <2>2, <3>1 DEF CancelUpdate
  <2> QED
    BY <2>1, <2>2
<1>12. CASE ConfirmInstall
  BY <1>1, <1>3, <1>12 DEF ConfirmInstall
<1>13. CASE UNCHANGED <<prefs, withdrawn, cache, automatic, transfer>>
  BY <1>13
<1> QED
  BY <1>2, <1>4, <1>5, <1>6, <1>7, <1>8, <1>9, <1>10, <1>11, <1>12, <1>13
  DEF Next, CheckStep, TransferStep, PreferenceStep, InstallStep, Initialize, TimerCheck, CheckNow,
      AskFeed, FeedAnswers, CancelAnswered, OpenDetails, DismissDetails, PrepareInstall,
      PrepareOperation, CommitOperation, CommitInstall, AbortInstall, AbortOperation, Recover, Release

LEMMA NextOwned == ASSUME Shapes, Owned, Next PROVE Owned'
<1> USE DEF Owned
<1>0. /\ checkJob \in Jobs(CheckPhases) /\ transfer \in Jobs(TransferPhases)
      /\ install \in [stage : Stages, attempted : BOOLEAN]
  BY DEF Shapes, JobShapes, Transfers, InstallShape
<1>1. ASSUME NEW auto \in BOOLEAN, Check(auto), checkJob.phase = "idle",
             UNCHANGED <<transfer, downloading, install>>, available'
      PROVE  Owned'
  BY <1>1, CheckShape
\* Steps of one phase to another that keep the owner.
<1>2. ASSUME UNCHANGED <<available, downloading>>,
             checkJob'.phase = checkJob.phase \/ (checkJob'.phase # "downloading" /\ checkJob.phase \notin {"idle", "downloading"}),
             (transfer'.phase = "idle") = (transfer.phase = "idle"), transfer'.auto = transfer.auto,
             (install'.stage = "downloading") = (install.stage = "downloading")
      PROVE  Owned'
  BY <1>2
<1>3. CASE AskFeed \/ FeedAnswers
  <2>1. /\ checkJob'.phase # "downloading" /\ checkJob.phase \notin {"idle", "downloading"}
        /\ UNCHANGED <<available, downloading, transfer, install>>
    BY <1>0, <1>3 DEF AskFeed, FeedAnswers, Jobs, shown, installing
  <2> QED
    BY <1>2, <2>1
<1>4. CASE CheckAnswered
  <2>1. CASE checkJob' = NoJob /\ UNCHANGED <<transfer, downloading>>
    <3>1. checkJob'.phase = "idle"
      BY <2>1, NoJobShape
    <3> QED
      BY <1>4, <2>1, <3>1 DEF CheckAnswered, installing
  <2>2. CASE ~(checkJob' = NoJob /\ UNCHANGED <<transfer, downloading>>)
    <3> DEFINE version == IF checkJob.result = Nothing THEN None ELSE checkJob.result
    <3>1. /\ checkJob.result # Refused /\ FetchesAutomatically(version) /\ Download(TRUE, version)
          /\ checkJob' = [checkJob EXCEPT !.phase = "downloading"]
      BY <1>4, <2>2 DEF CheckAnswered
    <3>2. version \in Versions
      BY <3>1, FetchedIsVersion DEF Shapes
    <3>3. transfer'.phase = "called" /\ transfer'.auto
      BY <3>1, <3>2, JobShape DEF Download
    <3>4. transfer.phase = "idle" /\ checkJob'.phase = "downloading"
      BY <1>0, <3>1 DEF FetchesAutomatically, Jobs
    <3> QED
      BY <1>4, <3>3, <3>4 DEF CheckAnswered, installing
  <2> QED
    BY <2>1, <2>2
<1>5. CASE FetchPackage \/ PackageFetched \/ Publish
  <2>1. /\ transfer.phase # "idle" /\ transfer'.phase # "idle" /\ transfer'.auto = transfer.auto
        /\ UNCHANGED <<available, downloading, checkJob, install>>
    BY <1>0, <1>5 DEF FetchPackage, PackageFetched, Publish, Jobs, shown, installing
  <2> QED
    BY <1>2, <2>1
<1>6. CASE Downloaded
  <2>1. transfer'.phase = "idle" /\ ~downloading' /\ UNCHANGED available
    BY <1>6, NoJobShape DEF Downloaded
  <2>2. CASE transfer.auto
    BY <1>6, <2>1, <2>2, NoJobShape DEF Downloaded
  <2>3. CASE ~transfer.auto
    <3>1. install'.stage # "downloading"
      BY <1>0, <1>6, <2>3 DEF Downloaded
    <3> QED
      BY <1>6, <2>1, <2>3, <3>1 DEF Downloaded
  <2> QED
    BY <2>2, <2>3
<1>7. ASSUME NEW p \in Preferences, Choose(p) PROVE Owned'
  <2>1. CASE available /\ Revokes(p)
    <3>1. /\ checkJob'.phase = checkJob.phase /\ transfer'.phase = transfer.phase
          /\ transfer'.auto = transfer.auto
      BY <1>0, <1>7, <2>1, OutdatedShape DEF Choose
    <3> QED
      BY <1>2, <1>7, <3>1 DEF Choose, installing
  <2>2. CASE available /\ ~Revokes(p) /\ ~Checking
    BY <1>1, <1>7, <2>2 DEF Choose, Checking, installing
  <2>3. CASE UNCHANGED <<checkJob, transfer>>
    BY <1>7, <2>3 DEF Choose, installing
  <2> QED
    BY <1>7, <2>1, <2>2, <2>3 DEF Choose
<1>8. CASE CancelUpdate
  <2>1. /\ checkJob'.phase = checkJob.phase /\ transfer'.phase = transfer.phase
        /\ transfer'.auto = transfer.auto
    BY <1>0, <1>8, DeadShape DEF CancelUpdate
  <2> QED
    BY <1>2, <1>8, <2>1 DEF CancelUpdate, shown, installing
<1>9. CASE CancelAnswered
  BY <1>9 DEF CancelAnswered, installing
<1>10. CASE ConfirmInstall
  <2>1. transfer.phase = "idle" /\ install.stage = "none" /\ checkJob' = checkJob /\ UNCHANGED available
    BY <1>10 DEF ConfirmInstall, Confirming
  <2>2. CASE details.staged
    BY <1>10, <2>1, <2>2 DEF ConfirmInstall
  <2>3. CASE ~details.staged
    <3>1. transfer'.phase = "called" /\ ~transfer'.auto
      BY <1>10, <2>3 DEF ConfirmInstall, Download, Job, NoJob
    <3> QED
      BY <1>10, <2>1, <2>3, <3>1 DEF ConfirmInstall
  <2> QED
    BY <2>2, <2>3
<1>11. CASE InstallStep
  <2>0. \A stage : [install EXCEPT !.stage = stage].stage = stage
    BY <1>0
  <2>1. install.stage # "downloading" /\ install'.stage # "downloading"
    <3>1. CASE PrepareInstall \/ CommitOperation \/ CommitInstall \/ AbortInstall \/ AbortOperation
      BY <2>0, <3>1
      DEF PrepareInstall, CommitOperation, CommitInstall, AbortInstall, AbortOperation, Fails, Advance
    <3>2. CASE PrepareOperation
      <4>1. install'.stage \in {"committing", "failing"}
        BY <3>2, FailsShape DEF PrepareOperation, Shapes
      <4> QED
        BY <3>2, <4>1 DEF PrepareOperation
    <3>3. CASE Recover
      <4>1. install'.stage \in {"none", "relaunched"}
        BY <3>3, AdvanceShape DEF Recover, Shapes, Stages
      <4> QED
        BY <3>3, <4>1 DEF Recover
    <3> QED
      BY <1>11, <3>1, <3>2, <3>3 DEF InstallStep
  <2>2. UNCHANGED <<available, downloading, checkJob, transfer>>
    BY <1>11
    DEF InstallStep, PrepareInstall, PrepareOperation, CommitOperation, CommitInstall, AbortInstall,
        AbortOperation, Recover, shown
  <2> QED
    BY <1>2, <2>1, <2>2
<1>12. CASE Initialize
  <2>1. checkJob.phase = "idle" /\ available' /\ UNCHANGED <<transfer, downloading, install>>
    BY <1>12 DEF Initialize, installing
  <2>2. CASE Checks(prefs)
    <3>1. Check(TRUE)
      BY <1>12, <2>2 DEF Initialize
    <3> QED
      BY <1>1, <2>1, <3>1
  <2>3. CASE ~Checks(prefs)
    BY <1>12, <2>1, <2>3 DEF Initialize
  <2> QED
    BY <2>2, <2>3
<1>13. CASE TimerCheck \/ CheckNow
  <2>1. checkJob.phase = "idle" /\ available' /\ UNCHANGED <<transfer, downloading, install>>
    <3>1. available /\ available' = available
      BY <1>13 DEF TimerCheck, CheckNow
    <3>2. checkJob.phase = "idle" /\ UNCHANGED <<transfer, downloading, install>>
      BY <1>13 DEF TimerCheck, CheckNow, Checking, installing
    <3> QED
      BY <3>1, <3>2
  <2>2. Check(TRUE) \/ Check(FALSE)
    BY <1>13 DEF TimerCheck, CheckNow
  <2> QED
    BY <1>1, <2>1, <2>2
<1>14. CASE UNCHANGED <<available, downloading, checkJob, transfer, install>>
  BY <1>14
<1> QED
  BY <1>3, <1>4, <1>5, <1>6, <1>7, <1>8, <1>9, <1>10, <1>11, <1>12, <1>13, <1>14
  DEF Next, CheckStep, TransferStep, PreferenceStep, FlushPreferences, OpenDetails, DismissDetails,
      Release, shown, installing

-----------------------------------------------------------------------------
LEMMA NextController == ASSUME ControllerInv, [Next]_vars PROVE ControllerInv'
<1>1. CASE Next
  BY <1>1, NextPlain, NextJobs, NextInstall, NextOwned, NextStaging, NextFrozen, NextDisowned
  DEF ControllerInv, Shapes
<1>2. CASE UNCHANGED vars
  BY <1>2
  DEF vars, shown, native, installing, ControllerInv, Shapes, PlainShapes, JobShapes, Transfers,
      InstallShape, Owned, Staging, Frozen, Confirming, Disowned, ConsentWithdrawn
<1> QED
  BY <1>1, <1>2

LEMMA ControllerInductive == Spec => []ControllerInv
  BY InitController, NextController, PTL DEF Spec

\* The variables of the controller and of the cache keep their shapes, every
\* transfer has exactly one owner waiting for it, and nothing is shown as
\* downloading without one (lib/updateController.js, update_runtime.rs).
THEOREM ControllerTypeCorrect == Spec => []TypeOK
<1>1. ControllerInv => TypeOK
  BY DEF ControllerInv, Shapes, PlainShapes, Owned, TypeOK
<1> QED
  BY <1>1, ControllerInductive, PTL

\* However the checks, the downloads, the cancellations and the choices of the
\* user interleave with an installation, the helper is given a ticket for the
\* version the user confirmed (confirmInstall, update_prepare_install).
THEOREM InstallsConfirmed == Spec => []InstallsWhatWasConfirmed
<1>1. ControllerInv => InstallsWhatWasConfirmed
  BY DEF ControllerInv, Frozen, InstallsWhatWasConfirmed
<1> QED
  BY <1>1, ControllerInductive, PTL

\* A withdrawal that update_cancel has carried out keeps every package that was
\* downloaded automatically out of the cache, for any number of transfers in
\* flight one after the other (setPreferences, update_cancel, publish_verified).
THEOREM ConsentIsWithdrawn == Spec => []ConsentWithdrawn
<1>1. ControllerInv => ConsentWithdrawn
  BY DEF ControllerInv, Disowned
<1> QED
  BY <1>1, ControllerInductive, PTL

\* Whichever step of an installation fails, neither a helper nor an
\* identity-wide operation is left when confirmInstall has returned.
THEOREM LeavesNothingPrepared == Spec => []NothingLeftPrepared
<1>1. ControllerInv => NothingLeftPrepared
  BY DEF ControllerInv, Staging, Confirming, NothingLeftPrepared
<1> QED
  BY <1>1, ControllerInductive, PTL

-----------------------------------------------------------------------------
(* What is offered and what is in the cache.                               *)

Arrived == transfer.phase = "answered" /\ transfer.result \notin {Refused, Nothing}
Revoked == transfer.auto /\ transfer.revoked

\* update_cancel is under way only for a withdrawal of the consent, and what it
\* finds of a transfer the user has asked for has not begun yet.
CancelInv ==
  /\ cancel # "refused"
  /\ cancel # "idle" => ~Downloads(prefs)
  /\ cancel = "called" => worker = None
  /\ cancel = "called" /\ transfer.phase # "idle" /\ ~transfer.auto => transfer.phase = "called"

\* An automatic transfer has been revoked or is still wanted, and once a
\* revocation has been carried out there is no offer until it is over.
RevokedInv ==
  /\ transfer.phase # "idle" /\ transfer.auto => ~Confirming
  /\ transfer.phase # "idle" /\ transfer.auto /\ ~transfer.revoked => Downloads(prefs)
  /\ transfer.phase # "idle" /\ Revoked /\ cancel = "idle" => ready = None

\* The offer is in the cache, unless the answer that will change it is on its way.
OfferInv ==
  /\ Arrived /\ ~Revoked => cache = transfer.result
  /\ cancel = "idle" => ready = None \/ ready = cache \/ (Arrived /\ ~Revoked)

OfferedInv == CancelInv /\ RevokedInv /\ OfferInv

LEMMA InitOffered == Init => OfferedInv
  BY DEF Init, OfferedInv, CancelInv, RevokedInv, OfferInv, Arrived, Revoked, NoJob, Confirming

\* The transfer, the cache and the offer stay as they are.
LEMMA OfferedIdle ==
  ASSUME OfferedInv, UNCHANGED <<prefs, cancel, ready, cache, transfer>>,
         cancel = "called" => worker' = worker \/ worker' = None,
         Confirming' => Confirming \/ transfer.phase = "idle"
  PROVE  OfferedInv'
  BY DEF OfferedInv, CancelInv, RevokedInv, OfferInv, Arrived, Revoked

\* A transfer begins where there is none.
LEMMA OfferedBegins ==
  ASSUME OfferedInv, UNCHANGED <<prefs, cancel, ready, cache, worker>>, transfer.phase = "idle",
         NEW auto \in BOOLEAN, NEW version \in Versions, Download(auto, version),
         auto => ~Confirming' /\ Downloads(prefs)
  PROVE  OfferedInv'
<1>1. /\ transfer'.phase = "called" /\ transfer'.auto = auto /\ ~transfer'.revoked
  BY DEF Download, Job, NoJob
<1> QED
  BY <1>1 DEF OfferedInv, CancelInv, RevokedInv, OfferInv, Arrived, Revoked

\* A transfer goes on; an answer that names a release has published it.
LEMMA OfferedMoves ==
  ASSUME Shapes, OfferedInv, UNCHANGED <<prefs, cancel, ready, worker, install>>,
         transfer.phase \in {"called", "fetching", "fetched"},
         transfer'.phase # "idle", transfer'.auto = transfer.auto,
         transfer'.revoked = transfer.revoked,
         \/ UNCHANGED cache /\ ~Arrived'
         \/ cache' = transfer'.result /\ Arrived',
         cancel = "called" /\ ~transfer.auto => transfer'.phase = "called"
  PROVE  OfferedInv'
<1>1. ~Arrived /\ transfer.phase # "idle"
  BY DEF Arrived
<1>2. CancelInv' /\ RevokedInv'
  BY <1>1 DEF OfferedInv, CancelInv, RevokedInv, Revoked, Confirming
<1>3. OfferInv'
  BY <1>1 DEF OfferedInv, RevokedInv, OfferInv, Revoked
<1> QED
  BY <1>2, <1>3 DEF OfferedInv

\* The steps of the installation, and those that only read.
LEMMA OfferedElsewhere ==
  ASSUME Shapes, OfferedInv,
         \/ TimerCheck \/ CheckNow \/ AskFeed \/ FeedAnswers \/ FlushPreferences \/ Release
         \/ OpenDetails \/ DismissDetails \/ InstallStep
  PROVE  OfferedInv'
<1>1. CASE InstallStep
  <2>1. UNCHANGED <<prefs, cancel, ready, cache, transfer>> /\ Confirming
    BY <1>1 DEF InstallStep, PrepareInstall, PrepareOperation, CommitOperation, CommitInstall,
         AbortInstall, AbortOperation, Recover, shown, native, Confirming
  <2>2. cancel = "called" => worker' = worker \/ worker' = None
    BY <1>1 DEF InstallStep, PrepareInstall, PrepareOperation, CommitOperation, CommitInstall,
         AbortInstall, HelperAborted, AbortOperation, Recover, native, AfterCancel
  <2> QED
    BY <2>1, <2>2, OfferedIdle
<1>2. CASE ~InstallStep
  <2>1. UNCHANGED <<prefs, cancel, ready, cache, transfer, worker, install>>
    BY <1>2 DEF TimerCheck, CheckNow, AskFeed, FeedAnswers, FlushPreferences, Release,
         OpenDetails, DismissDetails, shown, native, installing
  <2> QED
    BY <2>1, OfferedIdle DEF Confirming
<1> QED
  BY <1>1, <1>2

LEMMA StepChooseOffered ==
  ASSUME Shapes, Owned, Staging, OfferedInv, NEW p \in Preferences, Choose(p) PROVE OfferedInv'
<1>0. transfer \in Jobs(TransferPhases)
  BY DEF Shapes, JobShapes, Transfers
<1>1. /\ cancel = "idle" /\ prefs' = p
      /\ UNCHANGED <<ready, cache, worker, install, available>>
  BY DEF Choose, installing
<1>2. CASE available /\ Revokes(p)
  <2>1. /\ transfer'.phase = transfer.phase /\ transfer'.auto = transfer.auto
        /\ transfer'.revoked /\ transfer'.result = transfer.result
        /\ cancel' = IF Confirming THEN "idle" ELSE "called"
    BY <1>0, <1>2 DEF Choose, Outdated, Jobs
  <2>2. ~Downloads(p) /\ (~Confirming => worker = None)
    BY <1>2 DEF Revokes, Checks, Downloads, Staging, Confirming
  <2>3. ~Confirming /\ transfer.phase # "idle" => transfer.auto
    BY DEF Owned, Confirming
  <2>4. CASE Confirming
    <3>1. transfer.phase # "idle" => ~transfer.auto
      BY <2>4 DEF OfferedInv, RevokedInv
    <3> QED
      BY <1>1, <2>1, <2>4, <3>1
      DEF OfferedInv, CancelInv, RevokedInv, OfferInv, Arrived, Revoked, Confirming
  <2>5. CASE ~Confirming
    <3>1. CancelInv' /\ RevokedInv'
      BY <1>1, <2>1, <2>2, <2>3, <2>5 DEF CancelInv, RevokedInv, Revoked, Confirming
    <3>2. OfferInv'
      BY <1>1, <2>1, <2>3, <2>5 DEF OfferInv, Arrived, Revoked
    <3> QED
      BY <3>1, <3>2 DEF OfferedInv
  <2> QED
    BY <2>4, <2>5
<1>3. CASE ~(available /\ Revokes(p))
  <2>1. UNCHANGED <<transfer, cancel>>
    BY <1>3 DEF Choose
  <2>2. transfer.phase # "idle" /\ transfer.auto => available
    BY DEF Owned
  <2>3. available /\ Downloads(prefs) => Downloads(p)
    BY <1>3 DEF Revokes
  <2> QED
    BY <1>1, <2>1, <2>2, <2>3
    DEF OfferedInv, CancelInv, RevokedInv, OfferInv, Arrived, Revoked, Confirming
<1> QED
  BY <1>2, <1>3

LEMMA NextOffered ==
  ASSUME Shapes, Owned, Staging, OfferedInv, Next PROVE OfferedInv'
<1>0. transfer \in Jobs(TransferPhases) /\ Transfers(transfer)
  BY DEF Shapes, JobShapes, Transfers
<1>1. CASE Initialize
  <2>1. ready' = cache /\ UNCHANGED <<prefs, cancel, cache, transfer, worker, install>>
    BY <1>1 DEF Initialize, native, installing
  <2>2. transfer.phase = "idle" \/ ~transfer.auto
    BY <1>1 DEF Initialize, Owned
  <2> QED
    BY <2>1, <2>2 DEF OfferedInv, CancelInv, RevokedInv, OfferInv, Arrived, Revoked, Confirming
<1>2. CASE CheckAnswered
  <2>1. UNCHANGED <<prefs, cancel, ready, cache, worker, install>>
    BY <1>2 DEF CheckAnswered, native, installing
  <2>2. CASE UNCHANGED transfer
    BY <2>1, <2>2, OfferedIdle DEF Confirming
  <2>3. CASE ~UNCHANGED transfer
    <3> DEFINE version == IF checkJob.result = Nothing THEN None ELSE checkJob.result
    <3>1. checkJob.result # Refused /\ FetchesAutomatically(version) /\ Download(TRUE, version)
      BY <1>2, <2>3 DEF CheckAnswered
    <3>2. version \in Versions
      BY <3>1, FetchedIsVersion DEF Shapes
    <3>3. transfer.phase = "idle" /\ ~Confirming /\ Downloads(prefs)
      BY <3>1 DEF FetchesAutomatically
    <3> QED
      BY <2>1, <3>1, <3>2, <3>3, OfferedBegins DEF Confirming
  <2> QED
    BY <2>2, <2>3
<1>3. CASE FetchPackage \/ PackageFetched
  <2>1. /\ UNCHANGED <<prefs, cancel, ready, worker, install, cache>>
        /\ transfer.phase \in {"called", "fetching"}
        /\ transfer.phase = "called" /\ cancel = "called" => transfer.auto
    BY <1>3 DEF FetchPackage, PackageFetched, AfterCancel, shown, native, installing
  <2>2. /\ transfer'.auto = transfer.auto /\ transfer'.revoked = transfer.revoked
        /\ \/ transfer'.phase \in {"fetching", "fetched"}
           \/ transfer'.phase = "answered" /\ transfer'.result = Refused
    BY <1>0, <1>3 DEF FetchPackage, PackageFetched, Jobs
  <2>3. cancel = "called" => transfer.auto
    BY <2>1 DEF OfferedInv, CancelInv
  <2>4. ~Arrived' /\ transfer'.phase # "idle"
    BY <2>2 DEF Arrived
  <2> QED
    BY <2>1, <2>2, <2>3, <2>4, OfferedMoves
<1>4. CASE Publish
  <2>1. UNCHANGED <<prefs, cancel, ready, worker, install>> /\ transfer.phase = "fetched"
    BY <1>4 DEF Publish, shown, installing
  <2>2. /\ transfer'.auto = transfer.auto /\ transfer'.revoked = transfer.revoked
        /\ transfer'.phase = "answered"
        /\ \/ transfer'.result = transfer.result /\ cache' = transfer.result
           \/ transfer'.result = Nothing /\ UNCHANGED cache
    BY <1>0, <1>4 DEF Publish, Jobs
  <2>3. transfer.result \notin {Refused, Nothing}
    BY <1>0, <2>1, UpdateControllerAssumption DEF Transfers, Refused, Nothing
  <2>4. cancel = "called" => transfer.auto
    BY <2>1 DEF OfferedInv, CancelInv
  <2>5. (UNCHANGED cache /\ ~Arrived') \/ (cache' = transfer'.result /\ Arrived')
    BY <2>2, <2>3 DEF Arrived
  <2> QED
    BY <2>1, <2>2, <2>4, <2>5, OfferedMoves
<1>5. CASE Downloaded
  <2>1. /\ transfer.phase = "answered" /\ transfer'.phase = "idle"
        /\ UNCHANGED <<prefs, cancel, cache, worker>>
        /\ ready' = IF Arrived /\ ~Unwanted THEN transfer.result ELSE ready
    BY <1>5 DEF Downloaded, NoJob, native, Arrived
  <2>2. CancelInv' /\ RevokedInv'
    BY <2>1 DEF OfferedInv, CancelInv, RevokedInv
  <2>3. Arrived /\ ~Unwanted => ready' = cache
    BY <2>1 DEF OfferedInv, OfferInv, Unwanted, Revoked
  <2>4. ~(Arrived /\ ~Unwanted) /\ cancel = "idle" => ready' = None \/ ready' = cache
    <3>1. CASE ~Arrived
      BY <2>1, <3>1 DEF OfferedInv, OfferInv
    <3>2. CASE Unwanted
      BY <2>1, <3>2 DEF OfferedInv, RevokedInv, Revoked, Unwanted
    <3> QED
      BY <3>1, <3>2, <2>1
  <2>5. OfferInv'
    BY <2>1, <2>3, <2>4 DEF OfferInv, Arrived
  <2> QED
    BY <2>2, <2>5 DEF OfferedInv
<1>6. CASE CancelUpdate
  <2>1. /\ worker = None /\ cancel = "called" /\ cancel' = "done" /\ cache' = None
        /\ UNCHANGED <<prefs, worker, install>>
    BY <1>6 DEF CancelUpdate, OfferedInv, CancelInv, installing
  <2>2. /\ transfer'.phase = transfer.phase /\ transfer'.auto = transfer.auto
        /\ transfer'.revoked = transfer.revoked /\ transfer'.result = transfer.result
    BY <1>0, <1>6, <2>1 DEF CancelUpdate, Jobs
  <2>3. transfer.phase = "answered" => Revoked
    BY <2>1 DEF OfferedInv, CancelInv, RevokedInv, Revoked
  <2> QED
    BY <2>1, <2>2, <2>3 DEF OfferedInv, CancelInv, RevokedInv, OfferInv, Arrived, Revoked, Confirming
<1>7. CASE CancelAnswered
  <2>1. cancel' = "idle" /\ ready' = None /\ UNCHANGED <<prefs, cache, transfer, install>>
    BY <1>7 DEF CancelAnswered, OfferedInv, CancelInv, installing, native
  <2> QED
    BY <2>1 DEF OfferedInv, CancelInv, RevokedInv, OfferInv, Arrived, Revoked, Confirming
<1>8. CASE ConfirmInstall
  <2>1. /\ transfer.phase = "idle" /\ UNCHANGED <<prefs, cancel, ready, cache, worker>>
        /\ details.version \in Versions
        /\ UNCHANGED transfer \/ Download(FALSE, details.version)
    BY <1>8 DEF ConfirmInstall, native, Shapes, PlainShapes
  <2> QED
    BY <2>1, OfferedIdle, OfferedBegins
<1> QED
  BY <1>1, <1>2, <1>3, <1>4, <1>5, <1>6, <1>7, <1>8, StepChooseOffered, OfferedElsewhere
  DEF Next, CheckStep, TransferStep, PreferenceStep

LEMMA OfferedInductive == Spec => []OfferedInv
<1>1. OfferedInv /\ UNCHANGED vars => OfferedInv'
  BY DEF vars, shown, native, installing, OfferedInv, CancelInv, RevokedInv, OfferInv, Arrived,
         Revoked, Confirming
<1>2. ControllerInv /\ OfferedInv /\ [Next]_vars => OfferedInv'
  BY <1>1, NextOffered DEF ControllerInv
<1> QED
  BY <1>2, InitOffered, ControllerInductive, PTL DEF Spec

\* When no check, transfer or revocation is under way, the package that is
\* offered is the one in the cache, although the answers that change the offer
\* and the steps that change the cache are never the same.
THEOREM OffersAreCached == Spec => []OfferedIsCached
<1>1. OfferedInv => OfferedIsCached
  BY DEF OfferedInv, OfferInv, Arrived, OfferedIsCached
<1> QED
  BY <1>1, OfferedInductive, PTL
=============================================================================
