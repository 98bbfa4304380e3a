-------------------------- MODULE UpdateController --------------------------
(***************************************************************************)
(* The update decisions of the coordinator's workbench: the controller     *)
(* lib/updateController.js with the effects of useUpdateController.js, the  *)
(* commands of update_runtime.rs it invokes and the package they stage     *)
(* (update_cache.rs). Every invocation is answered later, and what the     *)
(* user does meanwhile - withdrawing the consent to automatic updates,     *)
(* opening and closing the details, confirming the installation - is what  *)
(* the answer finds. The operation that closes the other workbenches is    *)
(* Coordination's, what the helper does once it is told to is UpdateGate's.*)
(*                                                                         *)
(* An installation that is supported, a workbench that stays coordinator,  *)
(* no development preview. A generation, in the controller or in the cache,*)
(* is only ever compared with the one a job began under, so that a job     *)
(* carries whether the generation has moved on.                            *)
(***************************************************************************)
EXTENDS Integers

CONSTANTS Versions,    \* releases to come, 1..n; a package is named by its version
          None,
          MaxChecks,   \* bound: update checks
          MaxChoices,  \* bound: changes of the preferences
          MaxConfirms  \* bound: confirmed installations

ASSUME UpdateControllerAssumption ==
  /\ Versions \subseteq Nat \ {0} /\ None \notin Nat
  /\ MaxChecks \in Nat /\ MaxChoices \in Nat /\ MaxConfirms \in Nat

\* UpdatePreferences: neither, autoCheck, autoCheck and autoDownload.
Preferences == {"off", "check", "download"}
Checks(p) == p # "off"
Downloads(p) == p = "download"

VARIABLES
  prefs,       \* the preferences, as settingsStore and the controller have them
  stored,      \* and as automatic_allowed reads them
  available,   \* the status has been read
  candidate, ready, details, checkStatus, downloading, \* of the state shown
  checkJob,    \* checking: the update_check it waits for
  transfer,    \* the update_download it waits for
  cancel,      \* the update_cancel it waits for
  install,     \* confirmInstall: its stage and whether the commit was attempted
  operation,   \* the identity-wide operation it prepared
  agreed,      \* history: the version the user confirmed
  feed,        \* the newest release, 0 for none
  cache,       \* the version that is ready in the cache
  automatic,   \* history: it was downloaded automatically
  worker,      \* pending_worker: the version its ticket names
  withdrawn,   \* history: update_cancel was done for preferences still in force
  checks, choices, confirms

shown == <<candidate, ready, details, checkStatus, downloading>>
native == <<stored, feed, cache, automatic, worker, withdrawn>>
installing == <<install, operation, agreed, confirms>>
vars == <<prefs, available, shown, checkJob, transfer, cancel, installing, native,
          checks, choices>>

NoJob == [phase |-> "idle", auto |-> FALSE, revoked |-> FALSE, live |-> FALSE, result |-> None]
Job(auto, version) == [NoJob EXCEPT !.phase = "called", !.auto = auto, !.result = version]
Refused == -1
Nothing == 0

Checking == checkJob.phase # "idle"
Confirming == install.stage # "none"

Init ==
  /\ prefs \in Preferences /\ stored = prefs
  /\ available = FALSE
  /\ candidate = None /\ ready = None /\ details = None
  /\ checkStatus = "idle" /\ downloading = FALSE
  /\ checkJob = NoJob /\ transfer = NoJob /\ cancel = "idle"
  /\ install = [stage |-> "none", attempted |-> FALSE]
  /\ operation = "none" /\ agreed = None
  /\ feed = 0 /\ worker = None /\ withdrawn = FALSE
  /\ \/ cache = None /\ automatic = FALSE
     \/ cache = 1 /\ 1 \in Versions /\ automatic = Downloads(prefs)
  /\ checks = 0 /\ choices = 0 /\ confirms = 0

-----------------------------------------------------------------------------
(* update_check                                                            *)

\* check, as far as the invocation.
Check(auto) ==
  /\ checks < MaxChecks
  /\ checks' = checks + 1
  /\ checkJob' = Job(auto, None)
  /\ checkStatus' = "checking"

\* initialize and, since the status enables updates, the first automatic check.
Initialize ==
  /\ ~available
  /\ available' = TRUE
  /\ ready' = cache
  /\ IF Checks(prefs) THEN Check(TRUE) ELSE UNCHANGED <<checks, checkJob, checkStatus>>
  /\ UNCHANGED <<prefs, candidate, details, downloading, transfer, cancel, installing,
                 native, choices>>

\* Every twelve hours.
TimerCheck ==
  /\ available /\ ~Checking /\ Checks(prefs)
  /\ Check(TRUE)
  /\ UNCHANGED <<prefs, available, candidate, ready, details, downloading, transfer, cancel,
                 installing, native, choices>>

CheckNow ==
  /\ available /\ ~Checking
  /\ Check(FALSE)
  /\ UNCHANGED <<prefs, available, candidate, ready, details, downloading, transfer, cancel,
                 installing, native, choices>>

\* update_cancel runs as it arrives: what was invoked after it begins after it.
AfterCancel(auto) == cancel = "called" => auto

\* automatic_allowed is asked before the feed and after it.
AskFeed ==
  /\ checkJob.phase = "called" /\ AfterCancel(checkJob.auto)
  /\ checkJob' = IF checkJob.auto /\ ~Checks(stored)
                 THEN [checkJob EXCEPT !.phase = "answered", !.result = Refused]
                 ELSE [checkJob EXCEPT !.phase = "asking", !.live = TRUE]
  /\ UNCHANGED <<prefs, available, shown, transfer, cancel, installing, native, checks, choices>>

\* A check that a cancellation overtook finds nothing.
FeedAnswers ==
  /\ checkJob.phase = "asking"
  /\ \E result \in {Refused, IF checkJob.live THEN feed ELSE Nothing} :
       /\ checkJob.auto /\ ~Checks(stored) => result = Refused
       /\ checkJob' = [checkJob EXCEPT !.phase = "answered", !.result = result]
  /\ UNCHANGED <<prefs, available, shown, transfer, cancel, installing, native, checks, choices>>

\* download, as far as the invocation.
Download(auto, version) ==
  /\ transfer' = Job(auto, version)
  /\ downloading' = TRUE

Staged(version) == version = ready

\* One attempt per automatic check.
FetchesAutomatically(version) ==
  /\ checkJob.auto /\ Downloads(prefs) /\ version # None /\ ~Staged(version)
  /\ details = None /\ ~Confirming /\ transfer.phase = "idle"

\* check, on: an automatic answer that is no longer wanted is dropped, a refusal
\* is shown unless the consent was withdrawn meanwhile.
CheckAnswered ==
  /\ checkJob.phase = "answered"
  /\ IF checkJob.result = Refused
     THEN /\ checkStatus' = IF checkJob.auto /\ checkJob.revoked THEN checkStatus ELSE "unavailable"
          /\ checkJob' = NoJob
          /\ UNCHANGED <<candidate, transfer, downloading>>
     ELSE IF checkJob.auto /\ (checkJob.revoked \/ ~Checks(prefs))
     THEN checkJob' = NoJob /\ UNCHANGED <<candidate, checkStatus, transfer, downloading>>
     ELSE LET version == IF checkJob.result = Nothing THEN None ELSE checkJob.result
          IN  /\ candidate' = version
              /\ checkStatus' = "ok"
              /\ IF FetchesAutomatically(version)
                 THEN /\ checkJob' = [checkJob EXCEPT !.phase = "downloading"]
                      /\ Download(TRUE, version)
                 ELSE checkJob' = NoJob /\ UNCHANGED <<transfer, downloading>>
  /\ UNCHANGED <<prefs, available, ready, details, cancel, installing, native, checks, choices>>

-----------------------------------------------------------------------------
(* update_download: `result` is the version until the answer.              *)

FetchPackage ==
  /\ transfer.phase = "called" /\ AfterCancel(transfer.auto)
  /\ transfer' = IF transfer.auto /\ ~Downloads(stored)
                 THEN [transfer EXCEPT !.phase = "answered", !.result = Refused]
                 ELSE [transfer EXCEPT !.phase = "fetching", !.live = TRUE]
  /\ UNCHANGED <<prefs, available, shown, checkJob, cancel, installing, native, checks, choices>>

\* The bytes are there and still allowed, or not. Assumed: a transfer takes
\* longer than the write of a preference.
PackageFetched ==
  /\ transfer.phase = "fetching" /\ stored = prefs
  /\ \/ transfer' = [transfer EXCEPT !.phase = "answered", !.result = Refused]
     \/ /\ transfer.auto => Downloads(stored)
        /\ transfer' = [transfer EXCEPT !.phase = "fetched"]
  /\ UNCHANGED <<prefs, available, shown, checkJob, cancel, installing, native, checks, choices>>

\* Mutant: whatever has been verified is published.
PublishableAnyhow == TRUE

\* publish_verified: of the generation the transfer began under.
Publishable == transfer.live

Publish ==
  /\ transfer.phase = "fetched"
  /\ IF Publishable
     THEN /\ cache' = transfer.result /\ automatic' = transfer.auto
          /\ transfer' = [transfer EXCEPT !.phase = "answered"]
     ELSE /\ transfer' = [transfer EXCEPT !.phase = "answered", !.result = Nothing]
          /\ UNCHANGED <<cache, automatic>>
  /\ UNCHANGED <<prefs, available, shown, checkJob, cancel, installing, stored, feed, worker,
                 withdrawn, checks, choices>>

\* The details of this very version become those of the package.
Promoted(version) ==
  IF details # None /\ details.version = version
  THEN [details EXCEPT !.staged = TRUE] ELSE details

\* Mutant: an automatic package is taken in whatever the user has chosen since.
DropsNothing == FALSE

Unwanted == transfer.auto /\ (transfer.revoked \/ ~Downloads(prefs))

\* download, on, and the check or the installation that waits for it.
Downloaded ==
  /\ transfer.phase = "answered"
  /\ transfer' = NoJob /\ downloading' = FALSE
  /\ checkJob' = IF transfer.auto THEN NoJob ELSE checkJob
  /\ LET arrived == transfer.result \notin {Refused, Nothing}
     IN  /\ IF arrived /\ ~Unwanted
            THEN ready' = transfer.result /\ details' = Promoted(transfer.result)
            ELSE UNCHANGED <<ready, details>>
         /\ install' = IF transfer.auto THEN install
                       ELSE [install EXCEPT !.stage = IF arrived THEN "preparing" ELSE "failing"]
  /\ UNCHANGED <<prefs, available, candidate, checkStatus, cancel, operation, agreed, confirms,
                 native, checks, choices>>

-----------------------------------------------------------------------------
(* The preferences and update_cancel.                                      *)

Revokes(p) == (Checks(prefs) /\ ~Checks(p)) \/ (Downloads(prefs) /\ ~Downloads(p))
Outdated(job) == [job EXCEPT !.revoked = TRUE]

\* The user changes the preferences: setPreferences, and the effects that check
\* at once. Bound: not while an earlier revocation is being cancelled.
Choose(p) ==
  /\ p # prefs /\ choices < MaxChoices /\ cancel = "idle"
  /\ choices' = choices + 1
  /\ prefs' = p
  /\ withdrawn' = (withdrawn /\ ~Downloads(p))
  /\ IF available /\ Revokes(p)
     THEN /\ checkJob' = Outdated(checkJob) /\ transfer' = Outdated(transfer)
          /\ cancel' = IF Confirming THEN "idle" ELSE "called"
          /\ UNCHANGED <<checks, checkStatus>>
     ELSE /\ UNCHANGED <<transfer, cancel>>
          /\ IF available /\ ~Revokes(p) /\ ~Checking
             THEN Check(TRUE) ELSE UNCHANGED <<checks, checkJob, checkStatus>>
  /\ UNCHANGED <<available, candidate, ready, details, downloading, installing, stored, feed,
                 cache, automatic, worker>>

\* flushPersistence. (One that fails restores the preferences: Choose.)
FlushPreferences ==
  /\ stored # prefs
  /\ stored' = prefs
  /\ UNCHANGED <<prefs, available, shown, checkJob, transfer, cancel, installing, feed, cache,
                 automatic, worker, withdrawn, checks, choices>>

\* update_cancel: nothing is ready any more, and what is under way ends.
CancelUpdate ==
  /\ cancel = "called"
  /\ IF worker # None
     THEN cancel' = "refused" /\ UNCHANGED <<cache, checkJob, transfer, withdrawn>>
     ELSE /\ cancel' = "done"
          /\ cache' = None
          /\ checkJob' = [checkJob EXCEPT !.live = FALSE]
          /\ transfer' = [transfer EXCEPT !.live = FALSE]
          /\ withdrawn' = ~Downloads(prefs)
  /\ UNCHANGED <<prefs, available, shown, installing, stored, feed, automatic, worker, checks,
                 choices>>

CancelAnswered ==
  /\ cancel \in {"done", "refused"}
  /\ cancel' = "idle"
  /\ IF cancel = "done"
     THEN ready' = None /\ downloading' = FALSE /\ checkStatus' = "idle"
     ELSE UNCHANGED <<ready, downloading, checkStatus>>
  /\ UNCHANGED <<prefs, available, candidate, details, checkJob, transfer, installing, native,
                 checks, choices>>

-----------------------------------------------------------------------------
(* The details and the installation.                                       *)

\* Frozen: the package that is ready, or else the newest candidate.
OpenDetails ==
  /\ available /\ ~Confirming /\ details = None
  /\ \/ ready # None /\ details' = [version |-> ready, staged |-> TRUE]
     \/ ready = None /\ candidate # None /\ details' = [version |-> candidate, staged |-> FALSE]
  /\ UNCHANGED <<prefs, available, candidate, ready, checkStatus, downloading, checkJob, transfer,
                 cancel, installing, native, checks, choices>>

DismissDetails ==
  /\ ~Confirming /\ details # None
  /\ details' = None
  /\ UNCHANGED <<prefs, available, candidate, ready, checkStatus, downloading, checkJob, transfer,
                 cancel, installing, native, checks, choices>>

\* confirmInstall: a package that is not staged is downloaded first.
ConfirmInstall ==
  /\ ~Confirming /\ available /\ details # None /\ transfer.phase = "idle"
  /\ confirms < MaxConfirms
  /\ confirms' = confirms + 1
  /\ agreed' = details.version
  /\ install' = [stage |-> IF details.staged THEN "preparing" ELSE "downloading",
                 attempted |-> FALSE]
  /\ IF details.staged THEN UNCHANGED <<transfer, downloading>> ELSE Download(FALSE, details.version)
  /\ UNCHANGED <<prefs, available, candidate, ready, details, checkStatus, checkJob, cancel,
                 operation, native, checks, choices>>

\* Mutant: the package that is ready is taken for the one that was asked for.
LoadsAnything == cache # None

\* UpdateCache::load reads the identity again.
Loads == cache = details.version

Advance(stage) == install' = [install EXCEPT !.stage = stage]
Fails == Advance("failing")

\* update_prepare_install: the helper waits with a ticket for the package.
PrepareInstall ==
  /\ install.stage = "preparing" /\ AfterCancel(FALSE)
  /\ \/ worker = None /\ Loads /\ worker' = cache /\ Advance("asking")
     \/ Fails /\ UNCHANGED worker
  /\ UNCHANGED <<prefs, available, shown, checkJob, transfer, cancel, operation, agreed, confirms,
                 stored, feed, cache, automatic, withdrawn, checks, choices>>

\* prepareGlobalOperation.
PrepareOperation ==
  /\ install.stage = "asking"
  /\ \/ operation' = "prepared" /\ install' = [stage |-> "committing", attempted |-> TRUE]
     \/ Fails /\ UNCHANGED operation
  /\ UNCHANGED <<prefs, available, shown, checkJob, transfer, cancel, agreed, confirms, native,
                 checks, choices>>

\* commitGlobalOperation.
CommitOperation ==
  /\ install.stage = "committing"
  /\ \/ operation' = "committed" /\ Advance("releasing")
     \/ Fails /\ UNCHANGED operation
  /\ UNCHANGED <<prefs, available, shown, checkJob, transfer, cancel, agreed, confirms, native,
                 checks, choices>>

\* update_commit_install: the helper is released and the process exits.
CommitInstall ==
  /\ install.stage = "releasing"
  /\ Advance("exited") \/ Fails
  /\ UNCHANGED <<prefs, available, shown, checkJob, transfer, cancel, operation, agreed, confirms,
                 native, checks, choices>>

\* Mutant: the helper is left to itself.
HelperLeft == worker

\* update_abort_install of the token.
HelperAborted == None

AbortInstall ==
  /\ install.stage = "failing"
  /\ worker' = HelperAborted
  /\ Advance("aborting")
  /\ UNCHANGED <<prefs, available, shown, checkJob, transfer, cancel, operation, agreed, confirms,
                 stored, feed, cache, automatic, withdrawn, checks, choices>>

\* abortGlobalOperation.
AbortOperation ==
  /\ install.stage = "aborting"
  /\ operation' = "none"
  /\ Advance("failed")
  /\ UNCHANGED <<prefs, available, shown, checkJob, transfer, cancel, agreed, confirms, native,
                 checks, choices>>

\* A commit that was attempted may have closed peers: relaunch, if it works.
Recover ==
  /\ install.stage = "failed"
  /\ \/ install.attempted /\ Advance("relaunched")
     \/ install' = [stage |-> "none", attempted |-> FALSE]
  /\ UNCHANGED <<prefs, available, shown, checkJob, transfer, cancel, operation, agreed, confirms,
                 native, checks, choices>>

Release ==
  /\ feed + 1 \in Versions
  /\ feed' = feed + 1
  /\ UNCHANGED <<prefs, available, shown, checkJob, transfer, cancel, installing, stored, cache,
                 automatic, worker, withdrawn, checks, choices>>

-----------------------------------------------------------------------------
CheckStep == TimerCheck \/ CheckNow \/ AskFeed \/ FeedAnswers \/ CheckAnswered
TransferStep == FetchPackage \/ PackageFetched \/ Publish \/ Downloaded
PreferenceStep ==
  (\E p \in Preferences : Choose(p)) \/ FlushPreferences \/ CancelUpdate \/ CancelAnswered
InstallStep ==
  PrepareInstall \/ PrepareOperation \/ CommitOperation \/ CommitInstall \/ AbortInstall
    \/ AbortOperation \/ Recover

\* After an exit nobody watches what the rest still does.
Next ==
  \/ Initialize \/ CheckStep \/ TransferStep \/ PreferenceStep \/ Release
  \/ OpenDetails \/ DismissDetails \/ ConfirmInstall \/ InstallStep

Spec == Init /\ [][Next]_vars

-----------------------------------------------------------------------------
\* Every variable keeps its shape, and the jobs their owners: a download that
\* is automatic belongs to a check, another one to an installation, and nothing
\* is shown as downloading when nothing is.
TypeOK ==
  /\ {prefs, stored} \subseteq Preferences
  /\ {candidate, ready, cache, agreed, worker} \subseteq Versions \cup {None}
  /\ details # None => details.version \in Versions
  /\ feed \in Versions \cup {0}
  /\ checkStatus \in {"idle", "checking", "ok", "unavailable"}
  /\ cancel \in {"idle", "called", "done", "refused"}
  /\ transfer.phase = "idle" => ~downloading
  /\ transfer.phase # "idle" /\ transfer.auto <=> checkJob.phase = "downloading"
  /\ transfer.phase # "idle" /\ ~transfer.auto <=> install.stage = "downloading"

\* The helper is given the version the user confirmed, whatever has been
\* published, replaced or withdrawn between the click and the ticket.
InstallsWhatWasConfirmed == worker # None => worker = agreed

\* Once the withdrawal of the consent has been carried out, no package that was
\* downloaded automatically is ready, nor comes to be, until it is given again.
ConsentWithdrawn == withdrawn => cache = None \/ ~automatic

\* An installation that failed leaves no helper waiting and no operation open,
\* whichever step failed; one that goes through has closed the others first.
NothingLeftPrepared ==
  /\ ~Confirming => worker = None /\ operation = "none"
  /\ install.stage = "exited" => worker # None /\ operation = "committed"

\* When nothing is under way, a package that is offered is there. (One that is
\* there may not be offered before the next start: a transfer that was revoked
\* and allowed again.)
OfferedIsCached ==
  available /\ ~Checking /\ transfer.phase = "idle" /\ cancel = "idle" /\ ready # None
    => ready = cache

=============================================================================
