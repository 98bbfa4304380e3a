----------------------------- MODULE UpdateGate -----------------------------
(***************************************************************************)
(* How an update replaces the application while nobody uses it:             *)
(* update_gate.rs, update_worker.rs and update_runtime.rs of                *)
(* src/src-tauri/src, and confirmInstall of src/src/lib/updateController.js.*)
(* A workbench that starts passes the gate's three lock files; the          *)
(* coordinator that confirms an update spawns a helper process, which takes *)
(* the gate away, waits for every workbench to close, runs the installer    *)
(* and starts the application again.                                        *)
(*                                                                         *)
(* A lock file is held by a process at known points of its code and is      *)
(* released when the process ends, however it ends, so who holds a lock is  *)
(* a function of how far the processes are.                                 *)
(***************************************************************************)
CONSTANTS
    Workbench,    \* the processes of the application that may run at a time
    Helper,       \* the helper processes that may ever be spawned
    CrashSteps    \* where a process may be killed from outside

VARIABLES
    step,         \* how far a workbench is in its start, its life or its end
    fresh,        \* RunningInstallation.fresh_session
    coordinator,  \* the workbench that holds the coordinator lock, if any
    confirm,      \* confirmInstall and the pending worker of the coordinator
    hstep,        \* how far a helper is in run and install
    nonce,        \* the nonce of the ticket a helper has read
    ticket,       \* worker-ticket.json: a nonce is named by the helper that
    ready,        \* worker-ready        was spawned with it
    commit,       \* worker-commit
    attempt,      \* attempt.json
    installer     \* the installer process a helper started
files == <<ticket, ready, commit>>
launches == <<step, fresh, coordinator>>
helpers == <<hstep, nonce, installer>>
vars == <<launches, confirm, helpers, files, attempt>>

---------------------------------------------------------------------------
\* The steps of a workbench, and the locks it holds at each.
Admission == {"admitted", "barred", "probed"}       \* admission.lock
Entering  == {"barred", "probed"}                   \* entry.lock, shared
Session   == {"entered", "starting", "open", "leaving"}   \* running.lock, shared
WorkbenchStep ==
    {"unborn", "launched", "marking", "checked", "refused"} \cup Admission \cup Session

\* The steps of a helper, and the locks it holds at each.
Replacing == {"installing", "tracked"}
Closed    == {"closed", "recorded"} \cup Replacing  \* running.lock, exclusive
Confirmed == {"waiting", "settled", "failing"} \cup Closed
Owning    == {"claimed", "ready"} \cup Confirmed    \* entry.lock, exclusive
HelperStep ==
    {"unspawned", "spawned", "identified", "reopening", "retreating", "erring", "gone"}
        \cup Owning
Alive(h) == hstep[h] \notin {"unspawned", "gone"}

Sessions == {w \in Workbench : step[w] \in Session}
Owners == {h \in Helper : hstep[h] \in Owning}
Exclusive == {h \in Helper : hstep[h] \in Closed}
AdmissionFree == \A w \in Workbench : step[w] \notin Admission

Stage == {"idle", "spawning", "token", "prepared", "committed"}
Nonce == {{}} \cup {{h} : h \in Helper}
NotConfirming == [stage |-> "idle", child |-> {}, startup |-> FALSE]

\* The program counters, the files and the confirmation keep their shape.
TypeOK ==
    /\ step \in [Workbench -> WorkbenchStep]
    /\ fresh \in [Workbench -> BOOLEAN]
    /\ coordinator \in {{}} \cup {{w} : w \in Workbench}
    /\ confirm \in [stage : Stage, child : Nonce, startup : BOOLEAN]
    /\ hstep \in [Helper -> HelperStep]
    /\ nonce \in [Helper -> Nonce]
    /\ ticket \in Nonce /\ ready \in Nonce /\ commit \in Nonce
    /\ attempt \in [phase : {"none", "installing", "finished", "failed"},
                    helper : Nonce, tracked : BOOLEAN]
    /\ installer \in [Helper -> {"none", "running", "replaced", "broke"}]

Init ==
    /\ step = [w \in Workbench |-> "unborn"]
    /\ fresh = [w \in Workbench |-> FALSE]
    /\ coordinator = {}
    /\ confirm = NotConfirming
    /\ hstep = [h \in Helper |-> "unspawned"]
    /\ nonce = [h \in Helper |-> {}]
    /\ ticket = {} /\ ready = {} /\ commit = {}
    /\ attempt = [phase |-> "none", helper |-> {}, tracked |-> FALSE]
    /\ installer = [h \in Helper |-> "none"]

---------------------------------------------------------------------------
\* A workbench starts: UpdateRuntime::new, then the registration of lib.rs.
Becomes(w, s) == step' = [step EXCEPT ![w] = s]

\* The user starts the application.  The last free process is kept for a
\* relaunch, so that the bound on processes does not stand in its way.
Launch(w) ==
    /\ step[w] = "unborn"
    /\ \E v \in Workbench \ {w} : step[v] = "unborn"
    /\ Becomes(w, "launched")
    /\ UNCHANGED <<fresh, coordinator, confirm, helpers, files, attempt>>

\* process_alive of the helper or of the installer attempt.json names.
RecordedAlive ==
    \E h \in attempt.helper :
        Alive(h) \/ (attempt.tracked /\ installer[h] = "running")
InstallInTheWay == attempt.phase = "installing" /\ RecordedAlive
\* The application that starts is at the version of the attempt already.
Replaced == \E h \in attempt.helper : installer[h] = "replaced"

\* check_abandoned_attempt, up to its save.  No lock is held.
Check(w) ==
    /\ step[w] = "launched"
    /\ Becomes(w, IF attempt.phase # "installing" THEN "checked"
                  ELSE IF RecordedAlive THEN "refused"
                  ELSE IF Replaced THEN "checked" ELSE "marking")
    /\ UNCHANGED <<fresh, coordinator, confirm, helpers, files, attempt>>

\* The attempt it read is saved as failed, whatever the file holds by now;
\* of a failed attempt nobody reads the processes.
Mark(w) ==
    /\ step[w] = "marking"
    /\ attempt' = [attempt EXCEPT !.phase = "failed"]
    /\ Becomes(w, "checked")
    /\ UNCHANGED <<fresh, coordinator, confirm, helpers, files>>

\* Mutant: nothing makes one launch wait for another that is entering.
AdmitAtOnce(w) ==
    /\ step[w] = "checked"
    /\ Becomes(w, "admitted")
    /\ UNCHANGED <<fresh, coordinator, confirm, helpers, files, attempt>>

\* RunningInstallation::enter: it waits for admission.lock ...
Admit(w) ==
    /\ step[w] = "checked" /\ AdmissionFree
    /\ Becomes(w, "admitted")
    /\ UNCHANGED <<fresh, coordinator, confirm, helpers, files, attempt>>

\* ... tries entry.lock shared, and gives up when a helper owns it ...
Bar(w) ==
    /\ step[w] = "admitted"
    /\ Becomes(w, IF Owners = {} THEN "barred" ELSE "refused")
    /\ UNCHANGED <<fresh, coordinator, confirm, helpers, files, attempt>>

\* ... probes running.lock exclusively and unlocks it again ...
Probe(w) ==
    /\ step[w] = "barred"
    /\ fresh' = [fresh EXCEPT ![w] = Sessions = {} /\ Exclusive = {}]
    /\ Becomes(w, "probed")
    /\ UNCHANGED <<coordinator, confirm, helpers, files, attempt>>

\* ... and waits until it has it shared.  The other two locks are dropped on
\* return.
Share(w) ==
    /\ step[w] = "probed" /\ Exclusive = {}
    /\ Becomes(w, "entered")
    /\ UNCHANGED <<fresh, coordinator, confirm, helpers, files, attempt>>

\* remove_helper_files, by a fresh session only.
Tidy(w) ==
    /\ step[w] = "entered"
    /\ IF fresh[w] THEN ticket' = {} /\ ready' = {} /\ commit' = {}
       ELSE UNCHANGED files
    /\ Becomes(w, "starting")
    /\ UNCHANGED <<fresh, coordinator, confirm, helpers, attempt>>

\* CoordinatorRole::acquire and InstanceRegistry::register; the registered
\* workbenches are those that are open.
Register(w) ==
    /\ step[w] = "starting"
    /\ Becomes(w, "open")
    /\ coordinator' = IF coordinator = {} THEN {w} ELSE coordinator
    /\ UNCHANGED <<fresh, confirm, helpers, files, attempt>>

\* The heartbeat of a follower that finds the coordinator's lock free.
Promote(w) ==
    /\ step[w] = "open" /\ coordinator = {}
    /\ coordinator' = {w}
    /\ UNCHANGED <<step, fresh, confirm, helpers, files, attempt>>

\* A process ends: its locks go with it, and the flow it was driving.
Ends(w) ==
    /\ Becomes(w, "unborn")
    /\ fresh' = [fresh EXCEPT ![w] = FALSE]
    /\ coordinator' = coordinator \ {w}
    /\ confirm' = IF w \in coordinator THEN NotConfirming ELSE confirm
    /\ UNCHANGED <<helpers, files, attempt>>

\* The dialog of a launch that was refused is closed.
Dismiss(w) == step[w] = "refused" /\ Ends(w)
\* The user closes a workbench, or a global commit does.
Close(w) == step[w] = "open" /\ ~(w \in coordinator /\ confirm.stage # "idle") /\ Ends(w)
\* exit(0) and the exit of relaunch take effect.
Leave(w) == step[w] = "leaving" /\ Ends(w)
\* A workbench is killed, or closed while it confirms an update.
Kill(w) == step[w] \in CrashSteps /\ Ends(w)

---------------------------------------------------------------------------
\* The coordinator confirms an update: confirmInstall.
HelperBecomes(h, s) == hstep' = [hstep EXCEPT ![h] = s]
Killed == hstep' = [h \in Helper |-> IF h \in confirm.child THEN "gone" ELSE hstep[h]]

\* update_prepare_install up to Command::spawn: a ticket with a new nonce.
Confirm(w, h, startup) ==
    /\ step[w] = "open" /\ coordinator = {w}
    /\ confirm.stage = "idle"
    /\ hstep[h] = "unspawned"
    /\ ticket' = {h}
    /\ HelperBecomes(h, "spawned")
    /\ confirm' = [stage |-> "spawning", child |-> {h}, startup |-> startup]
    /\ UNCHANGED <<launches, nonce, installer, ready, commit, attempt>>

ChildAlive == \A h \in confirm.child : hstep[h] # "gone"
\* remove_stale and list: nobody but this workbench is registered.
Eligible(w) ==
    \/ ~confirm.startup
    \/ fresh[w] /\ \A v \in Workbench \ {w} : step[v] # "open"

\* worker-ready answers the nonce.  A startup confirmation is given up when a
\* peer is there.
HelperReady(w) ==
    /\ coordinator = {w} /\ confirm.stage = "spawning"
    /\ ChildAlive /\ ready = confirm.child
    /\ IF Eligible(w) THEN confirm' = [confirm EXCEPT !.stage = "token"] /\ UNCHANGED hstep
       ELSE confirm' = NotConfirming /\ Killed
    /\ UNCHANGED <<launches, nonce, installer, files, attempt>>

\* The helper ended, or 20 s passed and it is killed.
HelperNotReady(w) ==
    /\ coordinator = {w} /\ confirm.stage = "spawning"
    /\ confirm' = NotConfirming /\ Killed
    /\ UNCHANGED <<launches, nonce, installer, files, attempt>>

\* prepareGlobalOperation, and commitGlobalOperation, succeed.
Prepared(w) ==
    /\ coordinator = {w}
    /\ \/ confirm.stage = "token" /\ confirm' = [confirm EXCEPT !.stage = "prepared"]
       \/ confirm.stage = "prepared" /\ confirm' = [confirm EXCEPT !.stage = "committed"]
    /\ UNCHANGED <<launches, helpers, files, attempt>>

\* prepareGlobalOperation fails: update_abort_install kills the helper.
NotPrepared(w) ==
    /\ coordinator = {w} /\ confirm.stage = "token"
    /\ confirm' = NotConfirming /\ Killed
    /\ UNCHANGED <<launches, nonce, installer, files, attempt>>

\* update_commit_install: the marker, then exit(0).
CommitInstall(w) ==
    /\ coordinator = {w} /\ confirm.stage = "committed"
    /\ ChildAlive
    /\ commit' = confirm.child
    /\ confirm' = NotConfirming
    /\ Becomes(w, "leaving")
    /\ UNCHANGED <<fresh, coordinator, helpers, ticket, ready, attempt>>

\* commitGlobalOperation or update_commit_install fails, after peers may have
\* closed: the helper is killed and relaunch starts the application again.
Restart(w) ==
    /\ coordinator = {w} /\ confirm.stage \in {"prepared", "committed"}
    /\ confirm' = NotConfirming /\ Killed
    /\ \E v \in Workbench :
          step[v] = "unborn" /\ step' = [step EXCEPT ![w] = "leaving", ![v] = "launched"]
    /\ UNCHANGED <<fresh, coordinator, nonce, installer, files, attempt>>

---------------------------------------------------------------------------
\* A helper: update_worker::run and install.

\* Its ticket, which may be that of a later spawn, or removed by now.
ReadTicket(h) ==
    /\ hstep[h] = "spawned"
    /\ nonce' = [nonce EXCEPT ![h] = ticket]
    /\ HelperBecomes(h, IF ticket = {} THEN "gone" ELSE "identified")
    /\ UNCHANGED <<launches, confirm, installer, files, attempt>>

\* InstallGate::claim: it waits for admission.lock, then tries entry.lock.
Claim(h) ==
    /\ hstep[h] = "identified" /\ AdmissionFree
    /\ HelperBecomes(h, IF Owners = {} THEN "claimed" ELSE "erring")
    /\ UNCHANGED <<launches, confirm, nonce, installer, files, attempt>>

\* The package is verified and worker-ready written; or it is not good.
Ready(h) ==
    /\ hstep[h] = "claimed"
    /\ \/ ready' = nonce[h] /\ HelperBecomes(h, "ready")
       \/ ready' = ready /\ HelperBecomes(h, "erring")
    /\ UNCHANGED <<launches, confirm, nonce, installer, ticket, commit, attempt>>

\* Mutant: any marker will do.
SeeAnyCommit(h) ==
    /\ hstep[h] = "ready" /\ commit # {}
    /\ HelperBecomes(h, "waiting")
    /\ UNCHANGED <<launches, confirm, nonce, installer, files, attempt>>

\* worker-commit holds the nonce.
SeeCommit(h) ==
    /\ hstep[h] = "ready" /\ commit = nonce[h]
    /\ HelperBecomes(h, "waiting")
    /\ UNCHANGED <<launches, confirm, nonce, installer, files, attempt>>

\* 120 s passed.  The barrier a coordinator has to get through by then waits
\* twice for 10 s, so a helper expires when nobody will confirm it any more.
Expire(h) ==
    /\ hstep[h] = "ready" /\ commit # nonce[h]
    /\ confirm.child # nonce[h]
    /\ HelperBecomes(h, "erring")
    /\ UNCHANGED <<launches, confirm, nonce, installer, files, attempt>>

\* wait_until_closed gets running.lock ...
WaitClosed(h) ==
    /\ hstep[h] = "waiting" /\ Sessions = {} /\ Exclusive = {}
    /\ HelperBecomes(h, "closed")
    /\ UNCHANGED <<launches, confirm, nonce, installer, files, attempt>>

\* Mutant: the wait has no end.
NotClosedEver(h) ==
    /\ hstep[h] = "closed"
    /\ HelperBecomes(h, "failing")
    /\ UNCHANGED <<launches, confirm, nonce, installer, files, attempt>>

\* ... or gives up after 300 s; or the package is gone when it got it.
NotClosed(h) ==
    /\ \/ hstep[h] = "waiting" /\ (Sessions # {} \/ Exclusive # {})
       \/ hstep[h] = "closed"
    /\ HelperBecomes(h, "failing")
    /\ UNCHANGED <<launches, confirm, nonce, installer, files, attempt>>

\* The attempt is recorded before the installer is started.
Record(h) ==
    /\ hstep[h] = "closed"
    /\ attempt' = [phase |-> "installing", helper |-> {h}, tracked |-> FALSE]
    /\ HelperBecomes(h, "recorded")
    /\ UNCHANGED <<launches, confirm, nonce, installer, files>>

StartInstaller(h) ==
    /\ hstep[h] = "recorded"
    /\ installer' = [installer EXCEPT ![h] = "running"]
    /\ HelperBecomes(h, "installing")
    /\ UNCHANGED <<launches, confirm, nonce, files, attempt>>

\* on_spawn records the installer; when it cannot, the installer is waited
\* for all the same.
Track(h) ==
    /\ hstep[h] = "installing"
    /\ \/ attempt' = [phase |-> "installing", helper |-> {h}, tracked |-> TRUE]
       \/ UNCHANGED attempt
    /\ HelperBecomes(h, "tracked")
    /\ UNCHANGED <<launches, confirm, nonce, installer, files>>

\* The installer, a process of its own, ends.
InstallerEnds(h) ==
    /\ installer[h] = "running"
    /\ \E r \in {"replaced", "broke"} : installer' = [installer EXCEPT ![h] = r]
    /\ UNCHANGED <<launches, confirm, hstep, nonce, files, attempt>>

\* It returned, or could not be started: the outcome is saved.
Settle(h) ==
    /\ \/ hstep[h] = "recorded"
       \/ hstep[h] = "tracked" /\ installer[h] # "running"
    /\ \E p \in IF installer[h] = "replaced" THEN {"finished", "failed"} ELSE {"failed"} :
          attempt' = [phase |-> p, helper |-> {h}, tracked |-> hstep[h] = "tracked"]
    /\ HelperBecomes(h, "settled")
    /\ UNCHANGED <<launches, confirm, nonce, installer, files>>

FailedAttempt == [attempt EXCEPT !.phase = "failed"]

\* The gate is dropped, after an error that happened behind it was saved.
Release(h) ==
    /\ \/ hstep[h] = "settled" /\ HelperBecomes(h, "reopening") /\ UNCHANGED attempt
       \/ hstep[h] = "failing" /\ HelperBecomes(h, "retreating") /\ attempt' = FailedAttempt
    /\ UNCHANGED <<launches, confirm, nonce, installer, files>>

\* Mutant: only an installation that was tried opens the application again.
RelaunchSettled(h) ==
    /\ \/ /\ hstep[h] = "reopening" /\ HelperBecomes(h, "gone")
          /\ \E w \in Workbench : step[w] = "unborn" /\ Becomes(w, "launched")
       \/ hstep[h] = "retreating" /\ HelperBecomes(h, "erring") /\ UNCHANGED step
    /\ UNCHANGED <<fresh, coordinator, confirm, nonce, installer, files, attempt>>

\* The application is started again, whether it was replaced or not.
Relaunch(h) ==
    /\ \/ hstep[h] = "reopening" /\ HelperBecomes(h, "gone")
       \/ hstep[h] = "retreating" /\ HelperBecomes(h, "erring")
    /\ \E w \in Workbench : step[w] = "unborn" /\ Becomes(w, "launched")
    /\ UNCHANGED <<fresh, coordinator, confirm, nonce, installer, files, attempt>>

\* The error install returned is saved over the previous attempt.
Report(h) ==
    /\ hstep[h] = "erring"
    /\ attempt' = FailedAttempt
    /\ HelperBecomes(h, "gone")
    /\ UNCHANGED <<launches, confirm, nonce, installer, files>>

\* A helper is killed, or loses its power.
Crash(h) ==
    /\ hstep[h] \in CrashSteps \cap HelperStep /\ Alive(h)
    /\ HelperBecomes(h, "gone")
    /\ UNCHANGED <<launches, confirm, nonce, installer, files, attempt>>

---------------------------------------------------------------------------
Starts(w) ==
    Check(w) \/ Mark(w) \/ Admit(w) \/ Bar(w) \/ Probe(w) \/ Share(w) \/ Tidy(w)
        \/ Register(w) \/ Promote(w) \/ Dismiss(w) \/ Leave(w)
Confirms(w) ==
    HelperReady(w) \/ HelperNotReady(w) \/ Prepared(w) \/ NotPrepared(w)
        \/ CommitInstall(w) \/ Restart(w)
Helps(h) ==
    ReadTicket(h) \/ Claim(h) \/ Ready(h) \/ SeeCommit(h) \/ Expire(h) \/ WaitClosed(h)
        \/ NotClosed(h) \/ Record(h) \/ StartInstaller(h) \/ Track(h)
        \/ Settle(h) \/ Release(h) \/ Relaunch(h) \/ Report(h)

Next ==
    \/ \E w \in Workbench :
          \/ Launch(w) \/ Starts(w) \/ Confirms(w) \/ Close(w) \/ Kill(w)
          \/ \E h \in Helper, startup \in BOOLEAN : Confirm(w, h, startup)
    \/ \E h \in Helper : Helps(h) \/ InstallerEnds(h) \/ Crash(h)

Spec == Init /\ [][Next]_vars

\* A process that can go on does; a blocking lock is got by whoever waits for
\* it; an installer ends.  Nothing makes a user start or close a workbench.
Fairness ==
    /\ \A w \in Workbench :
          /\ WF_vars(Starts(w)) /\ SF_vars(Admit(w))
          /\ WF_vars(Confirms(w))
    /\ \A h \in Helper :
          WF_vars(Helps(h)) /\ SF_vars(Claim(h)) /\ WF_vars(InstallerEnds(h))
FairSpec == Spec /\ Fairness

---------------------------------------------------------------------------
\* "Hold the returned lease until the native installer has actually finished":
\* while the installer of a helper that lives replaces the application, no
\* workbench runs, even if others are killed at any point
\* (RunningInstallation::enter against InstallGate).
ExclusiveInstall == \A h \in Helper : Alive(h) /\ installer[h] = "running" => Sessions = {}

\* Two workbenches that run are never both a fresh session, so that at most
\* one offers a startup installation (RunningInstallation::enter).
OneFresh ==
    \A v, w \in Sessions : fresh[v] /\ fresh[w] => v = w

\* "Stopping this helper cannot interrupt an installer": while a coordinator
\* may still kill the helper it spawned, neither that helper nor another one
\* that read the same ticket is past its confirmation (spawn, abort, commit).
AbortSparesInstaller ==
    confirm.stage # "idle" =>
        \A h \in Helper :
            h \in confirm.child \/ nonce[h] = confirm.child => hstep[h] \notin Confirmed

\* A helper does not keep the gate: it "must not hold the entry gate, and with
\* it every later launch, indefinitely" (wait_until_closed, install).
EntryFreed == \A h \in Helper : h \in Owners ~> h \notin Owners

\* From the moment the commit phase is over, in which peers close, PLVS runs
\* again at some time, if nothing is killed (install, the catch of
\* confirmInstall).
Interrupted == confirm.stage = "committed" \/ \E h \in Helper : hstep[h] \in Confirmed
Reopens == Interrupted ~> \E w \in Workbench : step[w] = "open" /\ confirm.stage = "idle"

\* The gate keeps the promise of StartupFence.
Fence == INSTANCE StartupFence WITH
    sessions <- Sessions,
    fresh <- {w \in Sessions : fresh[w]},
    installing <- {h \in Helper : hstep[h] \in Closed}
FenceSpec == Fence!Spec
=============================================================================
