-------------------------- MODULE UpdateGateProofs --------------------------
(***************************************************************************)
(* Proofs about UpdateGate for every set of workbenches and helpers and     *)
(* wherever processes may be killed.                                        *)
(***************************************************************************)
EXTENDS UpdateGate, TLAPS

(* The inductive invariant: the three lock files, then the processes. *)

\* admission.lock is held by one workbench at a time.
Serialized ==
    \A v, w \in Workbench : step[v] \in Admission /\ step[w] \in Admission => v = w

\* entry.lock is held by one helper, or shared by workbenches.
EntryExclusive ==
    /\ \A g, h \in Helper : hstep[g] \in Owning /\ hstep[h] \in Owning => g = h
    /\ \A w \in Workbench, h \in Helper : step[w] \in Entering => hstep[h] \notin Owning

\* running.lock is held by a helper, or shared by sessions.
RunningExclusive ==
    \A w \in Workbench, h \in Helper : hstep[h] \in Closed => step[w] \notin Session

\* What the probe found still holds when the lock is shared: others may only
\* have left.
ProbeHolds ==
    \A w \in Workbench : step[w] = "probed" /\ fresh[w] =>
        \A v \in Workbench : step[v] \notin Session
FreshAlone ==
    \A v, w \in Workbench :
        step[v] \in Session /\ step[w] \in Session /\ fresh[v] /\ fresh[w] => v = w

\* An installer is running only while its helper waits for it, or has died.
InstallerAwaited ==
    \A h \in Helper :
        /\ Alive(h) /\ installer[h] = "running" => hstep[h] \in Replacing
        /\ hstep[h] = "unspawned" => installer[h] = "none"

\* A coordinator is a session: it got its role after it entered.
CoordinatorRuns == \A w \in coordinator : step[w] \in Session

Locks == Serialized /\ EntryExclusive /\ RunningExclusive
Sound == Locks /\ ProbeHolds /\ FreshAlone /\ InstallerAwaited
GateInv == TypeOK /\ Sound /\ CoordinatorRuns

-----------------------------------------------------------------------------
(* What a step of one process does to the steps of all. *)

LEMMA BecomesOne ==
    ASSUME TypeOK, NEW w \in Workbench, NEW s, Becomes(w, s)
    PROVE  step'[w] = s /\ \A v \in Workbench \ {w} : step'[v] = step[v]
    BY DEF TypeOK, Becomes

LEMMA HelperBecomesOne ==
    ASSUME TypeOK, NEW h \in Helper, NEW s, HelperBecomes(h, s)
    PROVE  hstep'[h] = s /\ \A g \in Helper \ {h} : hstep'[g] = hstep[g]
    BY DEF TypeOK, HelperBecomes

\* A workbench takes no lock it does not hold yet and no helper moves, except
\* that one may be gone.
Withdraws ==
    /\ \A w \in Workbench :
          /\ step'[w] \in Admission => step[w] \in Admission
          /\ step'[w] \in Entering => step[w] \in Entering
          /\ step'[w] \in Session => step[w] \in Session
          /\ step'[w] = "probed" => step[w] = "probed"
          /\ step'[w] \in {"probed"} \cup Session => fresh'[w] = fresh[w]
    /\ \A h \in Helper : hstep'[h] \in {hstep[h], "gone"}
    /\ UNCHANGED installer

LEMMA WithdrawInv ==
    ASSUME Sound, Withdraws
    PROVE  Sound'
<1> USE DEF Sound, Withdraws, HelperStep
<1>1. Serialized'
    BY DEF Locks, Serialized
<1>2. "gone" \notin Owning /\ "gone" \notin Closed
    BY DEF Owning, Confirmed, Closed, Replacing
<1>3. EntryExclusive'
    BY <1>2 DEF Locks, EntryExclusive
<1>4. RunningExclusive'
    BY <1>2 DEF Locks, RunningExclusive
<1>5. ProbeHolds' /\ FreshAlone'
    BY DEF ProbeHolds, FreshAlone
<1>6. InstallerAwaited'
    BY DEF InstallerAwaited, Alive
<1> QED
    BY <1>1, <1>3, <1>4, <1>5, <1>6 DEF Locks

\* A workbench goes on without any helper moving, and without taking a lock.
LEMMA BecomesWithdraws ==
    ASSUME TypeOK, NEW w \in Workbench, NEW s, Becomes(w, s),
           s \notin Admission, s \in Session => step[w] \in Session,
           fresh' = fresh, UNCHANGED helpers
    PROVE  Withdraws
    BY BecomesOne DEF Withdraws, Admission, Entering, Session, helpers

-----------------------------------------------------------------------------
LEMMA InitInv == Init => GateInv
<1> SUFFICES ASSUME Init PROVE GateInv
    OBVIOUS
<1>1. TypeOK
    BY DEF Init, TypeOK, WorkbenchStep, HelperStep, Nonce, NotConfirming, Stage
<1>2. \A w \in Workbench : step[w] = "unborn"
    BY DEF Init
<1>3. \A h \in Helper : hstep[h] = "unspawned" /\ installer[h] = "none"
    BY DEF Init
<1> QED
    BY <1>1, <1>2, <1>3
    DEF GateInv, Sound, Locks, Serialized, EntryExclusive, RunningExclusive, ProbeHolds, FreshAlone,
        InstallerAwaited, CoordinatorRuns, Init, Admission, Entering, Session, Owning, Confirmed,
        Closed, Replacing, Alive

LEMMA EndsTyped == ASSUME TypeOK, NEW w \in Workbench, Ends(w) PROVE TypeOK'
<1>1. coordinator' \in {{}} \cup {{v} : v \in Workbench}
    <2>1. coordinator' = {} \/ coordinator' = coordinator
        <3>1. CASE coordinator = {}
            BY <3>1 DEF Ends
        <3>2. ASSUME NEW v \in Workbench, coordinator = {v}
              PROVE  coordinator' = {} \/ coordinator' = coordinator
            BY <3>2 DEF Ends
        <3> QED
            BY <3>1, <3>2 DEF TypeOK
    <2> QED
        BY <2>1 DEF TypeOK
<1>2. confirm' \in [stage : Stage, child : Nonce, startup : BOOLEAN]
    BY DEF TypeOK, Ends, NotConfirming, Stage, Nonce
<1> QED
    BY <1>1, <1>2 DEF TypeOK, Ends, Becomes, WorkbenchStep, helpers, files

LEMMA StartsTyped == ASSUME TypeOK, NEW w \in Workbench, Launch(w) \/ Starts(w) PROVE TypeOK'
<1> USE DEF TypeOK, Becomes, WorkbenchStep, Admission, Session, Nonce
<1>1. CASE Launch(w) \/ Check(w) \/ Admit(w) \/ Bar(w) \/ Share(w)
    BY <1>1 DEF Launch, Check, Admit, Bar, Share, helpers, files
<1>2. CASE Mark(w) \/ Probe(w) \/ Tidy(w)
    BY <1>2 DEF Mark, Probe, Tidy, helpers, files
<1>3. CASE Register(w) \/ Promote(w)
    BY <1>3 DEF Register, Promote, helpers, files
<1>4. CASE Dismiss(w) \/ Leave(w)
    BY <1>4, EndsTyped DEF Dismiss, Leave
<1> QED
    BY <1>1, <1>2, <1>3, <1>4 DEF Starts

LEMMA ConfirmsTyped ==
    ASSUME TypeOK, NEW w \in Workbench,
           \/ Confirms(w) \/ Close(w) \/ Kill(w)
           \/ \E h \in Helper, startup \in BOOLEAN : Confirm(w, h, startup)
    PROVE  TypeOK'
<1> USE DEF TypeOK, Stage, Nonce, NotConfirming
<1>1. CASE Close(w) \/ Kill(w)
    BY <1>1, EndsTyped DEF Close, Kill
<1>2. ASSUME NEW h \in Helper, NEW startup \in BOOLEAN, Confirm(w, h, startup) PROVE TypeOK'
    BY <1>2 DEF Confirm, HelperBecomes, HelperStep, launches
<1>3. Killed => hstep' \in [Helper -> HelperStep]
    BY DEF Killed, HelperStep
<1>4. CASE HelperReady(w) \/ HelperNotReady(w) \/ NotPrepared(w)
    <2>1. confirm' \in [stage : Stage, child : Nonce, startup : BOOLEAN]
        <3>1. confirm' = NotConfirming \/ confirm' = [confirm EXCEPT !.stage = "token"]
            BY <1>4 DEF HelperReady, HelperNotReady, NotPrepared
        <3>2. NotConfirming \in [stage : Stage, child : Nonce, startup : BOOLEAN]
            OBVIOUS
        <3>3. [confirm EXCEPT !.stage = "token"] \in [stage : Stage, child : Nonce, startup : BOOLEAN]
            OBVIOUS
        <3> QED
            BY ONLY <3>1, <3>2, <3>3
    <2>2. hstep' \in [Helper -> HelperStep]
        BY <1>3, <1>4 DEF HelperReady, HelperNotReady, NotPrepared
    <2> QED
        BY <1>4, <2>1, <2>2 DEF HelperReady, HelperNotReady, NotPrepared, launches, files
<1>5. CASE Prepared(w)
    <2>1. confirm' \in [stage : Stage, child : Nonce, startup : BOOLEAN]
        BY <1>5 DEF Prepared
    <2> QED
        BY <1>5, <2>1 DEF Prepared, launches, helpers, files
<1>7. CASE CommitInstall(w)
    BY <1>7 DEF CommitInstall, Becomes, WorkbenchStep, Session, helpers
<1>6. CASE Restart(w)
    <2>1. step' \in [Workbench -> WorkbenchStep]
        BY <1>6 DEF Restart, WorkbenchStep, Session
    <2> QED
        BY <1>3, <1>6, <2>1 DEF Restart, files
<1> QED
    BY <1>1, <1>2, <1>4, <1>5, <1>6, <1>7 DEF Confirms

LEMMA HelpsTyped ==
    ASSUME TypeOK, NEW h \in Helper, Helps(h) \/ InstallerEnds(h) \/ Crash(h)
    PROVE  TypeOK'
<1> USE DEF TypeOK, HelperBecomes, HelperStep, Owning, Confirmed, Closed, Replacing, Nonce
<1>1. CASE ReadTicket(h) \/ Claim(h) \/ Ready(h) \/ SeeCommit(h) \/ Expire(h)
    BY <1>1 DEF ReadTicket, Claim, Ready, SeeCommit, Expire, launches, files
<1>2. CASE WaitClosed(h) \/ NotClosed(h) \/ Crash(h)
    BY <1>2 DEF WaitClosed, NotClosed, Crash, launches, files
<1>3. CASE Record(h) \/ Track(h) \/ Report(h) \/ Release(h)
    <2>1. attempt' \in [phase : {"none", "installing", "finished", "failed"},
                        helper : Nonce, tracked : BOOLEAN]
        <3>1. \/ attempt' \in {attempt, FailedAttempt}
              \/ \E t \in BOOLEAN :
                    attempt' = [phase |-> "installing", helper |-> {h}, tracked |-> t]
            BY <1>3 DEF Record, Track, Report, Release
        <3>2. FailedAttempt \in [phase : {"none", "installing", "finished", "failed"},
                                 helper : Nonce, tracked : BOOLEAN]
            BY DEF FailedAttempt
        <3> QED
            BY <3>1, <3>2
    <2>2. hstep' \in [Helper -> HelperStep]
        BY <1>3 DEF Record, Track, Report, Release
    <2> QED
        BY <1>3, <2>1, <2>2 DEF Record, Track, Report, Release, launches, files
<1>4. CASE StartInstaller(h) \/ InstallerEnds(h)
    BY <1>4 DEF StartInstaller, InstallerEnds, launches, files
<1>5. CASE Settle(h)
    <2>1. attempt' \in [phase : {"none", "installing", "finished", "failed"},
                        helper : Nonce, tracked : BOOLEAN]
        BY <1>5 DEF Settle
    <2> QED
        BY <1>5, <2>1 DEF Settle, launches, files
<1>6. CASE Relaunch(h)
    BY <1>6 DEF Relaunch, Becomes, WorkbenchStep, files
<1> QED
    BY <1>1, <1>2, <1>3, <1>4, <1>5, <1>6 DEF Helps

LEMMA NextTyped == ASSUME TypeOK, [Next]_vars PROVE TypeOK'
<1>1. CASE UNCHANGED vars
    BY <1>1 DEF TypeOK, vars, launches, helpers, files
<1> QED
    BY <1>1, StartsTyped, ConfirmsTyped, HelpsTyped DEF Next

-----------------------------------------------------------------------------
(* The steps of a workbench that enters. *)

LEMMA AdmitInv == ASSUME GateInv, NEW w \in Workbench, Admit(w) PROVE Sound'
<1> USE DEF GateInv, Sound, Locks
<1>1. step'[w] = "admitted" /\ \A v \in Workbench \ {w} : step'[v] = step[v]
    BY BecomesOne DEF Admit
<1>2. UNCHANGED <<fresh, hstep, installer>>
    BY DEF Admit, helpers
<1>3. \A v \in Workbench : step[v] \notin Admission
    BY DEF Admit, AdmissionFree
<1>4. Serialized'
    BY <1>1, <1>3 DEF Serialized
<1>5. EntryExclusive' /\ RunningExclusive'
    BY <1>1, <1>2 DEF EntryExclusive, RunningExclusive, Entering, Session
<1>6. ProbeHolds' /\ FreshAlone' /\ InstallerAwaited'
    BY <1>1, <1>2 DEF ProbeHolds, FreshAlone, InstallerAwaited, Alive, Session
<1> QED
    BY <1>4, <1>5, <1>6

LEMMA BarInv == ASSUME GateInv, NEW w \in Workbench, Bar(w) PROVE Sound'
<1> USE DEF GateInv, Sound, Locks
<1>1. /\ step'[w] \in {"barred", "refused"} /\ \A v \in Workbench \ {w} : step'[v] = step[v]
      /\ step'[w] = "barred" => Owners = {}
      /\ step[w] = "admitted"
    BY BecomesOne DEF Bar
<1>2. UNCHANGED <<fresh, hstep, installer>>
    BY DEF Bar, helpers
<1>3. Serialized'
    BY <1>1 DEF Serialized, Admission
<1>4. EntryExclusive' /\ RunningExclusive'
    BY <1>1, <1>2 DEF EntryExclusive, RunningExclusive, Entering, Session, Owners
<1>5. ProbeHolds' /\ FreshAlone' /\ InstallerAwaited'
    BY <1>1, <1>2 DEF ProbeHolds, FreshAlone, InstallerAwaited, Alive, Session
<1> QED
    BY <1>3, <1>4, <1>5

LEMMA ProbeInv == ASSUME GateInv, NEW w \in Workbench, Probe(w) PROVE Sound'
<1> USE DEF GateInv, Sound, Locks
<1>1. /\ step'[w] = "probed" /\ \A v \in Workbench \ {w} : step'[v] = step[v]
      /\ step[w] = "barred"
    BY BecomesOne DEF Probe
<1>2. /\ fresh'[w] => \A v \in Workbench : step[v] \notin Session
      /\ \A v \in Workbench \ {w} : fresh'[v] = fresh[v]
    BY DEF Probe, TypeOK, Sessions
<1>3. UNCHANGED <<hstep, installer>>
    BY DEF Probe, helpers
<1>4. Serialized'
    BY <1>1 DEF Serialized, Admission
<1>5. EntryExclusive' /\ RunningExclusive'
    BY <1>1, <1>3 DEF EntryExclusive, RunningExclusive, Entering, Session
<1>6. ProbeHolds' /\ FreshAlone' /\ InstallerAwaited'
    BY <1>1, <1>2, <1>3 DEF ProbeHolds, FreshAlone, InstallerAwaited, Alive, Session
<1> QED
    BY <1>4, <1>5, <1>6

\* running.lock is shared under entry.lock, so no helper owns either; nobody
\* else is between probe and lock, so a fresh session stays the only one.
LEMMA ShareInv == ASSUME GateInv, NEW w \in Workbench, Share(w) PROVE Sound'
<1> USE DEF GateInv, Sound, Locks
<1>1. /\ step'[w] = "entered" /\ \A v \in Workbench \ {w} : step'[v] = step[v]
      /\ step[w] = "probed"
    BY BecomesOne DEF Share
<1>2. UNCHANGED <<fresh, hstep, installer>>
    BY DEF Share, helpers
<1>3. Serialized'
    BY <1>1 DEF Serialized, Admission
<1>4. \A h \in Helper : hstep[h] \notin Closed
    BY <1>1 DEF EntryExclusive, Entering, Owning, Confirmed
<1>5. EntryExclusive' /\ RunningExclusive'
    BY <1>1, <1>2, <1>4 DEF EntryExclusive, RunningExclusive, Entering, Session
<1>6. \A v \in Workbench \ {w} : step[v] # "probed"
    BY <1>1 DEF Serialized, Admission
<1>7. ProbeHolds'
    BY <1>1, <1>2, <1>6 DEF ProbeHolds, Session
<1>8. FreshAlone'
    BY <1>1, <1>2 DEF ProbeHolds, FreshAlone, Session
<1>9. InstallerAwaited'
    BY <1>2 DEF InstallerAwaited, Alive
<1> QED
    BY <1>3, <1>5, <1>7, <1>8, <1>9

\* Every other step of a workbench withdraws.
LEMMA OtherStepsWithdraw ==
    ASSUME GateInv, NEW w \in Workbench,
           \/ Launch(w) \/ Check(w) \/ Mark(w) \/ Tidy(w) \/ Register(w) \/ Promote(w)
           \/ Dismiss(w) \/ Leave(w) \/ Close(w) \/ Kill(w) \/ Confirms(w)
    PROVE  Withdraws
<1> USE DEF GateInv
<1>1. CASE Launch(w) \/ Check(w) \/ Mark(w)
    BY <1>1, BecomesWithdraws DEF Launch, Check, Mark, Admission, Session
<1>2. CASE Tidy(w) \/ Register(w)
    BY <1>2, BecomesWithdraws DEF Tidy, Register, Admission, Session
<1>3. CASE Promote(w) \/ Prepared(w)
    BY <1>3 DEF Promote, Prepared, Withdraws, helpers, launches
<1>4. CASE Dismiss(w) \/ Leave(w) \/ Close(w) \/ Kill(w)
    <2>1. step'[w] = "unborn" /\ \A v \in Workbench \ {w} : step'[v] = step[v]
        BY <1>4, BecomesOne DEF Dismiss, Leave, Close, Kill, Ends
    <2>2. UNCHANGED <<hstep, installer>> /\ \A v \in Workbench \ {w} : fresh'[v] = fresh[v]
        BY <1>4 DEF Dismiss, Leave, Close, Kill, Ends, helpers, TypeOK
    <2> QED
        BY <2>1, <2>2 DEF Withdraws, Admission, Entering, Session
<1>5. Killed => \A h \in Helper : hstep'[h] \in {hstep[h], "gone"}
    BY DEF Killed
<1>6. CASE HelperReady(w) \/ HelperNotReady(w) \/ NotPrepared(w)
    BY <1>5, <1>6 DEF HelperReady, HelperNotReady, NotPrepared, Withdraws, launches
<1>7. coordinator = {w} => step[w] \in Session
    BY DEF CoordinatorRuns
<1>8. CASE CommitInstall(w)
    BY <1>7, <1>8, BecomesWithdraws DEF CommitInstall, Admission
<1>9. CASE Restart(w)
    <2>1. step[w] \in Session
        BY <1>7, <1>9 DEF Restart
    <2>2. PICK u \in Workbench :
             step[u] = "unborn" /\ step' = [step EXCEPT ![w] = "leaving", ![u] = "launched"]
        BY <1>9 DEF Restart
    <2>3. /\ step'[w] = "leaving" /\ step'[u] = "launched"
          /\ \A v \in Workbench \ {u, w} : step'[v] = step[v]
        BY <2>1, <2>2 DEF TypeOK, Session
    <2> QED
        BY <1>5, <1>9, <2>1, <2>3 DEF Restart, Withdraws, Admission, Entering, Session
<1> QED
    BY <1>1, <1>2, <1>3, <1>4, <1>6, <1>8, <1>9 DEF Confirms

-----------------------------------------------------------------------------
(* The steps of a helper. *)

\* A helper that goes on to s takes no lock it does not hold yet.
LEMMA HelperGoesOn ==
    ASSUME GateInv, NEW h \in Helper, NEW s, HelperBecomes(h, s),
           s \in Owning => hstep[h] \in Owning,
           s \in Closed => hstep[h] \in Closed,
           \A w \in Workbench : step'[w] = step[w] \/ step'[w] = "launched",
           fresh' = fresh, InstallerAwaited'
    PROVE  Sound'
<1> USE DEF GateInv, Sound, Locks
<1>1. hstep'[h] = s /\ \A g \in Helper \ {h} : hstep'[g] = hstep[g]
    BY HelperBecomesOne
<1>2. Serialized'
    BY DEF Serialized, Admission
<1>3. EntryExclusive'
    BY <1>1 DEF EntryExclusive, Entering
<1>4. RunningExclusive'
    BY <1>1 DEF RunningExclusive, Session
<1>5. ProbeHolds' /\ FreshAlone'
    BY DEF ProbeHolds, FreshAlone, Session
<1> QED
    BY <1>2, <1>3, <1>4, <1>5

\* Its installer does not run before or after, or it is waited for.
LEMMA Awaited ==
    ASSUME GateInv, NEW h \in Helper, NEW s, HelperBecomes(h, s), UNCHANGED installer,
           s # "unspawned", hstep[h] # "gone",
           hstep[h] \in Replacing => s \in Replacing \/ s = "gone" \/ installer[h] # "running"
    PROVE  InstallerAwaited'
<1>1. hstep'[h] = s /\ \A g \in Helper \ {h} : hstep'[g] = hstep[g]
    BY HelperBecomesOne DEF GateInv
<1>2. installer[h] = "running" => hstep[h] \in Replacing
    BY DEF GateInv, Sound, InstallerAwaited, Alive
<1> QED
    BY <1>1, <1>2 DEF GateInv, Sound, InstallerAwaited, Alive

LEMMA HelperStepInv ==
    ASSUME GateInv, NEW h \in Helper,
           \/ ReadTicket(h) \/ Ready(h) \/ SeeCommit(h) \/ Expire(h) \/ NotClosed(h)
           \/ Record(h) \/ Track(h) \/ Settle(h) \/ Release(h) \/ Relaunch(h) \/ Report(h)
           \/ Crash(h)
    PROVE  Sound'
<1> USE DEF Owning, Confirmed, Closed, Replacing
<1>1. CASE ReadTicket(h) \/ Ready(h) \/ SeeCommit(h) \/ Expire(h)
    <2>1. PICK s \in {"gone", "identified", "ready", "erring", "waiting"} :
             /\ HelperBecomes(h, s)
             /\ hstep[h] \in {"spawned", "claimed", "ready"}
             /\ s \in {"ready", "waiting"} => hstep[h] \in {"claimed", "ready"}
        BY <1>1 DEF ReadTicket, Ready, SeeCommit, Expire
    <2>2. UNCHANGED <<step, fresh, installer>>
        BY <1>1 DEF ReadTicket, Ready, SeeCommit, Expire, launches
    <2>3. InstallerAwaited'
        BY <2>1, <2>2, Awaited
    <2> QED
        BY <2>1, <2>2, <2>3, HelperGoesOn
<1>2. CASE NotClosed(h) \/ Record(h) \/ Track(h) \/ Settle(h)
    <2>1. PICK s \in {"failing", "recorded", "tracked", "settled"} :
             /\ HelperBecomes(h, s)
             /\ hstep[h] \in {"waiting", "closed", "recorded", "installing", "tracked"}
             /\ s = "recorded" => hstep[h] = "closed"
             /\ s = "tracked" <=> hstep[h] = "installing"
             /\ hstep[h] = "tracked" => installer[h] # "running"
        BY <1>2 DEF NotClosed, Record, Track, Settle
    <2>2. UNCHANGED <<step, fresh, installer>>
        BY <1>2 DEF NotClosed, Record, Track, Settle, launches
    <2>3. InstallerAwaited'
        BY <2>1, <2>2, Awaited
    <2> QED
        BY <2>1, <2>2, <2>3, HelperGoesOn
<1>3. CASE Release(h) \/ Report(h) \/ Crash(h)
    <2>1. PICK s \in {"reopening", "retreating", "gone"} :
             /\ HelperBecomes(h, s)
             /\ hstep[h] # "gone"
             /\ s # "gone" => hstep[h] \in {"settled", "failing"}
        BY <1>3 DEF Release, Report, Crash, Alive
    <2>2. UNCHANGED <<step, fresh, installer>>
        BY <1>3 DEF Release, Report, Crash, launches
    <2>3. InstallerAwaited'
        BY <2>1, <2>2, Awaited
    <2> QED
        BY <2>1, <2>2, <2>3, HelperGoesOn
<1>4. CASE Relaunch(h)
    <2>1. PICK s \in {"gone", "erring"} :
             HelperBecomes(h, s) /\ hstep[h] \in {"reopening", "retreating"}
        BY <1>4 DEF Relaunch
    <2>2. UNCHANGED <<fresh, installer>>
        BY <1>4 DEF Relaunch
    <2>3. \A w \in Workbench : step'[w] = step[w] \/ step'[w] = "launched"
        BY <1>4, BecomesOne DEF Relaunch, GateInv
    <2>4. InstallerAwaited'
        BY <2>1, <2>2, Awaited
    <2> QED
        BY <2>1, <2>2, <2>3, <2>4, HelperGoesOn
<1> QED
    BY <1>1, <1>2, <1>3, <1>4

LEMMA ConfirmInv ==
    ASSUME GateInv, NEW w \in Workbench, NEW h \in Helper, NEW t, Confirm(w, h, t)
    PROVE  Sound'
<1> USE DEF Owning, Confirmed, Closed, Replacing
<1>1. HelperBecomes(h, "spawned") /\ hstep[h] = "unspawned" /\ UNCHANGED <<step, fresh, installer>>
    BY DEF Confirm, launches
<1>2. InstallerAwaited'
    BY <1>1, Awaited
<1> QED
    BY <1>1, <1>2, HelperGoesOn

\* entry.lock is taken while no workbench is between admission and session.
LEMMA ClaimInv == ASSUME GateInv, NEW h \in Helper, Claim(h) PROVE Sound'
<1> USE DEF Owning, Confirmed, Closed, Replacing
<1>1. PICK s \in {"claimed", "erring"} :
         HelperBecomes(h, s) /\ hstep[h] = "identified" /\ (s = "claimed" => Owners = {})
    BY DEF Claim
<1>2. UNCHANGED <<step, fresh, installer>> /\ \A w \in Workbench : step[w] \notin Entering
    BY DEF Claim, launches, AdmissionFree, Admission, Entering
<1>3. hstep'[h] = s /\ \A g \in Helper \ {h} : hstep'[g] = hstep[g]
    BY <1>1, HelperBecomesOne DEF GateInv
<1>4. InstallerAwaited'
    BY <1>1, <1>2, Awaited
<1>5. EntryExclusive'
    BY <1>1, <1>2, <1>3 DEF GateInv, Sound, Locks, EntryExclusive, Owners
<1>6. RunningExclusive'
    BY <1>1, <1>2, <1>3 DEF GateInv, Sound, Locks, RunningExclusive
<1> QED
    BY <1>2, <1>4, <1>5, <1>6 DEF GateInv, Sound, Locks, Serialized, ProbeHolds, FreshAlone

LEMMA WaitClosedInv == ASSUME GateInv, NEW h \in Helper, WaitClosed(h) PROVE Sound'
<1> USE DEF Owning, Confirmed, Closed, Replacing
<1>1. HelperBecomes(h, "closed") /\ hstep[h] = "waiting"
    BY DEF WaitClosed
<1>2. UNCHANGED <<step, fresh, installer>> /\ \A w \in Workbench : step[w] \notin Session
    BY DEF WaitClosed, launches, Sessions
<1>3. hstep'[h] = "closed" /\ \A g \in Helper \ {h} : hstep'[g] = hstep[g]
    BY <1>1, HelperBecomesOne DEF GateInv
<1>4. InstallerAwaited'
    BY <1>1, <1>2, Awaited
<1>5. EntryExclusive'
    BY <1>1, <1>2, <1>3 DEF GateInv, Sound, Locks, EntryExclusive
<1>6. RunningExclusive'
    BY <1>2 DEF RunningExclusive
<1> QED
    BY <1>2, <1>4, <1>5, <1>6 DEF GateInv, Sound, Locks, Serialized, ProbeHolds, FreshAlone

LEMMA InstallerInv ==
    ASSUME GateInv, NEW h \in Helper, StartInstaller(h) \/ InstallerEnds(h)
    PROVE  Sound'
<1> USE DEF Owning, Confirmed, Closed, Replacing
<1>1. CASE StartInstaller(h)
    <2>1. /\ HelperBecomes(h, "installing") /\ hstep[h] = "recorded"
          /\ UNCHANGED <<step, fresh>> /\ \A g \in Helper \ {h} : installer'[g] = installer[g]
        BY <1>1 DEF StartInstaller, launches, GateInv, TypeOK
    <2>2. hstep'[h] = "installing" /\ \A g \in Helper \ {h} : hstep'[g] = hstep[g]
        BY <2>1, HelperBecomesOne DEF GateInv
    <2>3. InstallerAwaited'
        BY <2>1, <2>2 DEF GateInv, Sound, InstallerAwaited, Alive
    <2> QED
        BY <2>1, <2>3, HelperGoesOn
<1>2. CASE InstallerEnds(h)
    <2>1. UNCHANGED <<step, fresh, hstep>> /\ installer[h] = "running"
        BY <1>2 DEF InstallerEnds, launches
    <2>2. \A g \in Helper : installer'[g] = "running" => installer[g] = "running"
        BY <1>2 DEF InstallerEnds, GateInv, TypeOK
    <2>3. \A g \in Helper : hstep[g] = "unspawned" => installer'[g] = installer[g]
        BY <1>2 DEF InstallerEnds, GateInv, TypeOK, Sound, InstallerAwaited
    <2>4. InstallerAwaited'
        BY <2>1, <2>2, <2>3 DEF GateInv, Sound, InstallerAwaited, Alive
    <2> QED
        BY <2>1, <2>4 DEF GateInv, Sound, Locks, Serialized, EntryExclusive, RunningExclusive,
                          ProbeHolds, FreshAlone
<1> QED
    BY <1>1, <1>2

LEMMA CoordinatorInv == ASSUME GateInv, [Next]_vars PROVE CoordinatorRuns'
<1> USE DEF GateInv
<1>1. CASE UNCHANGED vars
    BY <1>1 DEF vars, launches, CoordinatorRuns
<1>2. ASSUME NEW w \in Workbench,
             \/ Launch(w) \/ Check(w) \/ Mark(w) \/ Admit(w) \/ Bar(w) \/ Probe(w)
             \/ Share(w) \/ Tidy(w)
      PROVE  CoordinatorRuns'
    <2>1. PICK s \in WorkbenchStep : Becomes(w, s) /\ (s \notin Session => step[w] \notin Session)
        BY <1>2
        DEF Launch, Check, Mark, Admit, Bar, Probe, Share, Tidy, WorkbenchStep, Admission, Session
    <2>2. UNCHANGED coordinator
        BY <1>2 DEF Launch, Check, Mark, Admit, Bar, Probe, Share, Tidy
    <2> QED
        BY <2>1, <2>2, BecomesOne DEF CoordinatorRuns, TypeOK
<1>3. ASSUME NEW w \in Workbench, Register(w) \/ Promote(w) PROVE CoordinatorRuns'
    BY <1>3 DEF Register, Promote, Becomes, CoordinatorRuns, TypeOK, Session
<1>4. ASSUME NEW w \in Workbench, Ends(w) PROVE CoordinatorRuns'
    <2>1. \A v \in Workbench \ {w} : step'[v] = step[v]
        BY <1>4, BecomesOne DEF Ends
    <2> QED
        BY <1>4, <2>1 DEF Ends, CoordinatorRuns, TypeOK
<1>5. ASSUME NEW w \in Workbench,
             \/ HelperReady(w) \/ HelperNotReady(w) \/ Prepared(w) \/ NotPrepared(w)
             \/ \E h \in Helper, t \in BOOLEAN : Confirm(w, h, t)
      PROVE  CoordinatorRuns'
    BY <1>5 DEF HelperReady, HelperNotReady, Prepared, NotPrepared, Confirm, launches, CoordinatorRuns
<1>6. ASSUME NEW w \in Workbench, CommitInstall(w) \/ Restart(w) PROVE CoordinatorRuns'
    <2>1. coordinator' = {w} /\ coordinator = {w}
        BY <1>6 DEF CommitInstall, Restart
    <2>2. step[w] \in Session
        BY <2>1 DEF CoordinatorRuns
    <2>3. step'[w] = "leaving"
        BY <1>6, <2>2 DEF CommitInstall, Restart, Becomes, TypeOK, Session
    <2> QED
        BY <2>1, <2>3 DEF CoordinatorRuns, Session
<1>7. ASSUME NEW h \in Helper, Relaunch(h) PROVE CoordinatorRuns'
    <2>1. \A w \in Workbench : step'[w] = step[w] \/ step[w] = "unborn"
        BY <1>7, BecomesOne DEF Relaunch
    <2> QED
        BY <1>7, <2>1 DEF Relaunch, CoordinatorRuns, TypeOK, Session
<1>8. ASSUME NEW h \in Helper,
             \/ ReadTicket(h) \/ Claim(h) \/ Ready(h) \/ SeeCommit(h) \/ Expire(h)
             \/ WaitClosed(h) \/ NotClosed(h) \/ Record(h) \/ StartInstaller(h) \/ Track(h)
             \/ Settle(h) \/ Release(h) \/ Report(h) \/ InstallerEnds(h) \/ Crash(h)
      PROVE  CoordinatorRuns'
    BY <1>8 DEF ReadTicket, Claim, Ready, SeeCommit, Expire, WaitClosed, NotClosed, Record,
                StartInstaller, Track, Settle, Release, Report, InstallerEnds, Crash, launches,
                CoordinatorRuns
<1> QED
    BY <1>1, <1>2, <1>3, <1>4, <1>5, <1>6, <1>7, <1>8
    DEF Next, Starts, Confirms, Helps, Dismiss, Leave, Close, Kill

LEMMA NextInv == ASSUME GateInv, [Next]_vars PROVE GateInv'
<1>1. TypeOK'
    BY NextTyped DEF GateInv
<1>2. CoordinatorRuns'
    BY CoordinatorInv
<1>3. Sound'
    <2>1. CASE UNCHANGED vars
        BY <2>1 DEF vars, launches, helpers, GateInv, Sound, Locks, Serialized, EntryExclusive,
                    RunningExclusive, ProbeHolds, FreshAlone, InstallerAwaited, Alive
    <2>2. ASSUME NEW w \in Workbench,
                 \/ Launch(w) \/ Starts(w) \/ Confirms(w) \/ Close(w) \/ Kill(w)
                 \/ \E h \in Helper, t \in BOOLEAN : Confirm(w, h, t)
          PROVE  Sound'
        BY <2>2, AdmitInv, BarInv, ProbeInv, ShareInv, OtherStepsWithdraw, WithdrawInv, ConfirmInv
        DEF Starts, GateInv
    <2>3. ASSUME NEW h \in Helper, Helps(h) \/ InstallerEnds(h) \/ Crash(h) PROVE Sound'
        BY <2>3, HelperStepInv, ClaimInv, WaitClosedInv, InstallerInv DEF Helps
    <2> QED
        BY <2>1, <2>2, <2>3 DEF Next
<1> QED
    BY <1>1, <1>2, <1>3 DEF GateInv

-----------------------------------------------------------------------------
LEMMA GateInductive == Spec => []GateInv
    BY InitInv, NextInv, PTL DEF Spec

\* The state of the processes, the files and the records stays well formed.
THEOREM GateTypeCorrect == Spec => []TypeOK
<1>1. GateInv => TypeOK
    BY DEF GateInv
<1> QED
    BY <1>1, GateInductive, PTL

\* While a helper that lives has its installer running, no workbench runs,
\* wherever other processes are killed.
THEOREM InstallExclusive == Spec => []ExclusiveInstall
<1>1. GateInv => ExclusiveInstall
    BY DEF GateInv, Sound, Locks, InstallerAwaited, RunningExclusive, ExclusiveInstall, Sessions,
           Closed
<1> QED
    BY <1>1, GateInductive, PTL

\* At most one of the workbenches that run took itself for a fresh session.
THEOREM FreshUnique == Spec => []OneFresh
<1>1. GateInv => OneFresh
    BY DEF GateInv, Sound, FreshAlone, OneFresh, Sessions
<1> QED
    BY <1>1, GateInductive, PTL

-----------------------------------------------------------------------------
(* The handshake: what a coordinator may still kill is not confirmed yet. *)

\* A nonce belongs to the helper it was drawn for, and nobody has seen it before.
NonceNew ==
    \A h \in Helper : hstep[h] = "unspawned" =>
        nonce[h] = {} /\ commit # {h} /\ \A g \in Helper : nonce[g] # {h}
\* A helper waits for its marker with a nonce.
NonceRead ==
    \A h \in Helper : hstep[h] \in {"identified", "claimed", "ready"} => nonce[h] # {}
\* While a confirmation is going on, its ticket is the last one, it is the only
\* one its helper can have read, and its marker is not written.
TicketLast ==
    confirm.stage # "idle" =>
        /\ \E h \in Helper : confirm.child = {h} /\ hstep[h] # "unspawned"
        /\ ticket \in {{}, confirm.child}
        /\ commit # confirm.child
        /\ \A h \in confirm.child : nonce[h] \in {{}, confirm.child}
\* Only a helper that was spawned has a ticket on disk.
TicketSpawned == \A h \in Helper : ticket = {h} => hstep[h] # "unspawned"
HandshakeInv == NonceNew /\ NonceRead /\ TicketSpawned /\ TicketLast /\ AbortSparesInstaller

\* No marker or nonce is written, and no helper goes through the handshake.
HandshakeKept ==
    /\ UNCHANGED nonce
    /\ commit' \in {{}, commit} /\ ticket' \in {{}, ticket}
    /\ \/ confirm'.stage = "idle"
       \/ confirm.stage # "idle" /\ confirm'.child = confirm.child
    /\ \A h \in Helper :
          /\ hstep'[h] \in Confirmed => hstep[h] \in Confirmed
          /\ hstep'[h] = "unspawned" <=> hstep[h] = "unspawned"
          /\ hstep'[h] \in {"identified", "claimed", "ready"} =>
                hstep[h] \in {"identified", "claimed", "ready"}

LEMMA KeptInv == ASSUME HandshakeInv, HandshakeKept PROVE HandshakeInv'
<1> USE DEF HandshakeInv, HandshakeKept
<1>1. NonceNew' /\ NonceRead' /\ TicketSpawned'
    BY DEF NonceNew, NonceRead, TicketSpawned
<1>2. TicketLast'
    BY DEF TicketLast
<1>3. AbortSparesInstaller'
    BY DEF AbortSparesInstaller
<1> QED
    BY <1>1, <1>2, <1>3

\* A step of a workbench outside its confirmation, or an end of it.
LEMMA WorkbenchKeeps ==
    ASSUME TypeOK, HandshakeInv, NEW w \in Workbench,
           Launch(w) \/ Starts(w) \/ Confirms(w) \/ Close(w) \/ Kill(w), ~CommitInstall(w)
    PROVE  HandshakeKept
<1>1. CASE \/ Launch(w) \/ Check(w) \/ Mark(w) \/ Admit(w) \/ Bar(w) \/ Probe(w) \/ Share(w)
           \/ Tidy(w) \/ Register(w) \/ Promote(w)
    <2>1. UNCHANGED <<confirm, hstep, nonce>>
        BY <1>1 DEF Launch, Check, Mark, Admit, Bar, Probe, Share, Tidy, Register, Promote, helpers
    <2>2. commit' \in {{}, commit} /\ ticket' \in {{}, ticket}
        BY <1>1 DEF Launch, Check, Mark, Admit, Bar, Probe, Share, Tidy, Register, Promote, files
    <2> QED
        BY <2>1, <2>2 DEF HandshakeKept
<1>2. CASE Ends(w)
    BY <1>2 DEF Ends, HandshakeKept, NotConfirming, helpers, files
<1>3. CASE Prepared(w)
    <2>1. confirm.stage # "idle" /\ confirm'.child = confirm.child
        BY <1>3 DEF Prepared, TypeOK
    <2> QED
        BY <1>3, <2>1 DEF Prepared, HandshakeKept, helpers, files
<1>4. ASSUME confirm.stage # "idle", Killed
      PROVE  \A h \in Helper :
                /\ hstep'[h] \in {hstep[h], "gone"}
                /\ hstep'[h] = "unspawned" <=> hstep[h] = "unspawned"
    <2>1. \A h \in confirm.child : hstep[h] # "unspawned"
        BY <1>4 DEF HandshakeInv, TicketLast
    <2> QED
        BY <1>4, <2>1 DEF Killed
<1>5. "gone" \notin Confirmed
    BY DEF Confirmed, Closed, Replacing
<1>6. CASE HelperReady(w) \/ HelperNotReady(w) \/ NotPrepared(w) \/ Restart(w)
    <2>1. confirm.stage # "idle" /\ (UNCHANGED hstep \/ Killed)
        BY <1>6 DEF HelperReady, HelperNotReady, NotPrepared, Restart
    <2>2. confirm'.stage = "idle" \/ confirm'.child = confirm.child
        <3>1. confirm' = NotConfirming \/ confirm' = [confirm EXCEPT !.stage = "token"]
            BY <1>6 DEF HelperReady, HelperNotReady, NotPrepared, Restart
        <3> QED
            BY <3>1 DEF NotConfirming, TypeOK
    <2>3. UNCHANGED <<nonce, commit, ticket>>
        BY <1>6 DEF HelperReady, HelperNotReady, NotPrepared, Restart, files
    <2> QED
        BY <1>4, <1>5, <2>1, <2>2, <2>3 DEF HandshakeKept
<1> QED
    BY <1>1, <1>2, <1>3, <1>6 DEF Starts, Confirms, Dismiss, Leave, Close, Kill

\* A helper before it reads its ticket or after it saw its marker.
LEMMA HelperKeeps ==
    ASSUME TypeOK, HandshakeInv, NEW h \in Helper, Helps(h) \/ InstallerEnds(h) \/ Crash(h),
           ~ReadTicket(h), ~SeeCommit(h)
    PROVE  HandshakeKept
<1> USE DEF Confirmed, Closed, Replacing
<1>1. UNCHANGED <<confirm, nonce, ticket, commit>>
    BY DEF Helps, Claim, Ready, Expire, WaitClosed, NotClosed, Record, StartInstaller, Track,
           Settle, Release, Relaunch, Report, InstallerEnds, Crash, files
<1>2. CASE InstallerEnds(h)
    BY <1>1, <1>2 DEF InstallerEnds, HandshakeKept
<1>3. ASSUME NEW s, HelperBecomes(h, s), s # "unspawned", hstep[h] # "unspawned",
             s \in Confirmed => hstep[h] \in Confirmed,
             s \in {"identified", "claimed", "ready"} =>
                hstep[h] \in {"identified", "claimed", "ready"}
      PROVE  HandshakeKept
    BY <1>1, <1>3, HelperBecomesOne DEF HandshakeKept
<1>4. CASE Claim(h) \/ Ready(h) \/ Expire(h)
    BY <1>3, <1>4 DEF Claim, Ready, Expire
<1>5. CASE WaitClosed(h) \/ NotClosed(h) \/ Record(h) \/ StartInstaller(h) \/ Track(h) \/ Settle(h)
    BY <1>3, <1>5 DEF WaitClosed, NotClosed, Record, StartInstaller, Track, Settle
<1>6. CASE Release(h) \/ Relaunch(h) \/ Report(h) \/ Crash(h)
    BY <1>3, <1>6 DEF Release, Relaunch, Report, Crash, Alive
<1> QED
    BY <1>2, <1>4, <1>5, <1>6 DEF Helps

LEMMA ConfirmHands ==
    ASSUME TypeOK, HandshakeInv, NEW w \in Workbench, NEW h \in Helper, NEW t, Confirm(w, h, t)
    PROVE  HandshakeInv'
<1> USE DEF HandshakeInv, Confirmed, Closed, Replacing
<1>1. /\ hstep[h] = "unspawned" /\ hstep'[h] = "spawned"
      /\ \A g \in Helper \ {h} : hstep'[g] = hstep[g]
    BY HelperBecomesOne DEF Confirm
<1>2. /\ confirm'.stage = "spawning" /\ confirm'.child = {h} /\ ticket' = {h}
      /\ UNCHANGED <<nonce, commit>>
    BY DEF Confirm
<1>3. commit # {h} /\ \A g \in Helper : nonce[g] # {h}
    BY <1>1 DEF NonceNew
<1>4. NonceNew' /\ NonceRead' /\ TicketSpawned'
    BY <1>1, <1>2 DEF NonceNew, NonceRead, TicketSpawned
<1>5. nonce[h] = {}
    BY <1>1 DEF NonceNew
<1>6. TicketLast'
    BY <1>1, <1>2, <1>3, <1>5 DEF TicketLast
<1>7. AbortSparesInstaller'
    BY <1>1, <1>2, <1>3 DEF AbortSparesInstaller
<1> QED
    BY <1>4, <1>6, <1>7

LEMMA ReadTicketHands ==
    ASSUME TypeOK, HandshakeInv, NEW h \in Helper, ReadTicket(h) PROVE HandshakeInv'
<1> USE DEF HandshakeInv, Confirmed, Closed, Replacing
<1>1. PICK s \in {"gone", "identified"} :
         HelperBecomes(h, s) /\ hstep[h] = "spawned" /\ (s = "identified" => ticket # {})
    BY DEF ReadTicket
<1>2. hstep'[h] = s /\ \A g \in Helper \ {h} : hstep'[g] = hstep[g]
    BY <1>1, HelperBecomesOne
<1>3. /\ UNCHANGED <<confirm, ticket, commit>>
      /\ nonce'[h] = ticket /\ \A g \in Helper \ {h} : nonce'[g] = nonce[g]
    BY DEF ReadTicket, files, TypeOK
<1>4. \A g \in Helper : ticket = {g} => hstep[g] # "unspawned"
    BY DEF TicketSpawned
<1>5. NonceNew'
    BY <1>1, <1>2, <1>3, <1>4 DEF NonceNew
<1>6. NonceRead'
    BY <1>1, <1>2, <1>3 DEF NonceRead
<1>7. TicketLast'
    BY <1>1, <1>2, <1>3 DEF TicketLast
<1>8. AbortSparesInstaller'
    BY <1>1, <1>2, <1>3 DEF AbortSparesInstaller
<1>9. TicketSpawned'
    BY <1>1, <1>2, <1>3 DEF TicketSpawned
<1> QED
    BY <1>5, <1>6, <1>7, <1>8, <1>9

\* The marker a helper sees is not that of a confirmation still going on.
LEMMA SeeCommitHands ==
    ASSUME TypeOK, HandshakeInv, NEW h \in Helper, SeeCommit(h) PROVE HandshakeInv'
<1> USE DEF HandshakeInv, Confirmed, Closed, Replacing
<1>1. /\ hstep[h] = "ready" /\ hstep'[h] = "waiting"
      /\ \A g \in Helper \ {h} : hstep'[g] = hstep[g]
    BY HelperBecomesOne DEF SeeCommit
<1>2. UNCHANGED <<confirm, nonce, ticket, commit>> /\ commit = nonce[h]
    BY DEF SeeCommit, files
<1>3. NonceNew' /\ NonceRead' /\ TicketSpawned'
    BY <1>1, <1>2 DEF NonceNew, NonceRead, TicketSpawned
<1>4. TicketLast'
    BY <1>1, <1>2 DEF TicketLast
<1>5. confirm.stage # "idle" => h \notin confirm.child /\ nonce[h] # confirm.child
    BY <1>1, <1>2 DEF TicketLast, NonceRead
<1>6. AbortSparesInstaller'
    BY <1>1, <1>2, <1>5 DEF AbortSparesInstaller
<1> QED
    BY <1>3, <1>4, <1>6

LEMMA CommitHands ==
    ASSUME TypeOK, HandshakeInv, NEW w \in Workbench, CommitInstall(w) PROVE HandshakeInv'
<1> USE DEF HandshakeInv
<1>1. confirm'.stage = "idle" /\ UNCHANGED <<hstep, nonce, ticket>> /\ commit' = confirm.child
    BY DEF CommitInstall, NotConfirming, helpers
<1>2. \A h \in Helper : hstep[h] = "unspawned" => confirm.child # {h}
    BY DEF CommitInstall, TicketLast
<1> QED
    BY <1>1, <1>2 DEF NonceNew, NonceRead, TicketLast, TicketSpawned, AbortSparesInstaller

LEMMA NextHands == ASSUME TypeOK, HandshakeInv, [Next]_vars PROVE HandshakeInv'
<1>1. CASE UNCHANGED vars
    BY <1>1, KeptInv DEF vars, helpers, files, HandshakeKept
<1> QED
    BY <1>1, KeptInv, WorkbenchKeeps, HelperKeeps, ConfirmHands, ReadTicketHands, SeeCommitHands,
       CommitHands
    DEF Next

\* A helper that may still be killed has not been confirmed, and neither has
\* one that took the same ticket: killing it interrupts no installer.
THEOREM AbortIsSafe == Spec => []AbortSparesInstaller
<1>1. Init => HandshakeInv
    BY DEF Init, HandshakeInv, NonceNew, NonceRead, TicketLast, TicketSpawned,
           AbortSparesInstaller, NotConfirming
<1>2. HandshakeInv => AbortSparesInstaller
    BY DEF HandshakeInv
<1> QED
    BY <1>1, <1>2, NextHands, GateTypeCorrect, PTL DEF Spec

-----------------------------------------------------------------------------
(* The gate implements StartupFence. *)

InstallingNow == {h \in Helper : hstep[h] \in Closed}
FreshNow == {w \in Sessions : fresh[w]}
FenceVars == <<Sessions, FreshNow, InstallingNow>>

\* No session begins or ends; a helper may stop installing.
LEMMA StutterOrFinish ==
    ASSUME GateInv,
           \A w \in Workbench : step'[w] \in Session <=> step[w] \in Session,
           \A w \in Workbench : step[w] \in Session => fresh'[w] = fresh[w],
           \A h \in Helper : hstep'[h] \in Closed => hstep[h] \in Closed
    PROVE  [Fence!Next]_FenceVars
<1>1. Sessions' = Sessions /\ FreshNow' = FreshNow
    BY DEF Sessions, FreshNow
<1>2. \A g, h \in InstallingNow : g = h
    BY DEF GateInv, Sound, Locks, EntryExclusive, Owning, Confirmed, InstallingNow
<1>3. InstallingNow' = {} \/ InstallingNow' = InstallingNow
    BY <1>2 DEF InstallingNow
<1>4. CASE InstallingNow' = {} /\ InstallingNow # {}
    BY <1>1, <1>4 DEF Fence!Next, Fence!Finish, InstallingNow, FreshNow
<1> QED
    BY <1>1, <1>3, <1>4 DEF FenceVars

LEMMA FenceBegins == ASSUME GateInv, NEW w \in Workbench, Share(w) PROVE Fence!Begin(w)
<1> USE DEF GateInv, Sound, Locks
<1>1. /\ step[w] = "probed" /\ step'[w] = "entered"
      /\ \A v \in Workbench \ {w} : step'[v] = step[v]
    BY BecomesOne DEF Share
<1>2. UNCHANGED <<fresh, hstep>>
    BY DEF Share, helpers
<1>3. InstallingNow = {}
    BY <1>1 DEF EntryExclusive, Entering, Owning, Confirmed, InstallingNow
<1>4. InstallingNow' = InstallingNow
    BY <1>2 DEF InstallingNow
<1>5. w \notin Sessions /\ Sessions' = Sessions \cup {w}
    BY <1>1 DEF Sessions, Session
<1>6. CASE fresh[w]
    <2>1. Sessions = {}
        BY <1>1, <1>6 DEF ProbeHolds, Sessions
    <2>2. FreshNow' = {w}
        BY <1>2, <1>5, <1>6, <2>1 DEF FreshNow
    <2> QED
        BY <1>3, <1>4, <1>5, <2>1, <2>2 DEF Fence!Begin, InstallingNow, FreshNow
<1>7. CASE ~fresh[w]
    <2>1. FreshNow' = FreshNow
        BY <1>2, <1>5, <1>7 DEF FreshNow
    <2> QED
        BY <1>3, <1>4, <1>5, <2>1 DEF Fence!Begin, InstallingNow, FreshNow
<1> QED
    BY <1>6, <1>7

LEMMA FenceEnds ==
    ASSUME GateInv, NEW w \in Workbench, Ends(w) PROVE [Fence!Next]_FenceVars
<1> USE DEF GateInv
<1>1. step'[w] = "unborn" /\ \A v \in Workbench \ {w} : step'[v] = step[v]
    BY BecomesOne DEF Ends
<1>2. UNCHANGED hstep /\ \A v \in Workbench \ {w} : fresh'[v] = fresh[v]
    BY DEF Ends, helpers, TypeOK
<1>3. CASE w \in Sessions
    <2>1. Sessions' = Sessions \ {w}
        BY <1>1 DEF Sessions, Session
    <2>2. FreshNow' = FreshNow \ {w}
        <3>1. Sessions \subseteq Workbench
            BY DEF Sessions
        <3> QED
            BY <1>2, <2>1, <3>1 DEF FreshNow
    <2>3. InstallingNow' = InstallingNow
        BY <1>2 DEF InstallingNow
    <2>4. Fence!End(w)
        BY <1>3, <2>1, <2>2, <2>3 DEF Fence!End, InstallingNow, FreshNow
    <2> QED
        BY <2>4 DEF Fence!Next
<1>4. CASE w \notin Sessions
    <2>1. step[w] \notin Session
        BY <1>4 DEF Sessions
    <2> QED
        BY <1>1, <1>2, <2>1, StutterOrFinish DEF Session
<1> QED
    BY <1>3, <1>4

LEMMA FenceInstalls == ASSUME GateInv, NEW h \in Helper, WaitClosed(h) PROVE Fence!Install(h)
<1>1. /\ hstep[h] = "waiting" /\ hstep'[h] = "closed"
      /\ \A g \in Helper \ {h} : hstep'[g] = hstep[g]
    BY HelperBecomesOne DEF WaitClosed, GateInv
<1>2. \A g \in Helper \ {h} : hstep[g] \notin Closed
    BY <1>1 DEF GateInv, Sound, Locks, EntryExclusive, Owning, Confirmed
<1>3. InstallingNow = {} /\ InstallingNow' = {h}
    BY <1>1, <1>2 DEF InstallingNow, Closed, Replacing
<1>4. Sessions = {} /\ UNCHANGED <<Sessions, FreshNow>>
    BY DEF WaitClosed, launches, Sessions, FreshNow
<1> QED
    BY <1>3, <1>4 DEF Fence!Install, InstallingNow, FreshNow

LEMMA FenceStep == ASSUME GateInv, [Next]_vars PROVE [Fence!Next]_FenceVars
<1> USE DEF GateInv
<1>1. CASE UNCHANGED vars
    BY <1>1, StutterOrFinish DEF vars, launches, helpers
<1>2. ASSUME NEW w \in Workbench,
             \/ Launch(w) \/ Check(w) \/ Mark(w) \/ Admit(w) \/ Bar(w) \/ Probe(w)
             \/ Tidy(w) \/ Register(w) \/ CommitInstall(w)
      PROVE  [Fence!Next]_FenceVars
    <2>1. PICK s \in WorkbenchStep : Becomes(w, s) /\ (s \in Session <=> step[w] \in Session)
        <3>1. CASE CommitInstall(w)
            BY <3>1 DEF CommitInstall, CoordinatorRuns, WorkbenchStep, Session
        <3> QED
            BY <1>2, <3>1
            DEF Launch, Check, Mark, Admit, Bar, Probe, Tidy, Register, WorkbenchStep, Admission,
                Session
    <2>2. UNCHANGED hstep
        BY <1>2 DEF Launch, Check, Mark, Admit, Bar, Probe, Tidy, Register, CommitInstall, helpers
    <2>3. \A v \in Workbench : step[v] \in Session => fresh'[v] = fresh[v]
        <3>1. CASE Probe(w)
            BY <3>1 DEF Probe, TypeOK, Session
        <3> QED
            BY <1>2, <3>1 DEF Launch, Check, Mark, Admit, Bar, Tidy, Register, CommitInstall
    <2> QED
        BY <2>1, <2>2, <2>3, BecomesOne, StutterOrFinish
<1>3. ASSUME NEW w \in Workbench,
             \/ Promote(w) \/ Prepared(w) \/ HelperReady(w) \/ HelperNotReady(w)
             \/ NotPrepared(w)
      PROVE  [Fence!Next]_FenceVars
    <2>1. UNCHANGED <<step, fresh>>
        BY <1>3 DEF Promote, Prepared, HelperReady, HelperNotReady, NotPrepared, launches
    <2>2. \A h \in Helper : hstep'[h] \in {hstep[h], "gone"}
        BY <1>3, OtherStepsWithdraw DEF Withdraws, Confirms
    <2> QED
        BY <2>1, <2>2, StutterOrFinish DEF Closed, Replacing
<1>4. ASSUME NEW w \in Workbench, Restart(w) PROVE [Fence!Next]_FenceVars
    <2>1. \A h \in Helper : hstep'[h] \in {hstep[h], "gone"}
        BY <1>4, OtherStepsWithdraw DEF Withdraws, Confirms
    <2>2. step[w] \in Session
        BY <1>4 DEF Restart, CoordinatorRuns
    <2>3. PICK u \in Workbench :
             step[u] = "unborn" /\ step' = [step EXCEPT ![w] = "leaving", ![u] = "launched"]
        BY <1>4 DEF Restart
    <2>4. \A v \in Workbench : step'[v] \in Session <=> step[v] \in Session
        BY <2>2, <2>3 DEF TypeOK, Session
    <2>5. UNCHANGED fresh
        BY <1>4 DEF Restart
    <2> QED
        BY <2>1, <2>4, <2>5, StutterOrFinish DEF Closed, Replacing
<1>5. ASSUME NEW h \in Helper, Helps(h) \/ InstallerEnds(h) \/ Crash(h), ~WaitClosed(h)
      PROVE  [Fence!Next]_FenceVars
    <2>1. \A g \in Helper : hstep'[g] \in Closed => hstep[g] \in Closed
        BY <1>5
        DEF Helps, ReadTicket, Claim, Ready, SeeCommit, Expire, NotClosed, Record, StartInstaller,
            Track, Settle, Release, Relaunch, Report, InstallerEnds, Crash, HelperBecomes, TypeOK,
            Closed, Replacing
    <2>2. CASE Relaunch(h)
        <3>1. PICK w \in Workbench : step[w] = "unborn" /\ Becomes(w, "launched")
            BY <2>2 DEF Relaunch
        <3>2. UNCHANGED fresh
            BY <2>2 DEF Relaunch
        <3> QED
            BY <2>1, <3>1, <3>2, BecomesOne, StutterOrFinish DEF Session
    <2>3. CASE ~Relaunch(h)
        <3>1. UNCHANGED <<step, fresh>>
            BY <1>5, <2>3
            DEF Helps, ReadTicket, Claim, Ready, SeeCommit, Expire, NotClosed, Record,
                StartInstaller, Track, Settle, Release, Report, InstallerEnds, Crash, launches
        <3> QED
            BY <2>1, <3>1, StutterOrFinish
    <2> QED
        BY <2>2, <2>3
<1>6. ASSUME NEW w \in Workbench, NEW h \in Helper, NEW t, Confirm(w, h, t)
      PROVE  [Fence!Next]_FenceVars
    <2>1. UNCHANGED <<step, fresh>> /\ \A g \in Helper : hstep'[g] \in Closed => hstep[g] \in Closed
        BY <1>6, HelperBecomesOne DEF Confirm, launches, Closed, Replacing
    <2> QED
        BY <2>1, StutterOrFinish
<1> QED
    BY <1>1, <1>2, <1>3, <1>4, <1>5, <1>6, FenceBegins, FenceEnds, FenceInstalls
    DEF Next, Starts, Confirms, Helps, Dismiss, Leave, Close, Kill, Fence!Next

\* The lock files, taken one after the other by processes that may die between
\* any two of them, keep what StartupFence promises.
THEOREM FenceKept == Spec => FenceSpec
<1>1. Init => Fence!Init
    BY DEF Init, Fence!Init, Sessions, Session, Closed, Replacing
<1>2. GateInv /\ [Next]_vars =>
        [Fence!Next]_<<Sessions, {w \in Sessions : fresh[w]}, {h \in Helper : hstep[h] \in Closed}>>
    BY FenceStep DEF FenceVars, FreshNow, InstallingNow
<1> QED
    BY <1>1, <1>2, GateInductive, PTL DEF Spec, FenceSpec, Fence!Spec, Fence!fence
=============================================================================
