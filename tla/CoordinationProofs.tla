-------------------------- MODULE CoordinationProofs --------------------------
(***************************************************************************)
(* Proofs about Coordination for every set of workbenches and operations,  *)
(* whoever initiates, crashes, is operated or loses acknowledgements, and  *)
(* with Prompt either way; a theorem that needs more of them says so.      *)
(***************************************************************************)
EXTENDS Coordination, TLAPS

-----------------------------------------------------------------------------
(* What the helpers return. *)

LEMMA IdleTyped == Idle \in Driver
    BY DEF Idle, Driver, Phase, GlobalAction

\* An operation in progress may move to any phase.
LEMMA PhaseTyped ==
    ASSUME NEW d \in Driver, d.phase # "idle", NEW p \in Phase
    PROVE  [d EXCEPT !.phase = p] \in Driver
    BY DEF Driver

LEMMA CommandTyped ==
    ASSUME NEW op \in Operation, NEW action \in GlobalAction, NEW t \in Workbench
    PROVE  Cmd(op, action, t) \in Command
    BY DEF Cmd, Command

\* Cleaning up after dead workbenches removes and adds nothing else.
LEMMA MailTyped ==
    ASSUME TypeOK
    PROVE  /\ LiveMail \in [Workbench -> SUBSET Command]
           /\ LiveAcks \subseteq Ack
    BY DEF TypeOK, LiveMail, LiveAcks

LEMMA TaskTyped ==
    ASSUME TypeOK, NEW w \in Workbench, NEW cmd \in Command,
           NEW running \in BOOLEAN, NEW outcome \in Outcome,
           Answer(w, cmd, running, outcome)
    PROVE  task' \in [Workbench -> Task \cup {NoTask}]
<1>1. [cmd |-> cmd, step |-> "acking", wasRunning |-> running, outcome |-> outcome] \in Task
    BY DEF Task
<1> QED
    BY <1>1 DEF TypeOK, Answer

LEMMA EndsTyped ==
    ASSUME TypeOK, NEW w \in Workbench, Ends(w)
    PROVE  /\ status' \in [Workbench -> {"unborn", "open", "closed"}]
           /\ capture' \in [Workbench -> BOOLEAN]
           /\ editor' \in [Workbench -> BOOLEAN]
           /\ prepared' \in [Workbench -> SUBSET Lease]
           /\ task' \in [Workbench -> Task \cup {NoTask}]
           /\ driver' \in [Workbench -> Driver]
           /\ intent' \in [Workbench -> BOOLEAN]
    BY IdleTyped DEF TypeOK, Ends

LEMMA GiveUpTyped ==
    ASSUME TypeOK, NEW w \in Workbench, driver[w].phase # "idle", GiveUp(w)
    PROVE  /\ capture' \in [Workbench -> BOOLEAN]
           /\ driver' \in [Workbench -> Driver]
           /\ lock' \subseteq [holder : Workbench, op : Operation]
<1>1. driver[w] \in Driver /\ capture[w] \in BOOLEAN
    BY DEF TypeOK
<1>2. driver[w].wasRunning \in BOOLEAN /\ driver[w].op \in Operation
    BY <1>1 DEF Driver
<1>3. capture' \in [Workbench -> BOOLEAN]
    BY <1>1, <1>2 DEF TypeOK, GiveUp
<1> QED
    BY <1>2, <1>3, IdleTyped DEF TypeOK, GiveUp, Drive, Released

-----------------------------------------------------------------------------
(* Type correctness, one lemma per group of actions. *)

LEMMA InitTyped == Init => TypeOK
    BY IdleTyped, CoordinationAssumption DEF Init, TypeOK

LEMMA StutterTyped == TypeOK /\ UNCHANGED vars => TypeOK'
    BY DEF TypeOK, vars, local, disk, ghost

LEMMA BeginTyped == ASSUME TypeOK, NEW w \in Workbench, Begin(w) PROVE TypeOK'
<1>1. PICK op \in Operation \ used :
        /\ used' = used \cup {op}
        /\ Drive(w, [Idle EXCEPT !.phase = "stopping", !.op = op, !.wasRunning = capture[w]])
    BY DEF Begin
<1>2. [Idle EXCEPT !.phase = "stopping", !.op = op, !.wasRunning = capture[w]] \in Driver
    BY <1>1 DEF TypeOK, Idle, Driver, Phase, GlobalAction
<1>3. driver' \in [Workbench -> Driver]
    BY <1>1, <1>2 DEF TypeOK, Drive
<1>4. capture' \in [Workbench -> BOOLEAN]
    BY DEF TypeOK, Begin
<1> QED
    BY <1>1, <1>3, <1>4 DEF TypeOK, Begin, disk

LEMMA DriverStepTyped == ASSUME TypeOK, NEW w \in Workbench, DriverStep(w) PROVE TypeOK'
<1> DEFINE d == driver[w]
<1>0. d \in Driver /\ capture[w] \in BOOLEAN
    BY DEF TypeOK
<1>1. CASE FlushLocal(w)
    <2>1. [d EXCEPT !.phase = "requesting"] \in Driver
        BY <1>0, <1>1, PhaseTyped DEF FlushLocal, Phase
    <2>2. driver' \in [Workbench -> Driver]
        BY <1>1, <2>1, IdleTyped DEF TypeOK, FlushLocal, Drive
    <2>3. capture' \in [Workbench -> BOOLEAN]
        BY <1>0, <1>1 DEF TypeOK, FlushLocal, Driver
    <2> QED
        BY <1>1, <2>2, <2>3 DEF TypeOK, FlushLocal, disk, ghost
<1>2. CASE RequestPrepare(w)
    <2>1. d.phase # "idle" /\ d.op \in Operation
        BY <1>0, <1>2 DEF RequestPrepare, Driver
    <2>2. CASE LockAvailable
        <3>1. /\ [d EXCEPT !.phase = "issuing", !.verb = "prepareGlobal",
                           !.peers = Targets(w), !.todo = Targets(w)] \in Driver
              /\ [d EXCEPT !.phase = "aborting"] \in Driver
            BY <1>0, <2>1 DEF Driver, Phase, GlobalAction, Targets
        <3>2. driver' \in [Workbench -> Driver]
            BY <1>2, <2>2, <3>1 DEF TypeOK, RequestPrepare, Drive
        <3>3. lock' \subseteq [holder : Workbench, op : Operation]
            BY <1>2, <2>1, <2>2 DEF RequestPrepare, Held
        <3> QED
            BY <1>2, <2>2, <3>2, <3>3, MailTyped DEF TypeOK, RequestPrepare, Cleaned
    <2>3. CASE ~LockAvailable
        BY <1>2, <2>1, <2>3, GiveUpTyped DEF TypeOK, RequestPrepare
    <2> QED
        BY <2>2, <2>3
<1>3. CASE IssueNext(w)
    <2>1. PICK t \in d.todo :
            /\ pending' = [pending EXCEPT ![t] = {Cmd(d.op, d.verb, t)}]
            /\ Drive(w, [d EXCEPT !.todo = @ \ {t}, !.sent = @ \cup {t}])
        BY <1>3 DEF IssueNext
    <2>2. /\ t \in Workbench /\ d.op \in Operation /\ d.verb \in GlobalAction
          /\ [d EXCEPT !.todo = @ \ {t}, !.sent = @ \cup {t}] \in Driver
        BY <1>0, <1>3, <2>1 DEF IssueNext, Driver
    <2>3. driver' \in [Workbench -> Driver]
        BY <2>1, <2>2 DEF TypeOK, Drive
    <2>4. pending' \in [Workbench -> SUBSET Command]
        BY <2>1, <2>2, CommandTyped DEF TypeOK
    <2> QED
        BY <1>3, <2>3, <2>4 DEF TypeOK, IssueNext, ghost
<1>4. CASE IssueDone(w)
    <2>1. [d EXCEPT !.phase = "awaiting"] \in Driver
        BY <1>0, <1>4, PhaseTyped DEF IssueDone, Phase
    <2> QED
        BY <1>4, <2>1 DEF TypeOK, IssueDone, Drive, disk, ghost
<1>5. CASE IssueRefused(w)
    <2>1. [d EXCEPT !.phase = "aborting"] \in Driver /\ d.phase # "idle" /\ d.op \in Operation
        BY <1>0, <1>5, PhaseTyped DEF IssueRefused, Phase, Driver
    <2>2. RolledBack(w) \in [Workbench -> SUBSET Command]
        BY <2>1, CommandTyped DEF TypeOK, RolledBack, GlobalAction
    <2>3. CASE d.verb = "commitGlobal"
        BY <1>5, <2>1, <2>3 DEF TypeOK, IssueRefused, Drive
    <2>4. CASE d.verb = "prepareGlobal"
        BY <1>5, <2>1, <2>2, <2>4, GiveUpTyped DEF TypeOK, IssueRefused
    <2>5. CASE d.verb = "abortGlobal"
        BY <1>5, <2>1, <2>5, GiveUpTyped DEF TypeOK, IssueRefused
    <2> QED
        BY <1>5, <2>3, <2>4, <2>5 DEF IssueRefused
<1>6. CASE PrepareAnswered(w)
    <2>1. [d EXCEPT !.sent = {}, !.phase = IF Unanimous(w, "ready") THEN "prepared"
                                           ELSE "aborting"] \in Driver
        BY <1>0, <1>6 DEF PrepareAnswered, Driver, Phase
    <2>2. driver' \in [Workbench -> Driver]
        BY <1>6, <2>1 DEF TypeOK, PrepareAnswered, Drive
    <2> QED
        BY <1>6, <2>2 DEF TypeOK, PrepareAnswered, ghost
<1>7. CASE TimedOut(w)
    <2>1. [d EXCEPT !.phase = "aborting"] \in Driver
        BY <1>0, <1>7, PhaseTyped DEF TimedOut, Phase
    <2> QED
        BY <1>7, <2>1 DEF TypeOK, TimedOut, Drive, disk, ghost
<1>8. CASE RequestCommit(w)
    <2>1. /\ d.op \in Operation
          /\ [d EXCEPT !.phase = "aborting"] \in Driver
          /\ [d EXCEPT !.phase = "issuing", !.verb = "commitGlobal",
                       !.todo = d.peers, !.sent = {}] \in Driver
        BY <1>0, <1>8 DEF RequestCommit, Driver, Phase, GlobalAction
    <2>2. driver' \in [Workbench -> Driver]
        BY <1>8, <2>1 DEF TypeOK, RequestCommit, Drive
    <2>3. pending' \in [Workbench -> SUBSET Command] /\ acks' \subseteq Ack
        BY <1>8, MailTyped DEF TypeOK, RequestCommit, Cleaned
    <2>4. committing' \subseteq Operation
        BY <1>8, <2>1 DEF TypeOK, RequestCommit
    <2> QED
        BY <1>8, <2>2, <2>3, <2>4 DEF TypeOK, RequestCommit
<1>9. CASE CommitAnswered(w)
    <2>1. [d EXCEPT !.phase = "leaving"] \in Driver /\ [d EXCEPT !.phase = "aborting"] \in Driver
        BY <1>0, <1>9, PhaseTyped DEF CommitAnswered, Phase
    <2>2. driver' \in [Workbench -> Driver]
        BY <1>9, <2>1 DEF TypeOK, CommitAnswered, Drive
    <2>3. lock' \subseteq lock /\ acks' \subseteq acks
        BY <1>9 DEF CommitAnswered, Released
    <2> QED
        BY <1>9, <2>2, <2>3 DEF TypeOK, CommitAnswered, ghost
<1>10. CASE Leave(w)
    <2>1. d.op \in Operation \cup {NoOperation}
        BY <1>0 DEF Driver
    <2>2. lock' \subseteq lock
        BY <1>10 DEF Leave, Unlocked
    <2> QED
        BY <1>10, <2>1, <2>2, EndsTyped DEF TypeOK, Leave
<1>11. CASE RequestAbort(w)
    <2>1. /\ d.phase # "idle"
          /\ [d EXCEPT !.phase = "issuing", !.verb = "abortGlobal",
                       !.todo = d.peers, !.sent = {}] \in Driver
        BY <1>0, <1>11 DEF RequestAbort, Driver, Phase, GlobalAction
    <2>2. pending' \in [Workbench -> SUBSET Command] /\ acks' \subseteq Ack
        BY <1>11, MailTyped DEF TypeOK, RequestAbort, Cleaned
    <2>3. CASE GiveUp(w)
        BY <1>11, <2>1, <2>2, <2>3, GiveUpTyped DEF TypeOK, RequestAbort
    <2>4. CASE ~GiveUp(w)
        BY <1>11, <2>1, <2>2, <2>4 DEF TypeOK, RequestAbort, Drive
    <2> QED
        BY <2>3, <2>4
<1>12. CASE AbortAnswered(w)
    <2>1. d.phase # "idle" /\ acks' \subseteq acks
        BY <1>12 DEF AbortAnswered
    <2> QED
        BY <1>12, <2>1, GiveUpTyped DEF TypeOK, AbortAnswered
<1> QED
    BY <1>1, <1>2, <1>3, <1>4, <1>5, <1>6, <1>7, <1>8, <1>9, <1>10, <1>11, <1>12
    DEF DriverStep

LEMMA ParticipantStepTyped ==
    ASSUME TypeOK, NEW w \in Workbench, ParticipantStep(w) PROVE TypeOK'
<1>0. capture[w] \in BOOLEAN /\ prepared[w] \subseteq Lease
    BY DEF TypeOK
<1>1. CASE Poll(w)
    <2>1. PICK cmd \in pending[w] :
            \/ cmd.action = "prepareGlobal" /\ HandlePrepare(w, cmd)
            \/ cmd.action = "abortGlobal" /\ HandleAbort(w, cmd)
            \/ cmd.action = "commitGlobal" /\ HandleCommit(w, cmd)
            \/ cmd.action = "quitInstance" /\ HandleQuit(w, cmd)
            \/ cmd.action \in {"show", "applyPreset"} /\ HandleTray(w, cmd)
        BY <1>1 DEF Poll
    <2>2. cmd \in Command
        BY DEF TypeOK
    <2>3. \A o \in Outcome : Answer(w, cmd, FALSE, o) => task' \in [Workbench -> Task \cup {NoTask}]
        BY <2>2, TaskTyped
    <2>4. ASSUME StopAndFlush(w, cmd)
          PROVE  capture' \in [Workbench -> BOOLEAN] /\ task' \in [Workbench -> Task \cup {NoTask}]
        <3>1. [cmd |-> cmd, step |-> "stopping", wasRunning |-> capture[w], outcome |-> "failed"] \in Task
            BY <1>0, <2>2 DEF Task, Outcome
        <3> QED
            BY <2>4, <3>1 DEF TypeOK, StopAndFlush
    <2>5. Forget(w, cmd.op) \in [Workbench -> SUBSET Lease]
        BY DEF TypeOK, Forget
    <2>6. Resumed(w, PreparedFor(w, cmd.op)) \in [Workbench -> BOOLEAN]
        BY <1>0 DEF TypeOK, Resumed
    <2>7. /\ capture' \in [Workbench -> BOOLEAN]
          /\ prepared' \in [Workbench -> SUBSET Lease]
          /\ task' \in [Workbench -> Task \cup {NoTask}]
        <3>1. CASE HandlePrepare(w, cmd)
            BY <2>3, <2>4, <3>1 DEF TypeOK, HandlePrepare, Outcome
        <3>2. CASE HandleAbort(w, cmd)
            BY <2>3, <2>5, <2>6, <3>2 DEF TypeOK, HandleAbort, Outcome
        <3>3. CASE HandleCommit(w, cmd)
            BY <2>3, <2>5, <3>3 DEF TypeOK, HandleCommit, Outcome
        <3>4. CASE HandleQuit(w, cmd)
            BY <2>3, <2>4, <3>4 DEF TypeOK, HandleQuit, Outcome
        <3>5. CASE HandleTray(w, cmd)
            BY <2>3, <3>5 DEF TypeOK, HandleTray, Outcome
        <3> QED
            BY <2>1, <3>1, <3>2, <3>3, <3>4, <3>5
    <2> QED
        BY <1>1, <2>7 DEF TypeOK, Poll, disk, ghost
<1>2. CASE Flushed(w)
    <2> DEFINE t == task[w]
    <2>1. t \in Task
        BY <1>2 DEF TypeOK, Flushed
    <2>2. t.cmd \in Command /\ t.wasRunning \in BOOLEAN
        BY <2>1 DEF Task
    <2>3. \A o \in Outcome : Answer(w, t.cmd, t.wasRunning, o)
                                => task' \in [Workbench -> Task \cup {NoTask}]
        BY <2>2, TaskTyped
    <2>4. task' \in [Workbench -> Task \cup {NoTask}]
        BY <1>2, <2>3 DEF Flushed, Outcome
    <2>5. capture' \in [Workbench -> BOOLEAN]
        BY <1>0, <1>2, <2>2 DEF TypeOK, Flushed
    <2>6. t.cmd.action = "prepareGlobal" => t.cmd.op \in Operation
        BY <2>2, CoordinationAssumption DEF Command
    <2>7. prepared' \in [Workbench -> SUBSET Lease]
        <3>1. CASE t.cmd.action = "prepareGlobal" /\ prepared' # prepared
            <4>1. prepared' = [prepared EXCEPT ![w] =
                    @ \cup {[op |-> t.cmd.op, wasRunning |-> t.wasRunning]}]
                BY <1>2, <3>1 DEF Flushed
            <4>2. [op |-> t.cmd.op, wasRunning |-> t.wasRunning] \in Lease
                BY <2>2, <2>6, <3>1 DEF Lease
            <4> QED
                BY <1>0, <4>1, <4>2 DEF TypeOK
        <3>2. CASE t.cmd.action # "prepareGlobal" \/ prepared' = prepared
            BY <1>2, <3>2 DEF TypeOK, Flushed
        <3> QED
            BY <3>1, <3>2
    <2> QED
        BY <1>2, <2>4, <2>5, <2>7 DEF TypeOK, Flushed, disk, ghost
<1>3. CASE AckCheck(w)
    <2>1. [task[w] EXCEPT !.step = "writing"] \in Task
        BY <1>3 DEF TypeOK, AckCheck, Task
    <2>2. task' \in [Workbench -> Task \cup {NoTask}]
        BY <1>3, <2>1 DEF TypeOK, AckCheck
    <2> QED
        BY <1>3, <2>2 DEF TypeOK, AckCheck, disk, ghost
<1>4. CASE AckWrite(w)
    <2> DEFINE t == task[w]
    <2>1. t \in Task
        BY <1>4 DEF TypeOK, AckWrite
    <2>2. t.cmd \in Command /\ t.outcome \in Outcome /\ t.cmd.op \in Operation \cup {NoOperation}
        BY <2>1 DEF Task, Command
    <2>3. acks' \subseteq Ack
        BY <1>4, <2>2 DEF TypeOK, AckWrite, Ack
    <2>4. pending' \in [Workbench -> SUBSET Command]
        BY <1>4 DEF TypeOK, AckWrite, Emptied
    <2>5. CASE Exits(t)
        BY <1>4, <2>2, <2>3, <2>4, <2>5, EndsTyped DEF TypeOK, AckWrite, Unlocked
    <2>6. CASE ~Exits(t)
        BY <1>4, <2>3, <2>4, <2>6 DEF TypeOK, AckWrite
    <2> QED
        BY <2>5, <2>6
<1> QED
    BY <1>1, <1>2, <1>3, <1>4 DEF ParticipantStep

LEMMA OtherStepTyped ==
    ASSUME TypeOK, NEW w \in Workbench, AckFails(w) \/ RecoverExpired(w) \/ Environment(w)
    PROVE  TypeOK'
<1>0. capture[w] \in BOOLEAN
    BY DEF TypeOK
<1>1. CASE AckFails(w)
    <2>1. [task[w] EXCEPT !.outcome = "failed"] \in Task
        BY <1>1 DEF TypeOK, AckFails, Task, Outcome
    <2>2. task' \in [Workbench -> Task \cup {NoTask}]
        BY <1>1, <2>1 DEF TypeOK, AckFails
    <2> QED
        BY <1>1, <2>2 DEF TypeOK, AckFails, disk, ghost
<1>2. CASE RecoverExpired(w)
    <2>1. capture' \in [Workbench -> BOOLEAN] /\ prepared' \in [Workbench -> SUBSET Lease]
        BY <1>0, <1>2 DEF TypeOK, RecoverExpired, Resumed
    <2> QED
        BY <1>2, <2>1 DEF TypeOK, RecoverExpired, disk, ghost
<1>3. CASE IssueInstance(w)
    <2>1. PICK t \in Targets(w), action \in TrayAction :
            pending' = [LiveMail EXCEPT ![t] = {Cmd(NoOperation, action, t)}]
        BY <1>3 DEF IssueInstance
    <2>2. Cmd(NoOperation, action, t) \in Command
        BY DEF Cmd, Command, Targets
    <2>3. pending' \in [Workbench -> SUBSET Command]
        BY <2>1, <2>2, MailTyped
    <2> QED
        BY <1>3, <2>3, MailTyped DEF TypeOK, IssueInstance, local, ghost
<1>4. CASE Heartbeat(w)
    BY <1>4, MailTyped DEF TypeOK, Heartbeat, local, ghost
<1>5. CASE Transport(w)
    BY <1>0, <1>5 DEF TypeOK, Transport, disk
<1>6. CASE Edit(w)
    BY <1>6 DEF TypeOK, Edit, disk, ghost
<1>7. CASE Launch(w)
    BY <1>7 DEF TypeOK, Launch, local, disk, ghost
<1>8. CASE Crash(w)
    <2>1. lock' \subseteq lock
        BY <1>8 DEF Crash, Unlocked
    <2> QED
        BY <1>8, <2>1, EndsTyped DEF TypeOK, Crash
<1> QED
    BY <1>1, <1>2, <1>3, <1>4, <1>5, <1>6, <1>7, <1>8 DEF Environment

\* Type correctness: the variables of coordination.js and commands.rs keep the
\* shapes that TypeOK gives them.
THEOREM TypeCorrect == Spec => []TypeOK
<1>1. TypeOK /\ [Next]_vars => TypeOK'
    BY StutterTyped, BeginTyped, DriverStepTyped, ParticipantStepTyped, OtherStepTyped DEF Next
<1> QED
    BY InitTyped, <1>1, PTL DEF Spec

-----------------------------------------------------------------------------
(* The operation lock.  OneOperation is not inductive: it needs to be known  *)
(* who holds the lock, and LockHeldByLeader has to be strengthened by the    *)
(* lock having no holder that does not lead, and no second one.              *)

LockInv ==
    /\ \A w \in Workbench : Leads(w) => Held(w, driver[w].op) \in lock
    /\ \A h \in lock : Leads(h.holder) /\ driver[h.holder].op = h.op
    /\ \A h, g \in lock : h = g

\* What a step of w may do to the lock: nothing, take the free one as it begins
\* to lead, or let go of its own as it stops leading.
Keeps(w) == lock' = lock /\ (Leads(w)' <=> Leads(w)) /\ driver'[w].op = driver[w].op
Takes(w) == lock = {} /\ lock' = {Held(w, driver'[w].op)} /\ Leads(w)'
Drops(w) == ~Leads(w)' /\ lock' \in {Released(w, driver[w].op), Unlocked(w)}
OthersDrive(w) == \A v \in Workbench \ {w} : driver'[v] = driver[v]
LockStep(w) == OthersDrive(w) /\ (Keeps(w) \/ Takes(w) \/ Drops(w))

LEMMA LockStepInv ==
    ASSUME TypeOK, LockInv, NEW w \in Workbench, LockStep(w)
    PROVE  LockInv'
<1>1. \A h \in lock : h.holder \in Workbench /\ h = Held(h.holder, h.op)
    BY DEF TypeOK, Held
<1>2. \A v \in Workbench \ {w} : (Leads(v)' <=> Leads(v)) /\ driver'[v].op = driver[v].op
    BY DEF LockStep, OthersDrive, Leads
<1>3. CASE Keeps(w)
    <2>1. \A v \in Workbench : (Leads(v)' <=> Leads(v)) /\ driver'[v].op = driver[v].op
        BY <1>2, <1>3 DEF Keeps
    <2> QED
        BY <1>1, <1>3, <2>1 DEF LockInv, Keeps, Held
<1>4. CASE Takes(w)
    <2>1. \A v \in Workbench \ {w} : ~Leads(v)'
        BY <1>2, <1>4 DEF LockInv, Takes
    <2>2. \A h \in lock' : h.holder = w /\ h.op = driver'[w].op
        BY <1>4 DEF Takes, Held
    <2> QED
        BY <1>4, <2>1, <2>2 DEF LockInv, Takes, Held
<1>5. CASE Drops(w)
    <2>1. \A h \in lock : h.holder = w => h = Held(w, driver[w].op)
        BY <1>1 DEF LockInv
    <2>2. \A h \in lock' : h \in lock /\ h.holder # w
        BY <1>5, <2>1 DEF Drops, Released, Unlocked
    <2>3. \A v \in Workbench \ {w} :
            Held(v, driver[v].op) \in lock => Held(v, driver[v].op) \in lock'
        BY <1>5 DEF Drops, Released, Unlocked, Held
    <2>4. \A v \in Workbench : Leads(v)' => Held(v, driver[v].op)' \in lock'
        BY <1>2, <1>5, <2>3 DEF LockInv, Drops, Held
    <2>5. \A h \in lock' : Leads(h.holder)' /\ driver'[h.holder].op = h.op
        BY <1>1, <1>2, <2>2 DEF LockInv
    <2> QED
        BY <2>2, <2>4, <2>5 DEF LockInv
<1> QED
    BY <1>3, <1>4, <1>5 DEF LockStep

\* A workbench that gives up or ends lets go of the lock.
LEMMA GiveUpDrops ==
    ASSUME TypeOK, NEW w \in Workbench, GiveUp(w) PROVE LockStep(w)
    BY DEF TypeOK, GiveUp, Drive, Idle, LockStep, OthersDrive, Drops, Leads

LEMMA EndsDrops ==
    ASSUME TypeOK, NEW w \in Workbench, Ends(w), lock' = Unlocked(w)
    PROVE  LockStep(w)
    BY DEF TypeOK, Ends, Idle, LockStep, OthersDrive, Drops, Leads

\* A new phase of the same operation, leading before and after, or neither.
LEMMA PhaseKeeps ==
    ASSUME TypeOK, NEW w \in Workbench, NEW d, Drive(w, d), UNCHANGED lock,
           d.op = driver[w].op,
           d.phase \in {"issuing", "awaiting", "prepared", "aborting"} <=> Leads(w)
    PROVE  LockStep(w)
    BY DEF TypeOK, Drive, LockStep, OthersDrive, Keeps, Leads

LEMMA DriverKeeps ==
    ASSUME TypeOK, NEW w \in Workbench, UNCHANGED <<driver, lock>> PROVE LockStep(w)
    BY DEF LockStep, OthersDrive, Keeps, Leads

LEMMA DriverStepLock ==
    ASSUME TypeOK, LockInv, NEW w \in Workbench, DriverStep(w) PROVE LockStep(w)
<1> DEFINE d == driver[w]
<1>0. d \in Driver
    BY DEF TypeOK
<1>1. CASE FlushLocal(w)
    <2>1. CASE Drive(w, [d EXCEPT !.phase = "requesting"])
        <3>1. /\ [d EXCEPT !.phase = "requesting"].op = d.op
              /\ [d EXCEPT !.phase = "requesting"].phase = "requesting"
            BY <1>0 DEF Driver
        <3> QED
            BY <1>1, <2>1, <3>1, PhaseKeeps DEF FlushLocal, Leads, disk
    <2>2. CASE Drive(w, Idle)
        <3>1. \A h \in lock : h.holder # w
            BY <1>1 DEF LockInv, FlushLocal, Leads
        <3>2. lock' = Unlocked(w)
            BY <1>1, <3>1 DEF FlushLocal, disk, Unlocked
        <3> QED
            BY <2>2, <3>2 DEF TypeOK, Drive, Idle, LockStep, OthersDrive, Drops, Leads
    <2> QED
        BY <1>1, <2>1, <2>2 DEF FlushLocal
<1>2. CASE RequestPrepare(w)
    <2>1. CASE LockAvailable
        <3> DEFINE x == [d EXCEPT !.phase = "issuing", !.verb = "prepareGlobal",
                                  !.peers = Targets(w), !.todo = Targets(w)]
                   y == [d EXCEPT !.phase = "aborting"]
                   e == IF driver'[w] = x THEN x ELSE y
        <3>1. e.op = d.op /\ e.phase \in {"issuing", "aborting"}
            BY <1>0 DEF Driver
        <3>2. lock = {} /\ lock' = {Held(w, d.op)} /\ driver' = [driver EXCEPT ![w] = e]
            BY <1>2, <2>1 DEF TypeOK, RequestPrepare, LockAvailable, Drive
        <3>3. driver'[w] = e /\ OthersDrive(w)
            BY <3>2 DEF TypeOK, OthersDrive
        <3> HIDE DEF e
        <3> QED
            BY <3>1, <3>2, <3>3 DEF LockStep, Takes, Leads
    <2>2. CASE ~LockAvailable
        BY <1>2, <2>2, GiveUpDrops DEF RequestPrepare
    <2> QED
        BY <2>1, <2>2
<1>3. CASE IssueNext(w)
    <2>1. PICK t \in d.todo : Drive(w, [d EXCEPT !.todo = @ \ {t}, !.sent = @ \cup {t}])
        BY <1>3 DEF IssueNext
    <2>2. /\ [d EXCEPT !.todo = @ \ {t}, !.sent = @ \cup {t}].op = d.op
          /\ [d EXCEPT !.todo = @ \ {t}, !.sent = @ \cup {t}].phase = d.phase
        BY <1>0 DEF Driver
    <2> QED
        BY <1>3, <2>1, <2>2, PhaseKeeps DEF IssueNext, Leads
<1>4. \A p \in Phase : [d EXCEPT !.phase = p].op = d.op /\ [d EXCEPT !.phase = p].phase = p
    BY <1>0 DEF Driver
<1>5. CASE IssueDone(w)
    BY <1>4, <1>5, PhaseKeeps DEF IssueDone, Leads, Phase, disk
<1>6. CASE IssueRefused(w)
    <2>1. CASE d.verb = "commitGlobal"
        BY <1>4, <1>6, <2>1, PhaseKeeps DEF IssueRefused, Leads, Phase
    <2>2. CASE d.verb # "commitGlobal"
        BY <1>6, <2>2, GiveUpDrops DEF IssueRefused
    <2> QED
        BY <2>1, <2>2
<1>7. CASE PrepareAnswered(w)
    <2> DEFINE p == IF Unanimous(w, "ready") THEN "prepared" ELSE "aborting"
    <2>1. [d EXCEPT !.sent = {}, !.phase = p].op = d.op /\ [d EXCEPT !.sent = {}, !.phase = p].phase = p
        BY <1>0 DEF Driver
    <2> QED
        BY <1>7, <2>1, PhaseKeeps DEF PrepareAnswered, Leads
<1>8. CASE TimedOut(w)
    BY <1>4, <1>8, PhaseKeeps DEF TimedOut, Leads, Phase, disk
<1>9. CASE RequestCommit(w)
    <2> DEFINE e == [d EXCEPT !.phase = "issuing", !.verb = "commitGlobal",
                              !.todo = d.peers, !.sent = {}]
    <2>1. e.op = d.op /\ e.phase = "issuing"
        BY <1>0 DEF Driver
    <2>2. CASE Drive(w, e)
        BY <1>9, <2>1, <2>2, PhaseKeeps DEF RequestCommit, Leads
    <2>3. CASE Drive(w, [d EXCEPT !.phase = "aborting"])
        BY <1>4, <1>9, <2>3, PhaseKeeps DEF RequestCommit, Leads, Phase
    <2> QED
        BY <1>9, <2>2, <2>3 DEF RequestCommit
<1>10. CASE CommitAnswered(w)
    <2>1. CASE Drive(w, [d EXCEPT !.phase = "leaving"]) /\ lock' = Released(w, d.op)
        <3>1. driver'[w].phase = "leaving" /\ OthersDrive(w)
            BY <1>4, <2>1 DEF TypeOK, Drive, OthersDrive, Phase
        <3> QED
            BY <2>1, <3>1 DEF LockStep, Drops, Leads
    <2>2. CASE Drive(w, [d EXCEPT !.phase = "aborting"]) /\ UNCHANGED lock
        BY <1>4, <1>10, <2>2, PhaseKeeps DEF CommitAnswered, Leads, Phase
    <2> QED
        BY <1>10, <2>1, <2>2 DEF CommitAnswered
<1>11. CASE Leave(w)
    BY <1>11, EndsDrops DEF Leave
<1>12. CASE RequestAbort(w)
    <2> DEFINE e == [d EXCEPT !.phase = "issuing", !.verb = "abortGlobal",
                              !.todo = d.peers, !.sent = {}]
    <2>1. e.op = d.op /\ e.phase = "issuing"
        BY <1>0 DEF Driver
    <2>2. CASE Drive(w, e) /\ UNCHANGED lock
        BY <1>12, <2>1, <2>2, PhaseKeeps DEF RequestAbort, Leads
    <2>3. CASE GiveUp(w)
        BY <2>3, GiveUpDrops
    <2> QED
        BY <1>12, <2>2, <2>3 DEF RequestAbort
<1>13. CASE AbortAnswered(w)
    BY <1>13, GiveUpDrops DEF AbortAnswered
<1> QED
    BY <1>1, <1>2, <1>3, <1>5, <1>6, <1>7, <1>8, <1>9, <1>10, <1>11, <1>12, <1>13
    DEF DriverStep

LEMMA OtherStepLock ==
    ASSUME TypeOK, LockInv, NEW w \in Workbench,
           ParticipantStep(w) \/ AckFails(w) \/ RecoverExpired(w) \/ Environment(w)
    PROVE  LockStep(w)
<1>1. CASE AckWrite(w)
    BY <1>1, DriverKeeps, EndsDrops DEF AckWrite
<1>2. CASE Crash(w)
    BY <1>2, EndsDrops DEF Crash
<1>3. CASE UNCHANGED <<driver, lock>>
    BY <1>3, DriverKeeps
<1> QED
    BY <1>1, <1>2, <1>3
    DEF ParticipantStep, Environment, Poll, Flushed, AckCheck, AckFails, RecoverExpired,
        IssueInstance, Heartbeat, Transport, Edit, Launch, local, disk

LEMMA BeginLock ==
    ASSUME TypeOK, LockInv, NEW w \in Workbench, Begin(w) PROVE LockStep(w)
<1>1. PICK op \in Operation :
        Drive(w, [Idle EXCEPT !.phase = "stopping", !.op = op, !.wasRunning = capture[w]])
    BY DEF Begin
<1>2. driver'[w].phase = "stopping" /\ OthersDrive(w)
    BY <1>1 DEF TypeOK, Drive, Idle, OthersDrive
<1>3. lock' = Unlocked(w)
    BY DEF Begin, LockInv, Leads, Unlocked, disk
<1> QED
    BY <1>2, <1>3 DEF LockStep, Drops, Leads

LEMMA LockInductive == Spec => []LockInv
<1>1. Init => LockInv
    BY DEF Init, Idle, LockInv, Leads
<1>2. TypeOK /\ LockInv /\ [Next]_vars => LockInv'
    <2> SUFFICES ASSUME TypeOK, LockInv, [Next]_vars PROVE LockInv'
        OBVIOUS
    <2>1. CASE UNCHANGED vars
        BY <2>1 DEF vars, local, disk, LockInv, Leads
    <2>2. CASE Next
        <3>1. PICK w \in Workbench :
                \/ Begin(w) \/ DriverStep(w) \/ ParticipantStep(w) \/ AckFails(w)
                \/ RecoverExpired(w) \/ Environment(w)
            BY <2>2 DEF Next
        <3>2. LockStep(w)
            BY <3>1, BeginLock, DriverStepLock, OtherStepLock
        <3> QED
            BY <3>2, LockStepInv
    <2> QED
        BY <2>1, <2>2
<1> QED
    BY <1>1, <1>2, TypeCorrect, PTL DEF Spec

\* The lock belongs to whoever leads an operation, from the grant of
\* runtime_issue_commands to runtime_finish_operation or the end of the process.
THEOREM LockFollowsLeader == Spec => []LockHeldByLeader
<1>1. ASSUME TypeOK, LockInv PROVE LockHeldByLeader
    <2>1. \A h \in lock : /\ h.holder \in Workbench /\ Leads(h.holder)
                         /\ h = Held(h.holder, driver[h.holder].op)
        BY <1>1 DEF TypeOK, LockInv, Held
    <2> QED
        BY <1>1, <2>1 DEF LockInv, LockHeldByLeader
<1> QED
    BY <1>1, TypeCorrect, LockInductive, PTL

\* Mutual exclusion of the identity-wide operations.
THEOREM MutualExclusion == Spec => []OneOperation
<1>1. LockInv => OneOperation
    BY DEF LockInv, OneOperation, Held
<1> QED
    BY <1>1, LockInductive, PTL

-----------------------------------------------------------------------------
(* Preparations.  What keeps the second one out is that none can appear       *)
(* between the check of prepareGlobal and the end of its flush.               *)

Preparing(w) ==
    task[w] # NoTask /\ task[w].step = "stopping" /\ task[w].cmd.action = "prepareGlobal"
PrepInv ==
    /\ OnePreparation
    /\ \A w \in Workbench : Preparing(w) => prepared[w] = {}

LEMMA PollPrep ==
    ASSUME TypeOK, PrepInv, NEW w \in Workbench, Poll(w) PROVE PrepInv'
<1>1. PICK cmd \in pending[w] :
        \/ cmd.action = "prepareGlobal" /\ HandlePrepare(w, cmd)
        \/ cmd.action = "abortGlobal" /\ HandleAbort(w, cmd)
        \/ cmd.action = "commitGlobal" /\ HandleCommit(w, cmd)
        \/ cmd.action = "quitInstance" /\ HandleQuit(w, cmd)
        \/ cmd.action \in {"show", "applyPreset"} /\ HandleTray(w, cmd)
    BY DEF Poll
<1>2. \A v \in Workbench : prepared'[v] \subseteq prepared[v]
    BY <1>1 DEF TypeOK, HandlePrepare, HandleAbort, HandleCommit, HandleQuit, HandleTray, Forget
<1>3. \A v \in Workbench \ {w} : task'[v] = task[v]
    BY <1>1 DEF TypeOK, HandlePrepare, HandleAbort, HandleCommit, HandleQuit, HandleTray,
                Answer, StopAndFlush
<1>4. Preparing(w)' => prepared'[w] = {}
    <2>1. ASSUME NEW o, Answer(w, cmd, FALSE, o) PROVE ~Preparing(w)'
        BY <2>1 DEF TypeOK, Answer, Preparing
    <2>2. ASSUME StopAndFlush(w, cmd), cmd.action # "prepareGlobal" PROVE ~Preparing(w)'
        BY <2>2 DEF TypeOK, StopAndFlush, Preparing
    <2>3. CASE HandlePrepare(w, cmd)
        BY <2>1, <2>3 DEF HandlePrepare
    <2>4. CASE HandleAbort(w, cmd) \/ HandleCommit(w, cmd) \/ HandleTray(w, cmd)
        BY <2>1, <2>4 DEF HandleAbort, HandleCommit, HandleTray
    <2>5. CASE HandleQuit(w, cmd) /\ cmd.action = "quitInstance"
        BY <2>1, <2>2, <2>5 DEF HandleQuit
    <2> QED
        BY <1>1, <2>3, <2>4, <2>5
<1> QED
    BY <1>2, <1>3, <1>4 DEF PrepInv, OnePreparation, Preparing

LEMMA FlushedPrep ==
    ASSUME TypeOK, PrepInv, NEW w \in Workbench, Flushed(w) PROVE PrepInv'
<1> DEFINE t == task[w]
<1>1. \A v \in Workbench \ {w} : task'[v] = task[v] /\ prepared'[v] = prepared[v]
    BY DEF TypeOK, Flushed, Answer
<1>2. ~Preparing(w)'
    BY DEF TypeOK, Flushed, Answer, Preparing
<1>3. \A l, m \in prepared'[w] : l = m
    <2>1. CASE t.cmd.action = "prepareGlobal"
        <3>1. prepared[w] = {}
            BY <2>1 DEF PrepInv, Preparing, Flushed
        <3> QED
            BY <2>1, <3>1 DEF TypeOK, Flushed
    <2>2. CASE t.cmd.action # "prepareGlobal"
        BY <2>2 DEF PrepInv, OnePreparation, Flushed
    <2> QED
        BY <2>1, <2>2
<1> QED
    BY <1>1, <1>2, <1>3 DEF PrepInv, OnePreparation, Preparing

LEMMA EndsPrep ==
    ASSUME TypeOK, PrepInv, NEW w \in Workbench, Ends(w) PROVE PrepInv'
    BY DEF TypeOK, Ends, PrepInv, OnePreparation, Preparing

LEMMA TaskPrep ==
    ASSUME TypeOK, PrepInv, NEW w \in Workbench, AckCheck(w) \/ AckFails(w) PROVE PrepInv'
<1>1. task[w] # NoTask /\ task[w].step = "acking" /\ UNCHANGED prepared
    BY DEF AckCheck, AckFails
<1>2. task[w] \in Task
    BY <1>1 DEF TypeOK
<1>3. ~Preparing(w)'
    BY <1>1, <1>2 DEF TypeOK, AckCheck, AckFails, Preparing, Task
<1>4. \A v \in Workbench \ {w} : task'[v] = task[v]
    BY DEF TypeOK, AckCheck, AckFails
<1> QED
    BY <1>1, <1>3, <1>4 DEF PrepInv, OnePreparation, Preparing

LEMMA AckWritePrep ==
    ASSUME TypeOK, PrepInv, NEW w \in Workbench, AckWrite(w) PROVE PrepInv'
<1>1. CASE Exits(task[w])
    BY <1>1, EndsPrep DEF AckWrite
<1>2. CASE ~Exits(task[w])
    BY <1>2 DEF TypeOK, AckWrite, PrepInv, OnePreparation, Preparing
<1> QED
    BY <1>1, <1>2

\* At most one preparation at a time in each workbench, whatever initiators
\* crash and however their leases run out, Prompt or not.
THEOREM SinglePreparation == Spec => []OnePreparation
<1>1. Init => PrepInv
    BY DEF Init, PrepInv, OnePreparation, Preparing
<1>2. TypeOK /\ PrepInv /\ [Next]_vars => PrepInv'
    <2> SUFFICES ASSUME TypeOK, PrepInv, [Next]_vars PROVE PrepInv'
        OBVIOUS
    <2>1. CASE UNCHANGED <<task, prepared>>
        BY <2>1 DEF PrepInv, OnePreparation, Preparing
    <2>2. ASSUME NEW w \in Workbench, RecoverExpired(w) PROVE PrepInv'
        BY <2>2 DEF TypeOK, RecoverExpired, PrepInv, OnePreparation, Preparing
    <2>3. ASSUME NEW w \in Workbench, Crash(w) \/ Leave(w) PROVE PrepInv'
        BY <2>3, EndsPrep DEF Crash, Leave
    <2>4. ASSUME NEW w \in Workbench, ParticipantStep(w) \/ AckFails(w) PROVE PrepInv'
        BY <2>4, PollPrep, FlushedPrep, TaskPrep, AckWritePrep DEF ParticipantStep
    <2>5. ASSUME NEW w \in Workbench, DriverStep(w), ~Leave(w) PROVE UNCHANGED <<task, prepared>>
        BY <2>5 DEF DriverStep, FlushLocal, RequestPrepare, IssueNext, IssueDone, IssueRefused,
                    PrepareAnswered, TimedOut, RequestCommit, CommitAnswered, RequestAbort,
                    AbortAnswered
    <2>6. ASSUME NEW w \in Workbench, Begin(w) \/ (Environment(w) /\ ~Crash(w))
          PROVE  UNCHANGED <<task, prepared>>
        BY <2>6 DEF Begin, Environment, IssueInstance, Heartbeat, Transport, Edit, Launch, local
    <2> QED
        BY <2>1, <2>2, <2>3, <2>4, <2>5, <2>6 DEF Next, vars, local
<1>3. PrepInv => OnePreparation
    BY DEF PrepInv
<1> QED
    BY <1>1, <1>2, <1>3, TypeCorrect, PTL DEF Spec

-----------------------------------------------------------------------------
(* Capture.  Whoever stops what a workbench was capturing keeps a note of it: *)
(* a preparation, a task that flushes, or the operation that the workbench    *)
(* leads.  As long as nothing has been committed no note is lost.             *)

Notes(w) ==
    \/ \E l \in prepared[w] : l.wasRunning
    \/ driver[w].phase # "idle" /\ driver[w].wasRunning
    \/ /\ task[w] # NoTask /\ task[w].wasRunning
       /\ \/ task[w].step = "stopping"
          \/ task[w].cmd.action = "quitInstance" /\ task[w].outcome = "completed"

\* A task that stops is a preparation or a quit, and a quit that is being handled is
\* still in its slot, which no other command may take.
TaskInv ==
    \A w \in Workbench :
        /\ status[w] = "closed" => task[w] = NoTask
        /\ task[w] # NoTask =>
            /\ task[w].step = "stopping" => task[w].cmd.action \in {"prepareGlobal", "quitInstance"}
            /\ task[w].cmd.action = "quitInstance" => task[w].cmd \in pending[w]

\* No commit is under way before the first has begun.
UncommittedInv ==
    committing = {} =>
        \A w \in Workbench :
            /\ driver[w].verb # "commitGlobal" /\ driver[w].phase # "leaving"
            /\ \A cmd \in pending[w] : cmd.action # "commitGlobal"
            /\ task[w] # NoTask => task[w].cmd.action # "commitGlobal"

ResumeInv == committing = {} => \A w \in Workbench : intent[w] => capture[w] \/ Notes(w)

\* No quit is acknowledged in vain.
QuitsOnce == Faulty = {} \/ "quitInstance" \notin TrayAction

LEMMA QuitIsTray ==
    ASSUME NEW cmd \in Command, cmd.action = "quitInstance"
    PROVE  cmd.op = NoOperation /\ "quitInstance" \in TrayAction
    BY DEF Command, GlobalAction

\* What a step of w may write into the slots: the command of the batch it issues, the
\* abort of its operation, or an instance command.
SlotStep(w) ==
    \A t \in Workbench :
        \/ pending'[t] = pending[t]
        \/ /\ pending'[t] \subseteq pending[t]
           /\ status[t] = "closed" \/ (t = w /\ AckWrite(w))
        \/ /\ driver[w].phase # "idle" /\ SlotTakes(t, driver[w].op, "abortGlobal")
           /\ \/ pending'[t] = {Cmd(driver[w].op, "abortGlobal", t)}
              \/ /\ driver[w].phase = "issuing" /\ t \in driver[w].todo
                 /\ pending'[t] = {Cmd(driver[w].op, driver[w].verb, t)}
        \/ pending[t] = {} /\ \E action \in TrayAction : pending'[t] = {Cmd(NoOperation, action, t)}

LEMMA LiveMailSlots ==
    ASSUME TypeOK
    PROVE  \A t \in Workbench : LiveMail[t] \subseteq pending[t]
                                /\ (status[t] # "closed" => LiveMail[t] = pending[t])
    BY DEF LiveMail, TypeOK

\* A slot that takes a command takes the abort of its operation as well.
LEMMA TakesAbort ==
    ASSUME NEW t \in Workbench, NEW op, NEW action, SlotTakes(t, op, action)
    PROVE  SlotTakes(t, op, "abortGlobal")
    BY DEF SlotTakes, Replaceable

LEMMA DriverSlots ==
    ASSUME TypeOK, NEW w \in Workbench, DriverStep(w)
    PROVE  SlotStep(w)
<1>1. CASE pending' = pending
    BY <1>1 DEF SlotStep
<1>2. CASE pending' = LiveMail
    BY <1>2, LiveMailSlots DEF SlotStep
<1>3. CASE IssueNext(w)
    <2>1. PICK t \in driver[w].todo :
            /\ SlotTakes(t, driver[w].op, driver[w].verb)
            /\ pending' = [pending EXCEPT ![t] = {Cmd(driver[w].op, driver[w].verb, t)}]
        BY <1>3 DEF IssueNext
    <2>2. t \in Workbench /\ driver[w].phase = "issuing"
        BY <1>3 DEF TypeOK, IssueNext, Driver
    <2>3. SlotTakes(t, driver[w].op, "abortGlobal")
        BY <2>1, <2>2, TakesAbort
    <2>4. /\ pending'[t] = {Cmd(driver[w].op, driver[w].verb, t)}
          /\ \A s \in Workbench : s # t => pending'[s] = pending[s]
        BY <2>1, <2>2 DEF TypeOK
    <2> QED
        BY <1>3, <2>1, <2>2, <2>3, <2>4 DEF SlotStep
<1>4. CASE IssueRefused(w) /\ pending' = RolledBack(w)
    BY <1>4 DEF SlotStep, RolledBack, IssueRefused
<1> QED
    BY <1>1, <1>2, <1>3, <1>4
    DEF DriverStep, FlushLocal, RequestPrepare, IssueDone, IssueRefused, PrepareAnswered, TimedOut,
        RequestCommit, CommitAnswered, Leave, RequestAbort, AbortAnswered, Cleaned, disk

LEMMA OtherSlots ==
    ASSUME TypeOK, NEW w \in Workbench,
           Begin(w) \/ ParticipantStep(w) \/ AckFails(w) \/ RecoverExpired(w) \/ Environment(w)
    PROVE  SlotStep(w)
<1>1. CASE pending' = pending
    BY <1>1 DEF SlotStep
<1>2. CASE Heartbeat(w)
    BY <1>2, LiveMailSlots DEF Heartbeat, SlotStep
<1>3. CASE AckWrite(w)
    BY <1>3 DEF AckWrite, Emptied, SlotStep, TypeOK
<1>4. CASE IssueInstance(w)
    <2>1. PICK t \in Targets(w), action \in TrayAction :
            pending[t] = {} /\ pending' = [LiveMail EXCEPT ![t] = {Cmd(NoOperation, action, t)}]
        BY <1>4 DEF IssueInstance
    <2>2. t \in Workbench
        BY DEF Targets
    <2>3. /\ pending'[t] = {Cmd(NoOperation, action, t)}
          /\ \A s \in Workbench : s # t => pending'[s] = LiveMail[s]
        BY <2>1, <2>2 DEF LiveMail
    <2> QED
        BY <2>1, <2>2, <2>3, LiveMailSlots DEF SlotStep
<1> QED
    BY <1>1, <1>2, <1>3, <1>4
    DEF Begin, ParticipantStep, AckFails, RecoverExpired, Environment, Poll, Flushed, AckCheck,
        Transport, Edit, Launch, Crash, local, disk

\* A quit stays in its slot until it has been acknowledged.
LEMMA QuitStays ==
    ASSUME TypeOK, NEW w \in Workbench, SlotStep(w), NEW t \in Workbench, status[t] # "closed",
           ~(t = w /\ AckWrite(w)), NEW cmd \in pending[t], cmd.action = "quitInstance"
    PROVE  cmd \in pending'[t]
<1>1. cmd.op = NoOperation
    BY QuitIsTray DEF TypeOK
<1>2. driver[w].phase # "idle" => ~SlotTakes(t, driver[w].op, "abortGlobal")
    BY <1>1, CoordinationAssumption DEF TypeOK, Driver, SlotTakes, Replaceable
<1> QED
    BY <1>2 DEF SlotStep

\* A step of w leaves the tasks and the memory of the others alone.
OthersStay(w) ==
    \A v \in Workbench \ {w} :
        /\ status'[v] = status[v] /\ capture'[v] = capture[v] /\ intent'[v] = intent[v]
        /\ prepared'[v] = prepared[v] /\ task'[v] = task[v] /\ driver'[v] = driver[v]

LEMMA StepOfOne ==
    ASSUME TypeOK, NEW w \in Workbench,
           Begin(w) \/ DriverStep(w) \/ ParticipantStep(w) \/ AckFails(w) \/ RecoverExpired(w)
           \/ Environment(w)
    PROVE  OthersStay(w) /\ SlotStep(w) /\ committing \subseteq committing'
<1>1. SlotStep(w)
    BY DriverSlots, OtherSlots
<1>2. CASE Begin(w)
    <2>1. PICK d : Drive(w, d)
        BY <1>2 DEF Begin
    <2>2. OthersStay(w)
        BY <1>2, <2>1 DEF TypeOK, Begin, Drive, OthersStay
    <2> QED
        BY <1>1, <1>2, <2>2 DEF Begin
<1>3. CASE DriverStep(w)
    <2>1. (\E d : Drive(w, d)) \/ Leave(w)
        BY <1>3 DEF DriverStep, FlushLocal, RequestPrepare, IssueNext, IssueDone, IssueRefused,
            PrepareAnswered, TimedOut, RequestCommit, CommitAnswered, RequestAbort, AbortAnswered,
            GiveUp
    <2>2. ~Leave(w) => UNCHANGED <<status, prepared, task, intent>>
        BY <1>3 DEF DriverStep, FlushLocal, RequestPrepare, IssueNext, IssueDone, IssueRefused,
            PrepareAnswered, TimedOut, RequestCommit, CommitAnswered, RequestAbort, AbortAnswered,
            ghost
    <2>3. capture' = capture \/ (\E b : capture' = [capture EXCEPT ![w] = b])
        BY <1>3 DEF DriverStep, FlushLocal, RequestPrepare, IssueNext, IssueDone, IssueRefused,
            PrepareAnswered, TimedOut, RequestCommit, CommitAnswered, Leave, RequestAbort,
            AbortAnswered, GiveUp, Ends
    <2>4. committing \subseteq committing'
        BY <1>3 DEF DriverStep, FlushLocal, RequestPrepare, IssueNext, IssueDone, IssueRefused,
            PrepareAnswered, TimedOut, RequestCommit, CommitAnswered, Leave, RequestAbort,
            AbortAnswered, ghost
    <2>5. OthersStay(w)
        BY <2>1, <2>2, <2>3 DEF TypeOK, Leave, Ends, Drive, OthersStay
    <2> QED
        BY <1>1, <2>4, <2>5
<1>4. CASE Poll(w)
    <2>1. PICK cmd \in pending[w] :
            \/ HandlePrepare(w, cmd) \/ HandleAbort(w, cmd) \/ HandleCommit(w, cmd)
            \/ HandleQuit(w, cmd) \/ HandleTray(w, cmd)
        BY <1>4 DEF Poll
    <2>2. /\ capture' = capture \/ \E b : capture' = [capture EXCEPT ![w] = b]
          /\ prepared' = prepared \/ \E p : prepared' = [prepared EXCEPT ![w] = p]
          /\ \E x : task' = [task EXCEPT ![w] = x]
        BY <2>1 DEF HandlePrepare, HandleAbort, HandleCommit, HandleQuit, HandleTray,
            Answer, StopAndFlush, Forget, Resumed
    <2>3. UNCHANGED <<status, intent, driver, committing>>
        BY <1>4 DEF Poll, ghost
    <2>4. OthersStay(w)
        BY <2>2, <2>3 DEF TypeOK, OthersStay
    <2> QED
        BY <1>1, <2>3, <2>4
<1>5. CASE Flushed(w) \/ AckCheck(w) \/ AckFails(w) \/ RecoverExpired(w)
    <2>1. /\ capture' = capture \/ \E b : capture' = [capture EXCEPT ![w] = b]
          /\ prepared' = prepared \/ \E p : prepared' = [prepared EXCEPT ![w] = p]
          /\ task' = task \/ \E x : task' = [task EXCEPT ![w] = x]
        BY <1>5 DEF Flushed, AckCheck, AckFails, RecoverExpired, Answer, Resumed
    <2>2. UNCHANGED <<status, intent, driver, committing>>
        BY <1>5 DEF Flushed, AckCheck, AckFails, RecoverExpired, ghost
    <2>3. OthersStay(w)
        BY <2>1, <2>2 DEF TypeOK, OthersStay
    <2> QED
        BY <1>1, <2>2, <2>3
<1>6. CASE AckWrite(w) \/ Crash(w)
    <2>1. \/ Ends(w)
          \/ /\ task' = [task EXCEPT ![w] = NoTask]
             /\ UNCHANGED <<status, capture, prepared, driver, intent>>
        BY <1>6 DEF AckWrite, Crash
    <2>2. OthersStay(w)
        BY <2>1 DEF TypeOK, Ends, OthersStay
    <2> QED
        BY <1>1, <1>6, <2>2 DEF AckWrite, Crash
<1>7. CASE Environment(w) /\ ~Crash(w)
    <2>1. /\ capture' = capture \/ \E b : capture' = [capture EXCEPT ![w] = b]
          /\ intent' = intent \/ \E b : intent' = [intent EXCEPT ![w] = b]
          /\ status' = status \/ \E x : status' = [status EXCEPT ![w] = x]
          /\ UNCHANGED <<prepared, task, driver, committing>>
        BY <1>7 DEF Environment, IssueInstance, Heartbeat, Transport, Edit, Launch, local, ghost
    <2>2. OthersStay(w)
        BY <2>1 DEF TypeOK, OthersStay
    <2> QED
        BY <1>1, <2>1, <2>2
<1> QED
    BY <1>2, <1>3, <1>4, <1>5, <1>6, <1>7 DEF ParticipantStep, Environment

\* The task that a poll begins.
LEMMA PollTask ==
    ASSUME TypeOK, NEW w \in Workbench, Poll(w)
    PROVE  /\ status[w] = "open" /\ task[w] = NoTask /\ UNCHANGED <<status, driver, disk, intent, committing>>
           /\ \E cmd \in pending[w] :
                /\ task'[w].cmd = cmd
                /\ task'[w].step = "stopping" => cmd.action \in {"prepareGlobal", "quitInstance"}
<1>1. PICK cmd \in pending[w] :
        \/ cmd.action = "prepareGlobal" /\ HandlePrepare(w, cmd)
        \/ cmd.action = "abortGlobal" /\ HandleAbort(w, cmd)
        \/ cmd.action = "commitGlobal" /\ HandleCommit(w, cmd)
        \/ cmd.action = "quitInstance" /\ HandleQuit(w, cmd)
        \/ cmd.action \in {"show", "applyPreset"} /\ HandleTray(w, cmd)
    BY DEF Poll
<1>2. \A running, outcome : Answer(w, cmd, running, outcome) =>
        task'[w].cmd = cmd /\ task'[w].step = "acking"
    BY DEF Answer, TypeOK
<1>3. StopAndFlush(w, cmd) => task'[w].cmd = cmd
    BY DEF StopAndFlush, TypeOK
<1>4. task'[w].cmd = cmd /\
        (task'[w].step = "stopping" => cmd.action \in {"prepareGlobal", "quitInstance"})
    BY <1>1, <1>2, <1>3 DEF HandlePrepare, HandleAbort, HandleCommit, HandleQuit, HandleTray
<1> QED
    BY <1>4 DEF Poll, Open, ghost

\* What the other steps make of a task.
LEMMA TaskGoesOn ==
    ASSUME TypeOK, NEW w \in Workbench, task'[w] # NoTask,
           Flushed(w) \/ AckCheck(w) \/ AckWrite(w) \/ AckFails(w)
    PROVE  /\ task[w] # NoTask /\ task'[w].cmd = task[w].cmd /\ task'[w].step # "stopping"
           /\ status[w] = "open" /\ UNCHANGED <<status, pending>>
           /\ task'[w].wasRunning = task[w].wasRunning
           /\ ~Flushed(w) => UNCHANGED <<capture, intent, driver, prepared>>
           /\ AckCheck(w) => task'[w].outcome = task[w].outcome
<1>1. task[w] # NoTask /\ task[w] \in Task
    BY DEF TypeOK, Flushed, AckCheck, AckWrite, AckFails
<1>2. CASE Flushed(w)
    BY <1>1, <1>2 DEF TypeOK, Flushed, Answer, Open, disk, AckCheck
<1>3. CASE AckCheck(w)
    BY <1>1, <1>3 DEF TypeOK, AckCheck, Open, disk, ghost, Task
<1>4. CASE AckFails(w)
    BY <1>1, <1>4 DEF TypeOK, AckFails, AckCheck, Open, disk, ghost, Task
<1>5. CASE AckWrite(w)
    BY <1>5 DEF TypeOK, AckWrite, Ends
<1> QED
    BY <1>2, <1>3, <1>4, <1>5

LEMMA TaskElsewhere ==
    ASSUME TypeOK, NEW w \in Workbench,
           Begin(w) \/ DriverStep(w) \/ RecoverExpired(w) \/ Environment(w)
    PROVE  /\ task'[w] = task[w] \/ task'[w] = NoTask
           /\ status'[w] = "closed" => status[w] = "closed" \/ task'[w] = NoTask
    BY DEF TypeOK, Begin, DriverStep, FlushLocal, RequestPrepare, IssueNext, IssueDone, IssueRefused,
        PrepareAnswered, TimedOut, RequestCommit, CommitAnswered, Leave, RequestAbort, AbortAnswered,
        RecoverExpired, Environment, IssueInstance, Heartbeat, Transport, Edit, Launch, Crash, Ends,
        local

LEMMA TaskInductive == Spec => []TaskInv
<1>1. Init => TaskInv
    BY DEF Init, TaskInv
<1>2. ASSUME TypeOK, TaskInv, NEW w \in Workbench,
             Begin(w) \/ DriverStep(w) \/ ParticipantStep(w) \/ AckFails(w) \/ RecoverExpired(w)
             \/ Environment(w)
      PROVE  TaskInv'
    <2>1. OthersStay(w) /\ SlotStep(w)
        BY <1>2, StepOfOne
    <2>2. \A t \in Workbench : task[t] # NoTask /\ task[t].cmd.action = "quitInstance"
                               /\ ~(t = w /\ AckWrite(w)) => task[t].cmd \in pending'[t]
        BY <1>2, <2>1, QuitStays DEF TaskInv
    <2>3. ASSUME NEW v \in Workbench, v # w
          PROVE  /\ status'[v] = "closed" => task'[v] = NoTask
                 /\ task'[v] # NoTask =>
                    /\ task'[v].step = "stopping" => task'[v].cmd.action \in {"prepareGlobal", "quitInstance"}
                    /\ task'[v].cmd.action = "quitInstance" => task'[v].cmd \in pending'[v]
        BY <1>2, <2>1, <2>2, <2>3 DEF OthersStay, TaskInv
    <2>4. /\ status'[w] = "closed" => task'[w] = NoTask
          /\ task'[w] # NoTask =>
             /\ task'[w].step = "stopping" => task'[w].cmd.action \in {"prepareGlobal", "quitInstance"}
             /\ task'[w].cmd.action = "quitInstance" => task'[w].cmd \in pending'[w]
        <3>1. CASE Poll(w)
            <4>1. status'[w] = "open" /\ pending' = pending
                BY <1>2, <3>1, PollTask DEF disk
            <4> QED
                BY <1>2, <3>1, <4>1, PollTask
        <3>2. CASE (Flushed(w) \/ AckCheck(w) \/ AckWrite(w) \/ AckFails(w)) /\ task'[w] # NoTask
            BY <1>2, <3>2, TaskGoesOn DEF TaskInv
        <3>3. CASE (Begin(w) \/ DriverStep(w) \/ RecoverExpired(w) \/ Environment(w)) /\ ~AckWrite(w)
            BY <1>2, <2>2, <3>3, TaskElsewhere DEF TaskInv
        <3>4. CASE task'[w] = NoTask
            BY <3>4
        <3>5. CASE AckWrite(w)
            <4>1. task'[w] = NoTask
                BY <1>2, <3>5 DEF TypeOK, AckWrite, Ends
            <4> QED
                BY <4>1
        <3> QED
            BY <1>2, <3>1, <3>2, <3>3, <3>4, <3>5 DEF ParticipantStep
    <2> QED
        BY <2>3, <2>4 DEF TaskInv
<1>3. TaskInv /\ UNCHANGED vars => TaskInv'
    BY DEF TaskInv, vars, local, disk
<1>4. TypeOK /\ TaskInv /\ [Next]_vars => TaskInv'
    BY <1>2, <1>3 DEF Next
<1> QED
    BY <1>1, <1>4, TypeCorrect, PTL DEF Spec

\* Where the command of a task comes from.
TaskStep(w) ==
    task'[w] # NoTask => \/ \E cmd \in pending[w] : task[w] = NoTask /\ task'[w].cmd = cmd
                         \/ task[w] # NoTask /\ task'[w].cmd = task[w].cmd

LEMMA TaskFrom ==
    ASSUME TypeOK, NEW w \in Workbench,
           Begin(w) \/ DriverStep(w) \/ ParticipantStep(w) \/ AckFails(w) \/ RecoverExpired(w)
           \/ Environment(w)
    PROVE  TaskStep(w)
    BY PollTask, TaskGoesOn, TaskElsewhere DEF ParticipantStep, TaskStep

\* A commit begins in RequestCommit, and only a commit that was issued is left.
LEMMA DriverUncommitted ==
    ASSUME TypeOK, NEW w \in Workbench,
           Begin(w) \/ DriverStep(w) \/ ParticipantStep(w) \/ AckFails(w) \/ RecoverExpired(w)
           \/ Environment(w),
           committing' = {}, driver[w].verb # "commitGlobal", driver[w].phase # "leaving"
    PROVE  driver'[w].verb # "commitGlobal" /\ driver'[w].phase # "leaving"
<1> DEFINE d == driver[w]
<1>0. d \in Driver /\ driver \in [Workbench -> Driver]
    BY DEF TypeOK
<1>1. \A p : [d EXCEPT !.phase = p].phase = p /\ [d EXCEPT !.phase = p].verb = d.verb
    BY <1>0 DEF Driver
<1>2. Idle.verb # "commitGlobal" /\ Idle.phase # "leaving"
    BY DEF Idle
<1>3. \A e : Drive(w, e) => driver'[w] = e
    BY <1>0 DEF Drive
<1>15. ASSUME NEW p, p # "leaving", Drive(w, [d EXCEPT !.phase = p])
      PROVE  driver'[w].verb # "commitGlobal" /\ driver'[w].phase # "leaving"
    <2>1. driver'[w] = [d EXCEPT !.phase = p]
        BY <1>3, <1>15
    <2> QED
        BY <1>1, <1>15, <2>1
<1>4. CASE Begin(w)
    <2>1. PICK op : Drive(w, [Idle EXCEPT !.phase = "stopping", !.op = op, !.wasRunning = capture[w]])
        BY <1>4 DEF Begin
    <2>2. driver'[w] = [Idle EXCEPT !.phase = "stopping", !.op = op, !.wasRunning = capture[w]]
        BY <1>3, <2>1
    <2> QED
        BY <2>2 DEF Idle
<1>5. CASE FlushLocal(w) \/ IssueDone(w) \/ TimedOut(w)
    <2>1. \/ Drive(w, [d EXCEPT !.phase = "requesting"]) \/ Drive(w, Idle)
          \/ Drive(w, [d EXCEPT !.phase = "awaiting"]) \/ Drive(w, [d EXCEPT !.phase = "aborting"])
        BY <1>5 DEF FlushLocal, IssueDone, TimedOut
    <2> QED
        BY <1>2, <1>3, <1>15, <2>1
<1>6. CASE GiveUp(w)
    BY <1>2, <1>3, <1>6 DEF GiveUp
<1>7. CASE RequestPrepare(w) /\ ~GiveUp(w)
    <2>1. CASE Drive(w, [d EXCEPT !.phase = "issuing", !.verb = "prepareGlobal",
                                  !.peers = Targets(w), !.todo = Targets(w)])
        <3>1. driver'[w] = [d EXCEPT !.phase = "issuing", !.verb = "prepareGlobal",
                                     !.peers = Targets(w), !.todo = Targets(w)]
            BY <1>3, <2>1
        <3> QED
            BY <1>0, <3>1 DEF Driver
    <2>2. CASE Drive(w, [d EXCEPT !.phase = "aborting"])
        BY <1>15, <2>2
    <2> QED
        BY <1>7, <2>1, <2>2 DEF RequestPrepare
<1>8. CASE IssueNext(w)
    <2>1. PICK t \in d.todo : Drive(w, [d EXCEPT !.todo = @ \ {t}, !.sent = @ \cup {t}])
        BY <1>8 DEF IssueNext
    <2>2. driver'[w] = [d EXCEPT !.todo = @ \ {t}, !.sent = @ \cup {t}]
        BY <1>3, <2>1
    <2> QED
        BY <1>0, <2>2 DEF Driver
<1>9. CASE IssueRefused(w) /\ ~GiveUp(w)
    BY <1>1, <1>3, <1>9 DEF IssueRefused
<1>10. CASE PrepareAnswered(w)
    <2> DEFINE p == IF Unanimous(w, "ready") THEN "prepared" ELSE "aborting"
    <2>1. driver'[w] = [d EXCEPT !.sent = {}, !.phase = p]
        BY <1>3, <1>10 DEF PrepareAnswered
    <2>2. p # "leaving"
        OBVIOUS
    <2> HIDE DEF p
    <2> QED
        BY <1>0, <2>1, <2>2 DEF Driver
<1>11. CASE RequestCommit(w)
    <2>1. d.op \notin committing'
        OBVIOUS
    <2>2. Drive(w, [d EXCEPT !.phase = "aborting"])
        BY <1>11, <2>1 DEF RequestCommit
    <2> QED
        BY <1>15, <2>2
<1>12. CASE RequestAbort(w) /\ ~GiveUp(w)
    <2>1. driver'[w] = [d EXCEPT !.phase = "issuing", !.verb = "abortGlobal",
                                 !.todo = d.peers, !.sent = {}]
        BY <1>3, <1>12 DEF RequestAbort
    <2> QED
        BY <1>0, <2>1 DEF Driver
<1>13. CASE Ends(w)
    BY <1>0, <1>2, <1>13 DEF Ends
<1>14. CASE UNCHANGED driver
    BY <1>14
<1> QED
    BY <1>4, <1>5, <1>6, <1>7, <1>8, <1>9, <1>10, <1>11, <1>12, <1>13, <1>14
    DEF DriverStep, ParticipantStep, Environment, CommitAnswered, Leave, AbortAnswered, Poll, Flushed,
        AckCheck, AckWrite, AckFails, RecoverExpired, IssueInstance, Heartbeat, Transport, Edit,
        Launch, Crash, local

LEMMA UncommittedInductive == Spec => []UncommittedInv
<1>1. Init => UncommittedInv
    <2>1. Idle.verb # "commitGlobal" /\ Idle.phase # "leaving"
        BY DEF Idle
    <2> QED
        BY <2>1 DEF Init, UncommittedInv
<1>2. ASSUME TypeOK, UncommittedInv, committing' = {}, NEW w \in Workbench,
             Begin(w) \/ DriverStep(w) \/ ParticipantStep(w) \/ AckFails(w) \/ RecoverExpired(w)
             \/ Environment(w)
      PROVE  UncommittedInv'
    <2>1. OthersStay(w) /\ SlotStep(w) /\ TaskStep(w) /\ committing = {}
        BY <1>2, StepOfOne, TaskFrom
    <2>2. /\ driver'[w].verb # "commitGlobal" /\ driver'[w].phase # "leaving"
          /\ driver[w].verb # "commitGlobal"
        BY <1>2, <2>1, DriverUncommitted DEF UncommittedInv
    <2>3. ASSUME NEW t \in Workbench, NEW cmd \in pending'[t] PROVE cmd.action # "commitGlobal"
        <3>1. CASE cmd \in pending[t]
            BY <1>2, <2>1, <3>1 DEF UncommittedInv
        <3>2. \A action : Cmd(driver[w].op, action, t).action = action
                          /\ Cmd(NoOperation, action, t).action = action
            BY DEF Cmd
        <3>3. "commitGlobal" \notin TrayAction
            BY CoordinationAssumption
        <3> QED
            BY <2>1, <2>2, <2>3, <3>1, <3>2, <3>3 DEF SlotStep
    <2>4. task'[w] # NoTask => task'[w].cmd.action # "commitGlobal"
        BY <1>2, <2>1 DEF UncommittedInv, TaskStep
    <2> QED
        BY <1>2, <2>1, <2>2, <2>3, <2>4 DEF UncommittedInv, OthersStay
<1>3. UncommittedInv /\ UNCHANGED vars => UncommittedInv'
    BY DEF UncommittedInv, vars, local, disk, ghost
<1>4. committing' # {} => UncommittedInv'
    BY DEF UncommittedInv
<1>5. TypeOK /\ UncommittedInv /\ [Next]_vars => UncommittedInv'
    BY <1>2, <1>3, <1>4 DEF Next
<1> QED
    BY <1>1, <1>5, TypeCorrect, PTL DEF Spec

\* What is wanted of w after its own step.
Resumes(w) == intent'[w] => capture'[w] \/ Notes(w)'

LEMMA DriverNotes ==
    ASSUME TypeOK, NEW w \in Workbench, intent[w] => capture[w] \/ Notes(w),
           Begin(w) \/ DriverStep(w)
    PROVE  Resumes(w)
<1> DEFINE d == driver[w]
<1>0. d \in Driver /\ driver \in [Workbench -> Driver] /\ capture \in [Workbench -> BOOLEAN]
    BY DEF TypeOK
<1>1. \A e : Drive(w, e) => driver'[w] = e
    BY <1>0 DEF Drive
<1>2. ASSUME UNCHANGED <<capture, intent, prepared, task>>, NEW e, Drive(w, e),
             d.phase # "idle" => e.phase # "idle" /\ e.wasRunning = d.wasRunning
      PROVE  Resumes(w)
    BY <1>1, <1>2 DEF Resumes, Notes
<1>3. ASSUME UNCHANGED <<intent, prepared, task>>,
             capture' = [capture EXCEPT ![w] = @ \/ d.wasRunning]
      PROVE  Resumes(w)
    BY <1>0, <1>3 DEF Resumes, Notes
<1>4. CASE GiveUp(w) /\ UNCHANGED <<intent, prepared, task>>
    BY <1>3, <1>4 DEF GiveUp
<1>5. CASE Ends(w)
    BY <1>5 DEF Ends, Resumes, TypeOK
<1>6. CASE Begin(w)
    <2>1. PICK op : Drive(w, [Idle EXCEPT !.phase = "stopping", !.op = op, !.wasRunning = capture[w]])
        BY <1>6 DEF Begin
    <2>2. driver'[w] = [Idle EXCEPT !.phase = "stopping", !.op = op, !.wasRunning = capture[w]]
        BY <1>1, <2>1
    <2>3. driver'[w].phase = "stopping" /\ driver'[w].wasRunning = capture[w]
        BY <2>2 DEF Idle
    <2>4. d.phase = "idle" /\ UNCHANGED <<intent, prepared, task>>
        BY <1>6 DEF Begin
    <2> QED
        BY <2>3, <2>4 DEF Resumes, Notes
<1>7. \A p \in Phase : p # "idle" =>
        [d EXCEPT !.phase = p].phase # "idle" /\ [d EXCEPT !.phase = p].wasRunning = d.wasRunning
    BY <1>0 DEF Driver
<1>8. CASE FlushLocal(w)
    BY <1>2, <1>3, <1>7, <1>8 DEF FlushLocal, Phase, ghost
<1>9. CASE RequestPrepare(w) /\ ~GiveUp(w)
    <2> DEFINE e == [d EXCEPT !.phase = "issuing", !.verb = "prepareGlobal",
                              !.peers = Targets(w), !.todo = Targets(w)]
    <2>1. e.phase # "idle" /\ e.wasRunning = d.wasRunning
        BY <1>0 DEF Driver
    <2>2. (Drive(w, e) \/ Drive(w, [d EXCEPT !.phase = "aborting"]))
          /\ UNCHANGED <<capture, intent, prepared, task>>
        BY <1>9 DEF RequestPrepare
    <2> HIDE DEF e
    <2> QED
        BY <1>2, <1>7, <2>1, <2>2 DEF Phase
<1>10. CASE IssueNext(w)
    <2>1. PICK t \in d.todo : Drive(w, [d EXCEPT !.todo = @ \ {t}, !.sent = @ \cup {t}])
        BY <1>10 DEF IssueNext
    <2> DEFINE e == [d EXCEPT !.todo = @ \ {t}, !.sent = @ \cup {t}]
    <2>2. e.phase = d.phase /\ e.wasRunning = d.wasRunning
        BY <1>0 DEF Driver
    <2>3. UNCHANGED <<capture, intent, prepared, task>>
        BY <1>10 DEF IssueNext, ghost
    <2> QED
        BY <1>2, <2>1, <2>2, <2>3
<1>11. CASE IssueDone(w) \/ TimedOut(w)
    BY <1>2, <1>7, <1>11 DEF IssueDone, TimedOut, Phase, ghost
<1>12. CASE IssueRefused(w) /\ ~GiveUp(w)
    BY <1>2, <1>7, <1>12 DEF IssueRefused, Phase
<1>13. CASE PrepareAnswered(w)
    <2> DEFINE p == IF Unanimous(w, "ready") THEN "prepared" ELSE "aborting"
               e == [d EXCEPT !.sent = {}, !.phase = p]
    <2>1. Drive(w, e) /\ UNCHANGED <<capture, intent, prepared, task>>
        BY <1>13 DEF PrepareAnswered, ghost
    <2>2. p # "idle"
        OBVIOUS
    <2> HIDE DEF p
    <2>3. e.phase # "idle" /\ e.wasRunning = d.wasRunning
        BY <1>0, <2>2 DEF Driver
    <2> QED
        BY <1>2, <2>1, <2>3
<1>14. CASE RequestCommit(w)
    <2> DEFINE e == [d EXCEPT !.phase = "issuing", !.verb = "commitGlobal",
                              !.todo = d.peers, !.sent = {}]
    <2>1. e.phase # "idle" /\ e.wasRunning = d.wasRunning
        BY <1>0 DEF Driver
    <2>2. (Drive(w, e) \/ Drive(w, [d EXCEPT !.phase = "aborting"]))
          /\ UNCHANGED <<capture, intent, prepared, task>>
        BY <1>14 DEF RequestCommit
    <2> HIDE DEF e
    <2> QED
        BY <1>2, <1>7, <2>1, <2>2 DEF Phase
<1>15. CASE CommitAnswered(w)
    BY <1>2, <1>7, <1>15 DEF CommitAnswered, Phase, ghost
<1>16. CASE RequestAbort(w) /\ ~GiveUp(w)
    <2> DEFINE e == [d EXCEPT !.phase = "issuing", !.verb = "abortGlobal",
                              !.todo = d.peers, !.sent = {}]
    <2>1. e.phase # "idle" /\ e.wasRunning = d.wasRunning
        BY <1>0 DEF Driver
    <2>2. Drive(w, e) /\ UNCHANGED <<capture, intent, prepared, task>>
        BY <1>16 DEF RequestAbort
    <2> QED
        BY <1>2, <2>1, <2>2
<1>17. GiveUp(w) => UNCHANGED <<intent, prepared, task>> \/ Ends(w) \/ Begin(w)
    BY DEF DriverStep, FlushLocal, RequestPrepare, IssueNext, IssueDone, IssueRefused,
        PrepareAnswered, TimedOut, RequestCommit, CommitAnswered, Leave, RequestAbort, AbortAnswered,
        ghost
<1> QED
    BY <1>4, <1>5, <1>6, <1>8, <1>9, <1>10, <1>11, <1>12, <1>13, <1>14, <1>15, <1>16, <1>17
    DEF DriverStep, Leave, AbortAnswered

LEMMA PollNotes ==
    ASSUME TypeOK, NEW w \in Workbench, intent[w] => capture[w] \/ Notes(w), Poll(w),
           \A cmd \in pending[w] : cmd.action # "commitGlobal"
    PROVE  Resumes(w)
<1>0. capture \in [Workbench -> BOOLEAN] /\ prepared \in [Workbench -> SUBSET Lease]
    BY DEF TypeOK
<1>1. PICK cmd \in pending[w] :
        \/ HandlePrepare(w, cmd) \/ HandleAbort(w, cmd) \/ HandleQuit(w, cmd) \/ HandleTray(w, cmd)
    BY DEF Poll
<1>2. task[w] = NoTask /\ UNCHANGED <<driver, intent>>
    BY DEF Poll, ghost
<1>3. ASSUME StopAndFlush(w, cmd), UNCHANGED prepared PROVE Resumes(w)
    <2>1. task'[w] = [cmd |-> cmd, step |-> "stopping", wasRunning |-> capture[w], outcome |-> "failed"]
        BY <1>3 DEF TypeOK, StopAndFlush
    <2>2. task'[w] # NoTask => (capture[w] => Notes(w)')
        BY <2>1 DEF Notes
    <2>3. cmd \in Command /\ task'[w] \in Task
        BY <1>0, <2>1 DEF TypeOK, Task, Outcome
    <2>4. task'[w] # NoTask
        BY <2>3, NoTaskAssumption
    <2> QED
        BY <1>2, <1>3, <2>2, <2>4 DEF Resumes, Notes
<1>4. CASE UNCHANGED <<capture, prepared>>
    BY <1>2, <1>4 DEF Resumes, Notes
<1>5. CASE HandleAbort(w, cmd)
    <2>1. /\ capture'[w] = (capture[w] \/ \E l \in PreparedFor(w, cmd.op) : l.wasRunning)
          /\ prepared'[w] = prepared[w] \ PreparedFor(w, cmd.op)
        BY <1>0, <1>5 DEF HandleAbort, Resumed, Forget
    <2> QED
        BY <1>2, <2>1 DEF Resumes, Notes
<1> QED
    BY <1>1, <1>3, <1>4, <1>5 DEF HandlePrepare, HandleQuit, HandleTray

LEMMA FlushedNotes ==
    ASSUME TypeOK, TaskInv, NEW w \in Workbench, intent[w] => capture[w] \/ Notes(w), Flushed(w)
    PROVE  Resumes(w)
<1> DEFINE t == task[w]
<1>0. /\ t # NoTask /\ t.step = "stopping" /\ UNCHANGED <<driver, intent>> /\ t \in Task
      /\ t.cmd.action \in {"prepareGlobal", "quitInstance"}
      /\ capture \in [Workbench -> BOOLEAN] /\ prepared \in [Workbench -> SUBSET Lease]
    BY DEF TypeOK, Flushed, TaskInv, ghost
<1>1. ASSUME capture' = [capture EXCEPT ![w] = @ \/ t.wasRunning], UNCHANGED prepared
      PROVE  Resumes(w)
    BY <1>0, <1>1 DEF Resumes, Notes
<1>2. CASE /\ UNCHANGED capture /\ t.cmd.action = "prepareGlobal"
           /\ prepared' = [prepared EXCEPT ![w] =
                             @ \cup {[op |-> t.cmd.op, wasRunning |-> t.wasRunning]}]
    <2>1. prepared'[w] = prepared[w] \cup {[op |-> t.cmd.op, wasRunning |-> t.wasRunning]}
        BY <1>0, <1>2
    <2>2. t.wasRunning => \E l \in prepared'[w] : l.wasRunning
        <3> DEFINE note == [op |-> t.cmd.op, wasRunning |-> t.wasRunning]
        <3>1. note \in prepared'[w] /\ note.wasRunning = t.wasRunning
            BY <2>1
        <3> QED
            BY <3>1
    <2> QED
        BY <1>0, <1>2, <2>1, <2>2 DEF Resumes, Notes
<1>3. CASE /\ UNCHANGED <<capture, prepared>> /\ t.cmd.action = "quitInstance"
           /\ Answer(w, t.cmd, t.wasRunning, "completed")
    <2>1. task'[w] = [cmd |-> t.cmd, step |-> "acking", wasRunning |-> t.wasRunning,
                      outcome |-> "completed"]
        BY <1>3 DEF TypeOK, Answer
    <2>2. /\ task'[w].wasRunning = t.wasRunning /\ task'[w].cmd.action = "quitInstance"
          /\ task'[w].outcome = "completed"
        BY <1>3, <2>1
    <2>3. task'[w] # NoTask
        <3>1. task'[w] \in Task
            BY <1>0, <2>1 DEF Task, Outcome
        <3> QED
            BY <3>1, NoTaskAssumption
    <2> QED
        BY <1>0, <1>3, <2>2, <2>3 DEF Resumes, Notes
<1> QED
    BY <1>0, <1>1, <1>2, <1>3 DEF Flushed

LEMMA AckNotes ==
    ASSUME TypeOK, TaskInv, QuitsOnce, NEW w \in Workbench, intent[w] => capture[w] \/ Notes(w),
           AckCheck(w) \/ AckFails(w) \/ AckWrite(w) \/ Crash(w)
    PROVE  Resumes(w)
<1>1. CASE Ends(w)
    BY <1>1 DEF Ends, Resumes, TypeOK
<1>2. CASE AckCheck(w)
    <2>1. task[w] # NoTask /\ task[w] \in Task /\ task[w].step = "acking"
          /\ UNCHANGED <<capture, intent, driver, prepared>>
        BY <1>2 DEF TypeOK, AckCheck, ghost
    <2>2. CASE task[w].cmd \in pending[w]
        <3>1. task'[w] = [task[w] EXCEPT !.step = "writing"]
            BY <1>2, <2>2 DEF TypeOK, AckCheck
        <3>2. /\ task'[w] \in Task /\ task'[w].wasRunning = task[w].wasRunning
              /\ task'[w].cmd = task[w].cmd /\ task'[w].outcome = task[w].outcome
            BY <2>1, <3>1 DEF Task
        <3>3. task'[w] # NoTask
            BY <3>2, NoTaskAssumption
        <3> QED
            BY <2>1, <3>2, <3>3 DEF Resumes, Notes
    <2>3. CASE task[w].cmd \notin pending[w]
        BY <2>1, <2>3 DEF TaskInv, Resumes, Notes
    <2> QED
        BY <2>2, <2>3
<1>3. CASE AckFails(w)
    <2>1. task[w] # NoTask /\ task[w] \in Task /\ task[w].step = "acking" /\ w \in Faulty
          /\ UNCHANGED <<capture, intent, driver, prepared>>
        BY <1>3 DEF TypeOK, AckFails, ghost
    <2>2. task[w].cmd.action # "quitInstance"
        BY <2>1, QuitIsTray DEF QuitsOnce, Task
    <2> QED
        BY <2>1, <2>2 DEF Resumes, Notes
<1>4. CASE AckWrite(w) /\ ~Ends(w)
    <2>1. task[w] # NoTask /\ task[w].step = "writing" /\ ~Exits(task[w])
          /\ UNCHANGED <<capture, intent, driver, prepared>>
        BY <1>4 DEF AckWrite
    <2> QED
        BY <2>1 DEF Resumes, Notes, Exits
<1> QED
    BY <1>1, <1>2, <1>3, <1>4 DEF Crash

LEMMA OtherNotes ==
    ASSUME TypeOK, NEW w \in Workbench, intent[w] => capture[w] \/ Notes(w),
           RecoverExpired(w) \/ (Environment(w) /\ ~Crash(w))
    PROVE  Resumes(w)
<1>0. capture \in [Workbench -> BOOLEAN] /\ prepared \in [Workbench -> SUBSET Lease]
      /\ intent \in [Workbench -> BOOLEAN]
    BY DEF TypeOK
<1>1. CASE RecoverExpired(w)
    <2>1. PICK l \in prepared[w] :
            /\ capture' = Resumed(w, {l})
            /\ prepared' = [prepared EXCEPT ![w] = @ \ {l}]
        BY <1>1 DEF RecoverExpired
    <2>2. /\ capture'[w] = (capture[w] \/ l.wasRunning)
          /\ prepared'[w] = prepared[w] \ {l}
        BY <1>0, <2>1 DEF Resumed
    <2>3. UNCHANGED <<task, driver, intent>>
        BY <1>1 DEF RecoverExpired, ghost
    <2> QED
        BY <2>2, <2>3 DEF Resumes, Notes
<1>2. CASE Transport(w)
    BY <1>0, <1>2 DEF Transport, Resumes
<1>3. CASE UNCHANGED <<capture, intent, prepared, task, driver>>
    BY <1>3 DEF Resumes, Notes
<1> QED
    BY <1>1, <1>2, <1>3 DEF Environment, IssueInstance, Heartbeat, Edit, Launch, local, ghost

\* As long as no commit has been issued, whatever was refused, timed out, crashed or failed to
\* flush, a workbench that takes part in nothing captures what its user had started: each stop
\* of coordination.js leaves a note from which capture is resumed.  QuitsOnce is needed: when
\* the acknowledgement of a quit cannot be written (coordination.js:100), the failure is
\* acknowledged instead and nothing restarts what the quit had stopped.
THEOREM CaptureComesBack ==
    ASSUME QuitsOnce PROVE Spec => []CaptureResumedWithoutCommit
<1>1. Init => ResumeInv
    BY DEF Init, ResumeInv
<1>2. ASSUME TypeOK, TaskInv, UncommittedInv, ResumeInv, committing' = {}, NEW w \in Workbench,
             Begin(w) \/ DriverStep(w) \/ ParticipantStep(w) \/ AckFails(w) \/ RecoverExpired(w)
             \/ Environment(w)
      PROVE  ResumeInv'
    <2>1. OthersStay(w) /\ committing = {}
        BY <1>2, StepOfOne
    <2>2. (intent[w] => capture[w] \/ Notes(w)) /\ \A cmd \in pending[w] : cmd.action # "commitGlobal"
        BY <1>2, <2>1 DEF ResumeInv, UncommittedInv
    <2>3. Resumes(w)
        BY <1>2, <2>2, DriverNotes, PollNotes, FlushedNotes, AckNotes, OtherNotes
        DEF ParticipantStep, Environment
    <2>4. \A v \in Workbench \ {w} : intent'[v] => capture'[v] \/ Notes(v)'
        BY <1>2, <2>1 DEF OthersStay, ResumeInv, Notes
    <2> QED
        BY <2>3, <2>4 DEF Resumes, ResumeInv
<1>3. ResumeInv /\ UNCHANGED vars => ResumeInv'
    BY DEF ResumeInv, Notes, vars, local, ghost
<1>4. committing' # {} => ResumeInv'
    BY DEF ResumeInv
<1>5. TypeOK /\ TaskInv /\ UncommittedInv /\ ResumeInv /\ [Next]_vars => ResumeInv'
    BY <1>2, <1>3, <1>4 DEF Next
<1>6. ResumeInv => CaptureResumedWithoutCommit
    BY DEF ResumeInv, CaptureResumedWithoutCommit, CaptureResumed, Settled, Notes
<1> QED
    BY <1>1, <1>5, <1>6, TypeCorrect, TaskInductive, UncommittedInductive, PTL DEF Spec

-----------------------------------------------------------------------------
(* Agreement.  An operation id is drawn once, so what is on its way for the    *)
(* operation that a workbench leads was sent by that workbench: until it tells *)
(* a peer to commit or to abort, the peer can only have been asked to prepare, *)
(* and a peer that answered "ready" stays prepared.                            *)

Busy(w) == driver[w].phase # "idle"
Drawn == used \cup {NoOperation}

OperationInv ==
    /\ \A w \in Workbench : Busy(w) => driver[w].op \in used
    /\ \A v, w \in Workbench : Busy(v) /\ Busy(w) /\ driver[v].op = driver[w].op => v = w

\* A slot holds one command at a time, for the workbench whose slot it is.
MailInv ==
    /\ \A t \in Workbench : \A cmd \in pending[t] :
        cmd.to = t /\ cmd.op \in Drawn /\ \A other \in pending[t] : other = cmd
    /\ \A t \in Workbench : task[t] # NoTask => task[t].cmd.to = t /\ task[t].cmd.op \in Drawn
    /\ \A k \in acks : k.cmd.op \in Drawn

AcksStep(w) ==
    \A k \in acks' : \/ k \in acks
                     \/ /\ AckWrite(w) /\ task[w] # NoTask
                        /\ k.cmd = task[w].cmd /\ k.outcome = task[w].outcome

LEMMA AcksFrom ==
    ASSUME TypeOK, NEW w \in Workbench,
           Begin(w) \/ DriverStep(w) \/ ParticipantStep(w) \/ AckFails(w) \/ RecoverExpired(w)
           \/ Environment(w)
    PROVE  AcksStep(w)
<1>1. CASE acks' \subseteq acks
    BY <1>1 DEF AcksStep
<1>2. CASE AckWrite(w)
    BY <1>2 DEF AckWrite, AcksStep
<1>3. LiveAcks \subseteq acks
    BY DEF LiveAcks
<1> QED
    BY <1>1, <1>2, <1>3
    DEF Begin, DriverStep, FlushLocal, RequestPrepare, IssueNext, IssueDone, IssueRefused,
        PrepareAnswered, TimedOut, RequestCommit, CommitAnswered, Leave, RequestAbort, AbortAnswered,
        ParticipantStep, AckFails, RecoverExpired, Environment, Poll, Flushed, AckCheck,
        IssueInstance, Heartbeat, Transport, Edit, Launch, Crash, Cleaned, disk

\* The batch of an initiator, by its phase.
BatchAt(d) ==
    /\ d.phase \in {"issuing", "awaiting"} => d.peers \subseteq d.sent \cup d.todo
    /\ d.phase = "awaiting" => d.todo = {}
    /\ d.phase \in {"stopping", "requesting", "prepared"} => d.verb = "prepareGlobal"

BatchInv == \A w \in Workbench : BatchAt(driver[w])

\* Until d sends the commit, or the abort, to t.
UntoldBy(d, t) ==
    /\ d.phase # "idle"
    /\ \/ d.verb = "prepareGlobal"
       \/ d.verb = "commitGlobal" /\ d.phase = "issuing" /\ t \in d.todo

\* The peers that are to be found prepared.
PromisedBy(d, t) ==
    \/ d.phase = "prepared" /\ t \in d.peers
    \/ d.verb = "commitGlobal" /\ d.phase = "issuing" /\ t \in d.todo

\* All the peers have answered "ready".
AllReady(w) ==
    driver[w].phase = "awaiting" /\ driver[w].verb = "prepareGlobal"
    /\ AllAnswered(w) /\ Unanimous(w, "ready")

\* What a step may do to the operation that w leads, and still leads after it.
GoesOn(w) ==
    /\ Busy(w) /\ driver'[w].op = driver[w].op /\ BatchAt(driver'[w])
    /\ \A t \in Workbench :
        /\ UntoldBy(driver'[w], t) =>
            /\ UntoldBy(driver[w], t)
            /\ \/ pending'[t] \subseteq pending[t]
               \/ pending'[t] = {Cmd(driver[w].op, "prepareGlobal", t)}
        /\ PromisedBy(driver'[w], t) =>
            PromisedBy(driver[w], t) \/ (t \in driver[w].peers /\ AllReady(w))

LEMMA DriverGoesOn ==
    ASSUME TypeOK, BatchInv, NEW w \in Workbench, DriverStep(w), Busy(w)'
    PROVE  GoesOn(w)
<1> DEFINE d == driver[w]
           e == driver'[w]
<1>0. d \in Driver /\ driver \in [Workbench -> Driver] /\ BatchAt(d) /\ e.phase # "idle"
    BY DEF TypeOK, BatchInv, Busy
<1>1. \A x : Drive(w, x) => e = x
    BY <1>0 DEF Drive
<1>2. Busy(w)
    BY DEF DriverStep, FlushLocal, RequestPrepare, IssueNext, IssueDone, IssueRefused,
        PrepareAnswered, TimedOut, RequestCommit, CommitAnswered, Leave, RequestAbort, AbortAnswered,
        Busy
<1>3. ~GiveUp(w) /\ ~Ends(w) /\ ~Drive(w, Idle)
    BY <1>0, <1>1 DEF GiveUp, Ends, Idle
<1>4. pending' \in {pending, LiveMail} => \A t \in Workbench : pending'[t] \subseteq pending[t]
    BY LiveMailSlots
<1>6. ASSUME NEW p \in {"requesting", "awaiting", "aborting", "leaving"},
             Drive(w, [d EXCEPT !.phase = p]), pending' \in {pending, LiveMail},
             p = "requesting" => d.phase = "stopping",
             p = "awaiting" => d.phase = "issuing" /\ d.todo = {}
      PROVE  GoesOn(w)
    <2>1. /\ e.phase = p /\ e.op = d.op /\ e.verb = d.verb
          /\ e.peers = d.peers /\ e.todo = d.todo /\ e.sent = d.sent
        <3>1. e = [d EXCEPT !.phase = p]
            BY <1>1, <1>6
        <3> QED
            BY <1>0, <3>1 DEF Driver
    <2>2. BatchAt(e)
        BY <1>0, <1>6, <2>1 DEF BatchAt
    <2>3. \A t \in Workbench : /\ UntoldBy(e, t) => UntoldBy(d, t)
                              /\ ~PromisedBy(e, t)
        BY <1>2, <1>6, <2>1 DEF UntoldBy, PromisedBy, Busy
    <2> QED
        BY <1>2, <1>4, <1>6, <2>1, <2>2, <2>3 DEF GoesOn
<1>7. CASE FlushLocal(w)
    BY <1>3, <1>6, <1>7 DEF FlushLocal, disk
<1>8. CASE IssueDone(w) \/ TimedOut(w)
    BY <1>6, <1>8 DEF IssueDone, TimedOut, disk
<1>9. CASE IssueRefused(w)
    BY <1>3, <1>6, <1>9 DEF IssueRefused
<1>10. CASE CommitAnswered(w)
    BY <1>6, <1>10 DEF CommitAnswered
<1>11. CASE RequestPrepare(w)
    <2> DEFINE x == [d EXCEPT !.phase = "issuing", !.verb = "prepareGlobal",
                              !.peers = Targets(w), !.todo = Targets(w)]
    <2>1. CASE Drive(w, [d EXCEPT !.phase = "aborting"])
        BY <1>3, <1>6, <1>11, <2>1 DEF RequestPrepare, Cleaned
    <2>2. CASE Drive(w, x) /\ pending' = LiveMail
        <3>1. e = x
            BY <1>1, <2>2
        <3>2. /\ x.phase = "issuing" /\ x.op = d.op /\ x.verb = "prepareGlobal"
              /\ x.peers = x.todo
            BY <1>0 DEF Driver
        <3>3. d.verb = "prepareGlobal"
            BY <1>0, <1>11 DEF RequestPrepare, BatchAt
        <3> HIDE DEF x
        <3> QED
            BY <1>2, <1>4, <2>2, <3>1, <3>2, <3>3 DEF GoesOn, BatchAt, UntoldBy, PromisedBy, Busy
    <2> QED
        BY <1>3, <1>11, <2>1, <2>2 DEF RequestPrepare, Cleaned
<1>12. CASE IssueNext(w)
    <2>1. PICK s \in d.todo :
            /\ pending' = [pending EXCEPT ![s] = {Cmd(d.op, d.verb, s)}]
            /\ Drive(w, [d EXCEPT !.todo = @ \ {s}, !.sent = @ \cup {s}])
        BY <1>12 DEF IssueNext
    <2> DEFINE x == [d EXCEPT !.todo = @ \ {s}, !.sent = @ \cup {s}]
    <2>2. /\ x.phase = d.phase /\ x.op = d.op /\ x.verb = d.verb /\ x.peers = d.peers
          /\ x.todo = d.todo \ {s} /\ x.sent = d.sent \cup {s}
        BY <1>0 DEF Driver
    <2>3. e = x /\ d.phase = "issuing" /\ s \in Workbench
        BY <1>0, <1>1, <1>12, <2>1 DEF IssueNext, Driver
    <2> HIDE DEF x
    <2>4. BatchAt(e)
        BY <1>0, <2>2, <2>3 DEF BatchAt
    <2>5. \A t \in Workbench : pending'[t] = IF t = s THEN {Cmd(d.op, d.verb, s)} ELSE pending[t]
        BY <2>1 DEF TypeOK
    <2>6. ASSUME NEW t \in Workbench, UntoldBy(e, t)
          PROVE  UntoldBy(d, t) /\ (t = s => d.verb = "prepareGlobal")
        BY <2>2, <2>3, <2>6 DEF UntoldBy
    <2>7. ASSUME NEW t \in Workbench, PromisedBy(e, t) PROVE PromisedBy(d, t)
        BY <2>2, <2>3, <2>7 DEF PromisedBy
    <2> QED
        BY <1>2, <2>2, <2>3, <2>4, <2>5, <2>6, <2>7 DEF GoesOn
<1>13. CASE PrepareAnswered(w)
    <2> DEFINE p == IF Unanimous(w, "ready") THEN "prepared" ELSE "aborting"
               x == [d EXCEPT !.sent = {}, !.phase = p]
    <2>1. e = x /\ pending' = pending /\ d.phase = "awaiting" /\ d.verb = "prepareGlobal" /\ AllAnswered(w)
        BY <1>1, <1>13 DEF PrepareAnswered
    <2>2. p \in {"prepared", "aborting"} /\ (p = "prepared" => Unanimous(w, "ready"))
        OBVIOUS
    <2> HIDE DEF p
    <2>3. x.phase = p /\ x.op = d.op /\ x.verb = d.verb /\ x.peers = d.peers
        BY <1>0 DEF Driver
    <2> HIDE DEF x
    <2> QED
        BY <1>2, <2>1, <2>2, <2>3 DEF GoesOn, BatchAt, UntoldBy, PromisedBy, AllReady, Busy
<1>14. CASE RequestCommit(w)
    <2> DEFINE x == [d EXCEPT !.phase = "issuing", !.verb = "commitGlobal",
                              !.todo = d.peers, !.sent = {}]
    <2>1. CASE Drive(w, x) /\ pending' = LiveMail
        <3>1. /\ x.phase = "issuing" /\ x.op = d.op /\ x.verb = "commitGlobal" /\ x.peers = d.peers
              /\ x.todo = d.peers
            BY <1>0 DEF Driver
        <3>2. e = x /\ d.phase = "prepared" /\ d.verb = "prepareGlobal"
            BY <1>0, <1>1, <1>14, <2>1 DEF RequestCommit, BatchAt
        <3> HIDE DEF x
        <3> QED
            BY <1>2, <1>4, <2>1, <3>1, <3>2 DEF GoesOn, BatchAt, UntoldBy, PromisedBy, Busy
    <2>2. CASE Drive(w, [d EXCEPT !.phase = "aborting"]) /\ pending' \in {pending, LiveMail}
        BY <1>6, <2>2
    <2> QED
        BY <1>14, <2>1, <2>2 DEF RequestCommit, Cleaned
<1>15. CASE RequestAbort(w)
    <2> DEFINE x == [d EXCEPT !.phase = "issuing", !.verb = "abortGlobal",
                              !.todo = d.peers, !.sent = {}]
    <2>1. e = x
        BY <1>1, <1>3, <1>15 DEF RequestAbort
    <2>2. /\ x.phase = "issuing" /\ x.op = d.op /\ x.verb = "abortGlobal" /\ x.peers = d.peers
          /\ x.todo = d.peers
        BY <1>0 DEF Driver
    <2> HIDE DEF x
    <2> QED
        BY <1>2, <2>1, <2>2 DEF GoesOn, BatchAt, UntoldBy, PromisedBy
<1> QED
    BY <1>3, <1>7, <1>8, <1>9, <1>10, <1>11, <1>12, <1>13, <1>14, <1>15
    DEF DriverStep, Leave, AbortAnswered

\* What a workbench writes into a slot outside its operation belongs to none.
LEMMA OwnSlots ==
    ASSUME TypeOK, NEW w \in Workbench,
           Begin(w) \/ ParticipantStep(w) \/ AckFails(w) \/ RecoverExpired(w) \/ Environment(w),
           NEW t \in Workbench, NEW cmd \in pending'[t], cmd \notin pending[t]
    PROVE  cmd.op = NoOperation /\ cmd.action \in TrayAction
<1>1. LiveMail[t] \subseteq pending[t]
    BY LiveMailSlots
<1>2. AckWrite(w) => pending'[t] \subseteq pending[t]
    BY DEF AckWrite, Emptied, TypeOK
<1>3. CASE IssueInstance(w)
    <2>1. PICK s \in Targets(w), action \in TrayAction :
            pending' = [LiveMail EXCEPT ![s] = {Cmd(NoOperation, action, s)}]
        BY <1>3 DEF IssueInstance
    <2>2. pending'[t] \in {LiveMail[t], {Cmd(NoOperation, action, t)}}
        BY <2>1 DEF LiveMail
    <2> QED
        BY <1>1, <2>2 DEF Cmd
<1> QED
    BY <1>1, <1>2, <1>3
    DEF Begin, ParticipantStep, AckFails, RecoverExpired, Environment, Poll, Flushed, AckCheck,
        Heartbeat, Transport, Edit, Launch, Crash, local, disk

\* Outside DriverStep an operation only begins or ends with its process.
LEMMA OtherDriver ==
    ASSUME TypeOK, NEW w \in Workbench,
           ParticipantStep(w) \/ AckFails(w) \/ RecoverExpired(w) \/ Environment(w)
    PROVE  (driver'[w] = driver[w] \/ driver'[w].phase = "idle") /\ used' = used
<1>1. Ends(w) => driver'[w].phase = "idle"
    BY DEF Ends, TypeOK, Idle
<1> QED
    BY <1>1 DEF ParticipantStep, Poll, Flushed, AckCheck, AckWrite, AckFails, RecoverExpired,
        Environment, IssueInstance, Heartbeat, Transport, Edit, Launch, Crash, local, ghost

LEMMA BeginDriver ==
    ASSUME TypeOK, NEW w \in Workbench, Begin(w)
    PROVE  /\ driver'[w].op \in Operation \ used /\ used' = used \cup {driver'[w].op}
           /\ BatchAt(driver'[w]) /\ driver'[w].phase = "stopping"
           /\ UNCHANGED <<status, prepared, task, pending, acks>>
<1>1. PICK op \in Operation \ used :
        /\ used' = used \cup {op}
        /\ Drive(w, [Idle EXCEPT !.phase = "stopping", !.op = op, !.wasRunning = capture[w]])
    BY DEF Begin
<1>2. driver'[w] = [Idle EXCEPT !.phase = "stopping", !.op = op, !.wasRunning = capture[w]]
    BY <1>1 DEF TypeOK, Drive
<1>3. driver'[w].op = op /\ driver'[w].phase = "stopping" /\ driver'[w].verb = "prepareGlobal"
    BY <1>2 DEF Idle
<1> QED
    BY <1>1, <1>3 DEF BatchAt, Begin, disk

LEMMA DriverUsed ==
    ASSUME NEW w \in Workbench, DriverStep(w)
    PROVE  used' = used
    BY DEF DriverStep, FlushLocal, RequestPrepare, IssueNext, IssueDone, IssueRefused,
        PrepareAnswered, TimedOut, RequestCommit, CommitAnswered, Leave, RequestAbort, AbortAnswered,
        ghost

\* The three together: what is drawn, what is on its way, what is being issued.
TrafficInv == OperationInv /\ MailInv /\ BatchInv

LEMMA TrafficInductive == Spec => []TrafficInv
<1>1. Init => TrafficInv
    <2>1. Idle.phase = "idle"
        BY DEF Idle
    <2> QED
        BY <2>1 DEF Init, TrafficInv, OperationInv, MailInv, BatchInv, BatchAt, Busy
<1>2. ASSUME TypeOK, TrafficInv, NEW w \in Workbench,
             Begin(w) \/ DriverStep(w) \/ ParticipantStep(w) \/ AckFails(w) \/ RecoverExpired(w)
             \/ Environment(w)
      PROVE  TrafficInv'
    <2> USE DEF TrafficInv
    <2>0. OthersStay(w) /\ SlotStep(w) /\ TaskStep(w) /\ AcksStep(w)
        BY <1>2, StepOfOne, TaskFrom, AcksFrom
    <2>1. \/ driver'[w].phase = "idle" /\ used' = used
          \/ /\ Busy(w) /\ Busy(w)' /\ driver'[w].op = driver[w].op /\ used' = used
             /\ BatchAt(driver'[w])
          \/ /\ driver'[w].op \in Operation \ used /\ used' = used \cup {driver'[w].op}
             /\ BatchAt(driver'[w])
        BY <1>2, DriverGoesOn, BeginDriver, OtherDriver, DriverUsed DEF GoesOn, Busy, BatchInv
    <2>2. OperationInv'
        BY <1>2, <2>0, <2>1 DEF OperationInv, OthersStay, Busy
    <2>3. BatchInv'
        <3>1. BatchAt(driver'[w])
            BY <2>1 DEF BatchAt
        <3> QED
            BY <1>2, <2>0, <3>1 DEF BatchInv, OthersStay
    <2>4. used \subseteq used' /\ (Busy(w) => driver[w].op \in used)
        BY <1>2, <2>1 DEF OperationInv
    <2>5. ASSUME NEW t \in Workbench, NEW cmd \in pending'[t]
          PROVE  cmd.to = t /\ cmd.op \in Drawn' /\ \A other \in pending'[t] : other = cmd
        <3>1. CASE pending'[t] \subseteq pending[t]
            BY <1>2, <2>4, <2>5, <3>1 DEF MailInv, Drawn
        <3>2. ASSUME NEW op \in Drawn', NEW action, pending'[t] = {Cmd(op, action, t)}
              PROVE  cmd.to = t /\ cmd.op \in Drawn' /\ \A other \in pending'[t] : other = cmd
            BY <2>5, <3>2 DEF Cmd
        <3>3. NoOperation \in Drawn' /\ (Busy(w) => driver[w].op \in Drawn')
            BY <2>4 DEF Drawn
        <3> QED
            BY <2>0, <3>1, <3>2, <3>3 DEF SlotStep, Busy
    <2>6. ASSUME NEW t \in Workbench, task'[t] # NoTask
          PROVE  task'[t].cmd.to = t /\ task'[t].cmd.op \in Drawn'
        <3>1. task'[t] = task[t] \/ t = w
            BY <2>0 DEF OthersStay
        <3> QED
            BY <1>2, <2>0, <2>4, <2>6, <3>1 DEF MailInv, Drawn, TaskStep
    <2>7. \A k \in acks' : k.cmd.op \in Drawn'
        BY <1>2, <2>0, <2>4 DEF MailInv, Drawn, AcksStep
    <2>8. MailInv'
        BY <2>5, <2>6, <2>7 DEF MailInv
    <2> QED
        BY <2>2, <2>3, <2>8
<1>3. TrafficInv /\ UNCHANGED vars => TrafficInv'
    BY DEF TrafficInv, OperationInv, MailInv, BatchInv, Busy, Drawn, vars, local, disk, ghost
<1>4. TypeOK /\ TrafficInv /\ [Next]_vars => TrafficInv'
    BY <1>2, <1>3 DEF Next
<1> QED
    BY <1>1, <1>4, TypeCorrect, PTL DEF Spec

\* What a workbench t may hold of an operation as long as it is asked for nothing but the
\* preparation: no word of it is "ready" unless the preparation is there.
Clean(t, op) ==
    /\ \A cmd \in pending[t] : cmd.op = op => cmd.action = "prepareGlobal"
    /\ task[t] # NoTask /\ task[t].cmd.op = op =>
        /\ task[t].cmd.action = "prepareGlobal"
        /\ task[t].step # "stopping" /\ task[t].outcome = "ready" => PreparedFor(t, op) # {}
    /\ \A k \in acks : status[t] # "closed" /\ k.cmd.op = op /\ k.cmd.to = t /\ k.outcome = "ready" =>
        PreparedFor(t, op) # {}

\* The steps of t itself keep a preparation that has not run out and that no command concerns.
LEMMA PollKeepsClean ==
    ASSUME TypeOK, NEW t \in Workbench, NEW op \in Operation, Clean(t, op), Poll(t)
    PROVE  /\ PreparedFor(t, op)' = PreparedFor(t, op)
           /\ task'[t] # NoTask /\ task'[t].cmd.op = op =>
                /\ task'[t].cmd.action = "prepareGlobal"
                /\ task'[t].step # "stopping" /\ task'[t].outcome = "ready" =>
                    PreparedFor(t, op) # {}
<1>1. PICK cmd \in pending[t] :
        \/ cmd.action = "prepareGlobal" /\ HandlePrepare(t, cmd)
        \/ cmd.action = "abortGlobal" /\ HandleAbort(t, cmd)
        \/ cmd.action = "commitGlobal" /\ HandleCommit(t, cmd)
        \/ cmd.action = "quitInstance" /\ HandleQuit(t, cmd)
        \/ cmd.action \in {"show", "applyPreset"} /\ HandleTray(t, cmd)
    BY DEF Poll
<1>2. \A running, outcome : Answer(t, cmd, running, outcome) =>
        task'[t].cmd = cmd /\ task'[t].outcome = outcome
    BY DEF Answer, TypeOK
<1>3. StopAndFlush(t, cmd) => task'[t].cmd = cmd /\ task'[t].step = "stopping"
    BY DEF StopAndFlush, TypeOK
<1>4. CASE cmd.op = op
    <2>1. HandlePrepare(t, cmd) /\ cmd.action = "prepareGlobal"
        BY <1>1, <1>4 DEF Clean
    <2>2. PreparedFor(t, op)' = PreparedFor(t, op)
        BY <2>1 DEF HandlePrepare, PreparedFor
    <2>3. CASE Answer(t, cmd, FALSE, "ready") /\ PreparedFor(t, op) # {}
        BY <1>2, <2>1, <2>2, <2>3
    <2>4. CASE Answer(t, cmd, FALSE, "blocked")
        <3>1. task'[t].cmd = cmd /\ task'[t].outcome = "blocked"
            BY <1>2, <2>4
        <3> QED
            BY <2>1, <2>2, <3>1
    <2>5. CASE StopAndFlush(t, cmd)
        BY <1>3, <2>1, <2>2, <2>5
    <2> QED
        BY <1>4, <2>1, <2>3, <2>4, <2>5 DEF HandlePrepare
<1>5. CASE cmd.op # op
    <2>1. prepared' \in {prepared, Forget(t, cmd.op)}
        BY <1>1 DEF HandlePrepare, HandleAbort, HandleCommit, HandleQuit, HandleTray
    <2>2. PreparedFor(t, op)' = PreparedFor(t, op)
        BY <1>5, <2>1 DEF TypeOK, Forget, PreparedFor
    <2>3. task'[t].cmd = cmd
        BY <1>1, <1>2, <1>3 DEF HandlePrepare, HandleAbort, HandleCommit, HandleQuit, HandleTray
    <2> QED
        BY <1>5, <2>2, <2>3
<1> QED
    BY <1>4, <1>5

LEMMA FlushedKeepsClean ==
    ASSUME TypeOK, NEW t \in Workbench, NEW op \in Operation, Clean(t, op), Flushed(t)
    PROVE  /\ PreparedFor(t, op) # {} => PreparedFor(t, op)' # {}
           /\ task'[t] # NoTask /\ task'[t].cmd.op = op =>
                /\ task'[t].cmd.action = "prepareGlobal"
                /\ task'[t].outcome = "ready" => PreparedFor(t, op)' # {}
<1> DEFINE x == task[t]
           lease == [op |-> x.cmd.op, wasRunning |-> x.wasRunning]
<1>1. \A running, outcome : Answer(t, x.cmd, running, outcome) =>
        task'[t].cmd = x.cmd /\ task'[t].outcome = outcome
    BY DEF Answer, TypeOK
<1>2. \/ /\ task'[t].cmd = x.cmd /\ task'[t].outcome = "ready"
         /\ prepared' = [prepared EXCEPT ![t] = @ \cup {lease}]
      \/ task'[t].cmd = x.cmd /\ task'[t].outcome # "ready" /\ prepared' = prepared
    BY <1>1 DEF Flushed
<1>3. x # NoTask
    BY DEF Flushed
<1>4. \/ task'[t].outcome = "ready" /\ prepared'[t] = prepared[t] \cup {lease}
      \/ task'[t].outcome # "ready" /\ prepared'[t] = prepared[t]
    BY <1>2 DEF TypeOK
<1>5. lease.op = x.cmd.op
    OBVIOUS
<1> HIDE DEF lease
<1>6. PreparedFor(t, op) # {} => PreparedFor(t, op)' # {}
    BY <1>4 DEF PreparedFor
<1>7. x.cmd.op = op /\ task'[t].outcome = "ready" => PreparedFor(t, op)' # {}
    BY <1>4, <1>5 DEF PreparedFor
<1> QED
    BY <1>2, <1>3, <1>6, <1>7 DEF Clean

LEMMA CleanStep ==
    ASSUME TypeOK, MailInv, NEW w \in Workbench, NEW t \in Workbench, NEW op \in Operation,
           Clean(t, op), OthersStay(w), AcksStep(w),
           Begin(w) \/ DriverStep(w) \/ ParticipantStep(w) \/ AckFails(w) \/ RecoverExpired(w)
           \/ Environment(w),
           \A cmd \in pending'[t] : cmd \in pending[t] \/ cmd.op # op \/ cmd.action = "prepareGlobal",
           Prompt, \E v \in Workbench : driver[v].op = op
    PROVE  /\ Clean(t, op)'
           /\ PreparedFor(t, op) # {} /\ status'[t] # "closed" => PreparedFor(t, op)' # {}
<1>1. \A cmd \in pending'[t] : cmd.op = op => cmd.action = "prepareGlobal"
    BY DEF Clean
<1>2. ASSUME status'[t] # "closed" =>
                status[t] # "closed" /\ (PreparedFor(t, op) # {} => PreparedFor(t, op)' # {}),
             task'[t] # NoTask /\ task'[t].cmd.op = op =>
                /\ task'[t].cmd.action = "prepareGlobal"
                /\ task'[t].step # "stopping" /\ task'[t].outcome = "ready" => PreparedFor(t, op)' # {}
      PROVE  /\ Clean(t, op)'
             /\ PreparedFor(t, op) # {} /\ status'[t] # "closed" => PreparedFor(t, op)' # {}
    <2>1. ASSUME NEW k \in acks', status'[t] # "closed", k.cmd.op = op, k.cmd.to = t, k.outcome = "ready"
          PROVE  PreparedFor(t, op)' # {}
        <3>1. CASE k \in acks
            BY <1>2, <2>1, <3>1 DEF Clean
        <3>2. CASE AckWrite(w) /\ task[w] # NoTask /\ k.cmd = task[w].cmd /\ k.outcome = task[w].outcome
            <4>1. w = t
                BY <2>1, <3>2 DEF MailInv
            <4>2. PreparedFor(t, op) # {}
                BY <2>1, <3>2, <4>1 DEF Clean, AckWrite
            <4> QED
                BY <1>2, <2>1, <4>2
        <3> QED
            BY <3>1, <3>2 DEF AcksStep
    <2> QED
        BY <1>1, <1>2, <2>1 DEF Clean
<1>3. CASE prepared'[t] = prepared[t] /\ (task'[t] = task[t] \/ task'[t] = NoTask)
           /\ (status[t] = "closed" => status'[t] = "closed")
    <2>1. PreparedFor(t, op)' = PreparedFor(t, op)
        BY <1>3 DEF PreparedFor
    <2> QED
        BY <1>2, <1>3, <2>1 DEF Clean
<1>4. CASE status'[t] = "closed" /\ task'[t] = NoTask
    BY <1>2, <1>4
<1>5. CASE t # w
    BY <1>3, <1>5 DEF OthersStay
<1>6. CASE t = w
    <2>1. Ends(w) => status'[t] = "closed" /\ task'[t] = NoTask
        BY <1>6 DEF Ends, TypeOK
    <2>2. CASE Begin(w)
        BY <1>3, <1>6, <2>2, BeginDriver
    <2>3. CASE DriverStep(w)
        BY <1>3, <1>4, <1>6, <2>1, <2>3
        DEF DriverStep, FlushLocal, RequestPrepare, IssueNext, IssueDone, IssueRefused,
            PrepareAnswered, TimedOut, RequestCommit, CommitAnswered, Leave, RequestAbort,
            AbortAnswered
    <2>4. CASE Poll(w)
        <3>1. status'[t] = status[t]
            BY <2>4 DEF Poll
        <3> QED
            BY <1>2, <1>6, <2>4, <3>1, PollKeepsClean
    <2>5. CASE Flushed(w)
        <3>1. status'[t] = status[t]
            BY <2>5 DEF Flushed
        <3> QED
            BY <1>2, <1>6, <2>5, <3>1, FlushedKeepsClean
    <2>6. CASE AckCheck(w) \/ AckFails(w)
        <3>1. status' = status /\ prepared' = prepared /\ task[w] \in Task /\ task[w].step = "acking"
            BY <2>6 DEF AckCheck, AckFails, TypeOK
        <3>2. task'[w] # NoTask => /\ task'[w].cmd = task[w].cmd
                                  /\ task'[w].outcome \in {task[w].outcome, "failed"}
            BY <2>6, <3>1 DEF AckCheck, AckFails, TypeOK, Task
        <3>3. PreparedFor(t, op)' = PreparedFor(t, op)
            BY <3>1 DEF PreparedFor
        <3>4. task[w] # NoTask
            BY <2>6 DEF AckCheck, AckFails
        <3> QED
            BY <1>2, <1>6, <3>1, <3>2, <3>3, <3>4 DEF Clean
    <2>7. CASE AckWrite(w)
        <3>1. CASE Exits(task[w])
            BY <1>4, <2>1, <2>7, <3>1 DEF AckWrite
        <3>2. CASE ~Exits(task[w])
            <4>1. task'[t] = NoTask /\ prepared' = prepared /\ status' = status
                BY <1>6, <2>7, <3>2 DEF AckWrite, TypeOK
            <4> QED
                BY <1>3, <4>1
        <3> QED
            BY <3>1, <3>2
    <2>8. CASE RecoverExpired(w)
        <3>1. PICK l \in prepared[w] :
                MayExpire(w, l) /\ prepared' = [prepared EXCEPT ![w] = @ \ {l}]
            BY <2>8 DEF RecoverExpired
        <3>2. l.op # op
            BY <3>1 DEF MayExpire
        <3>3. prepared'[w] = prepared[w] \ {l}
            BY <3>1 DEF TypeOK
        <3>4. PreparedFor(t, op)' = PreparedFor(t, op)
            BY <1>6, <3>2, <3>3 DEF PreparedFor
        <3>5. status' = status /\ task' = task
            BY <2>8 DEF RecoverExpired
        <3> QED
            BY <1>2, <3>4, <3>5 DEF Clean
    <2>9. CASE Environment(w)
        <3>1. CASE Crash(w)
            BY <1>4, <2>1, <3>1 DEF Crash
        <3>2. CASE Launch(w)
            BY <1>3, <1>6, <3>2 DEF Launch, local
        <3> QED
            BY <1>3, <2>9, <3>1, <3>2
            DEF Environment, IssueInstance, Heartbeat, Transport, Edit, local
    <2> QED
        BY <2>2, <2>3, <2>4, <2>5, <2>6, <2>7, <2>8, <2>9 DEF ParticipantStep
<1> QED
    BY <1>5, <1>6

UntoldInv ==
    \A w, t \in Workbench : UntoldBy(driver[w], t) =>
        /\ Clean(t, driver[w].op)
        /\ PromisedBy(driver[w], t) /\ status[t] # "closed" => PreparedFor(t, driver[w].op) # {}

\* Nothing is on its way for an operation id that has not been drawn.
LEMMA FreshIsClean ==
    ASSUME MailInv, NEW t \in Workbench, NEW op \in Operation \ used
    PROVE  Clean(t, op)
<1>1. op \notin Drawn
    BY CoordinationAssumption DEF Drawn
<1> QED
    BY <1>1 DEF MailInv, Clean

\* What the workbenches write concerns their own operations.
LEMMA ForeignSlots ==
    ASSUME TypeOK, OperationInv, NEW v \in Workbench, NEW w \in Workbench, v # w, SlotStep(v),
           Busy(w), NEW t \in Workbench, NEW cmd \in pending'[t], cmd \notin pending[t]
    PROVE  cmd.op # driver[w].op
<1>1. driver[w].op # NoOperation
    BY CoordinationAssumption DEF TypeOK, Driver, Busy
<1>2. Busy(v) => driver[v].op # driver[w].op
    BY DEF OperationInv
<1>3. \A op, action : Cmd(op, action, t).op = op
    BY DEF Cmd
<1> QED
    BY <1>1, <1>2, <1>3 DEF SlotStep, Busy

LEMMA ClosedStays ==
    ASSUME TypeOK, NEW w \in Workbench, OthersStay(w), NEW t \in Workbench, status[t] = "closed",
           Begin(w) \/ DriverStep(w) \/ ParticipantStep(w) \/ AckFails(w) \/ RecoverExpired(w)
           \/ Environment(w)
    PROVE  status'[t] = "closed"
<1>1. ~Open(t) /\ status[t] # "unborn"
    BY DEF Open
<1>2. t = w => Environment(w)
    BY <1>1 DEF Begin, DriverStep, FlushLocal, RequestPrepare, IssueNext, IssueDone, IssueRefused,
        PrepareAnswered, TimedOut, RequestCommit, CommitAnswered, Leave, RequestAbort,
        AbortAnswered, ParticipantStep, Poll, Flushed, AckCheck, AckWrite, AckFails, RecoverExpired
<1>3. t = w => FALSE
    BY <1>1, <1>2 DEF Environment, IssueInstance, Heartbeat, Transport, Edit, Launch, Crash
<1> QED
    BY <1>3 DEF OthersStay

\* Everybody that a batch was issued to has answered it, so the answer of each is known.
LEMMA AnswersPrepared ==
    ASSUME TypeOK, MailInv, BatchInv, NEW w \in Workbench, AllReady(w),
           NEW t \in driver[w].peers, status[t] # "closed", Clean(t, driver[w].op)
    PROVE  PreparedFor(t, driver[w].op) # {}
<1>1. t \in driver[w].sent
    BY DEF BatchInv, BatchAt, AllReady
<1>2. PICK k \in Answers(w) : k.cmd.to = t
    BY <1>1 DEF AllReady, AllAnswered
<1>3. k \in acks /\ k.outcome = "ready"
    BY <1>2 DEF AllReady, Unanimous, Answers
<1>4. k.cmd.op = driver[w].op
    BY <1>2 DEF Answers, Cmd
<1> QED
    BY <1>2, <1>3, <1>4 DEF Clean

LEMMA UntoldInductive ==
    ASSUME Prompt PROVE Spec => []UntoldInv
<1>1. Init => UntoldInv
    <2>1. Idle.phase = "idle"
        BY DEF Idle
    <2> QED
        BY <2>1 DEF Init, UntoldInv, UntoldBy
<1>2. ASSUME TypeOK, TypeOK', TrafficInv, UntoldInv, NEW u \in Workbench,
             Begin(u) \/ DriverStep(u) \/ ParticipantStep(u) \/ AckFails(u) \/ RecoverExpired(u)
             \/ Environment(u)
      PROVE  UntoldInv'
    <2>0. OthersStay(u) /\ SlotStep(u) /\ AcksStep(u) /\ MailInv /\ OperationInv /\ BatchInv
        BY <1>2, StepOfOne, AcksFrom DEF TrafficInv
    <2> SUFFICES ASSUME NEW w \in Workbench, NEW t \in Workbench, UntoldBy(driver'[w], t),
                        NEW op \in Operation, op = driver'[w].op
                 PROVE  /\ Clean(t, op)'
                        /\ PromisedBy(driver'[w], t) /\ status'[t] # "closed" =>
                            PreparedFor(t, op)' # {}
        <3>1. ASSUME NEW w \in Workbench, NEW t \in Workbench, UntoldBy(driver'[w], t)
              PROVE  driver'[w].op \in Operation
            BY <1>2, <3>1 DEF TypeOK, Driver, UntoldBy
        <3> QED
            BY <3>1 DEF UntoldInv
    <2>1. ASSUME driver[w].op = op, UntoldBy(driver[w], t),
                 PromisedBy(driver'[w], t) =>
                    PromisedBy(driver[w], t) \/ (t \in driver[w].peers /\ AllReady(w)),
                 \A cmd \in pending'[t] :
                    cmd \in pending[t] \/ cmd.op # op \/ cmd.action = "prepareGlobal"
          PROVE  /\ Clean(t, op)'
                 /\ PromisedBy(driver'[w], t) /\ status'[t] # "closed" => PreparedFor(t, op)' # {}
        <3>1. Clean(t, op) /\ (PromisedBy(driver[w], t) /\ status[t] # "closed" =>
                                PreparedFor(t, op) # {})
            BY <1>2, <2>1 DEF UntoldInv
        <3>2. /\ Clean(t, op)'
              /\ PreparedFor(t, op) # {} /\ status'[t] # "closed" => PreparedFor(t, op)' # {}
            BY <1>2, <2>0, <2>1, <3>1, CleanStep
        <3>3. status'[t] # "closed" => status[t] # "closed"
            BY <1>2, <2>0, ClosedStays
        <3>4. PromisedBy(driver'[w], t) /\ status[t] # "closed" => PreparedFor(t, op) # {}
            BY <1>2, <2>0, <2>1, <3>1, AnswersPrepared
        <3> QED
            BY <3>2, <3>3, <3>4
    <2>2. CASE w # u
        <3>1. driver'[w] = driver[w]
            BY <2>0, <2>2 DEF OthersStay
        <3>2. Busy(w)
            BY <3>1 DEF UntoldBy, Busy
        <3>3. \A cmd \in pending'[t] : cmd \in pending[t] \/ cmd.op # op
            BY <1>2, <2>0, <2>2, <3>1, <3>2, ForeignSlots
        <3> QED
            BY <2>1, <3>1, <3>3
    <2>3. CASE w = u /\ Begin(u)
        <3>1. /\ op \notin used /\ ~PromisedBy(driver'[w], t)
              /\ UNCHANGED <<status, prepared, task, pending, acks>>
            BY <1>2, <2>3, BeginDriver DEF BatchAt, PromisedBy
        <3>2. Clean(t, op)
            BY <2>0, <3>1, FreshIsClean
        <3>3. Clean(t, op)'
            BY <3>1, <3>2 DEF Clean, PreparedFor
        <3> QED
            BY <3>1, <3>3
    <2>4. CASE w = u /\ DriverStep(u)
        <3>1. GoesOn(w)
            BY <1>2, <2>0, <2>4, DriverGoesOn DEF UntoldBy, Busy
        <3>2. UntoldBy(driver[w], t) /\ driver[w].op = op
            BY <3>1 DEF GoesOn
        <3>3. \A cmd \in pending'[t] : cmd \in pending[t] \/ cmd.action = "prepareGlobal"
            BY <3>1 DEF GoesOn, Cmd
        <3>4. PromisedBy(driver'[w], t) =>
                PromisedBy(driver[w], t) \/ (t \in driver[w].peers /\ AllReady(w))
            BY <3>1 DEF GoesOn
        <3> QED
            BY <2>1, <3>2, <3>3, <3>4
    <2>5. CASE w = u /\ ~Begin(u) /\ ~DriverStep(u)
        <3>1. driver'[w] = driver[w]
            BY <1>2, <2>5, OtherDriver DEF UntoldBy
        <3>2. \A cmd \in pending'[t] : cmd \in pending[t] \/ cmd.op = NoOperation
            BY <1>2, <2>5, OwnSlots
        <3>3. op # NoOperation
            BY CoordinationAssumption
        <3> QED
            BY <2>1, <3>1, <3>2, <3>3
    <2> QED
        BY <2>2, <2>3, <2>4, <2>5
<1>3. UntoldInv /\ UNCHANGED vars => UntoldInv'
    BY DEF UntoldInv, Clean, PreparedFor, vars, local, disk
<1>4. TypeOK /\ TypeOK' /\ TrafficInv /\ UntoldInv /\ [Next]_vars => UntoldInv'
    BY <1>2, <1>3 DEF Next
<1> QED
    BY <1>1, <1>4, TypeCorrect, TrafficInductive, PTL DEF Spec

\* As long as initiators and polls are faster than the 30 s lease of a preparation
\* (coordination.js:9), an operation that prepareGlobalOperation reports as prepared finds every
\* peer that still runs prepared for it: whatever other operations begin, fail, or are left to
\* expire, whichever instance commands fill the slots and whichever processes end.
THEOREM PreparedTogether ==
    ASSUME Prompt PROVE Spec => []UnanimousReady
<1>1. TypeOK /\ BatchInv /\ UntoldInv => UnanimousReady
    <2> SUFFICES ASSUME TypeOK, BatchInv, UntoldInv, NEW w \in Workbench,
                        driver[w].phase = "prepared", NEW t \in driver[w].peers, Open(t)
                 PROVE  \E l \in prepared[t] : l.op = driver[w].op
        BY DEF UnanimousReady
    <2>1. t \in Workbench /\ driver[w].verb = "prepareGlobal"
        BY DEF TypeOK, Driver, BatchInv, BatchAt
    <2>2. PreparedFor(t, driver[w].op) # {}
        BY <2>1 DEF UntoldInv, UntoldBy, PromisedBy, Open
    <2> QED
        BY <2>2 DEF PreparedFor
<1> QED
    BY <1>1, TypeCorrect, TrafficInductive, UntoldInductive, PTL DEF TrafficInv

\* A commit in the slot of a workbench that runs finds its preparation, or is being handled.
CommitInv ==
    \A t \in Workbench : status[t] # "closed" =>
        \A cmd \in pending[t] : cmd.action = "commitGlobal" =>
            PreparedFor(t, cmd.op) # {} \/ (task[t] # NoTask /\ task[t].cmd = cmd)

LEMMA AnswerIsTask ==
    ASSUME TypeOK, NEW t \in Workbench, NEW cmd \in Command, NEW running \in BOOLEAN,
           NEW outcome \in Outcome, Answer(t, cmd, running, outcome)
    PROVE  task'[t] # NoTask
<1> DEFINE answer == [cmd |-> cmd, step |-> "acking", wasRunning |-> running, outcome |-> outcome]
<1>1. answer \in Task
    BY DEF Task
<1>2. task'[t] = answer
    BY DEF Answer, TypeOK
<1> HIDE DEF answer
<1> QED
    BY <1>1, <1>2, NoTaskAssumption

\* A task begins with the poll, and goes on when its stopping ends.
LEMMA TaskBegins ==
    ASSUME TypeOK, NEW t \in Workbench, Poll(t) \/ Flushed(t)
    PROVE  task'[t] # NoTask
<1>1. \A cmd \in Command, running \in BOOLEAN, outcome \in Outcome :
        Answer(t, cmd, running, outcome) => task'[t] # NoTask
    BY AnswerIsTask
<1>2. ASSUME NEW cmd \in Command, StopAndFlush(t, cmd) PROVE task'[t] # NoTask
    <2> DEFINE stop == [cmd |-> cmd, step |-> "stopping", wasRunning |-> capture[t],
                        outcome |-> "failed"]
    <2>1. stop \in Task
        BY DEF Task, TypeOK, Outcome
    <2>2. task'[t] = stop
        BY <1>2 DEF StopAndFlush, TypeOK
    <2> HIDE DEF stop
    <2> QED
        BY <2>1, <2>2, NoTaskAssumption
<1>3. CASE Poll(t)
    <2>1. PICK cmd \in pending[t] :
            \/ HandlePrepare(t, cmd) \/ HandleAbort(t, cmd) \/ HandleCommit(t, cmd)
            \/ HandleQuit(t, cmd) \/ HandleTray(t, cmd)
        BY <1>3 DEF Poll
    <2>2. cmd \in Command
        BY DEF TypeOK
    <2>3. \A outcome \in Outcome : Answer(t, cmd, FALSE, outcome) => task'[t] # NoTask
        BY <1>1, <2>2
    <2>4. {"ready", "completed", "blocked", "failed"} \subseteq Outcome
        BY DEF Outcome
    <2> QED
        BY <1>2, <2>1, <2>2, <2>3, <2>4
        DEF HandlePrepare, HandleAbort, HandleCommit, HandleQuit, HandleTray
<1>4. CASE Flushed(t)
    <2>1. task[t] \in Task
        BY <1>4 DEF Flushed, TypeOK
    <2>2. task[t].cmd \in Command /\ task[t].wasRunning \in BOOLEAN
        BY <2>1 DEF Task
    <2>3. {"ready", "completed", "failed"} \subseteq Outcome
        BY DEF Outcome
    <2>4. \E outcome \in {"ready", "completed", "failed"} :
            Answer(t, task[t].cmd, task[t].wasRunning, outcome)
        BY <1>4 DEF Flushed
    <2> QED
        BY <1>1, <2>2, <2>3, <2>4
<1> QED
    BY <1>3, <1>4

\* The command is still there after a step of t.
LEMMA CommitWaits ==
    ASSUME TypeOK, MailInv, Prompt, Faulty = {}, NEW t \in Workbench, status'[t] # "closed",
           Begin(t) \/ DriverStep(t) \/ ParticipantStep(t) \/ AckFails(t) \/ RecoverExpired(t)
           \/ Environment(t),
           NEW cmd \in pending[t], cmd \in pending'[t],
           PreparedFor(t, cmd.op) # {} \/ (task[t] # NoTask /\ task[t].cmd = cmd)
    PROVE  PreparedFor(t, cmd.op)' # {} \/ (task'[t] # NoTask /\ task'[t].cmd = cmd)
<1>1. CASE prepared'[t] = prepared[t] /\ task'[t] = task[t]
    BY <1>1 DEF PreparedFor
<1>2. ~Ends(t)
    BY DEF Ends, TypeOK
<1>3. CASE DriverStep(t) \/ Environment(t) \/ Begin(t)
    BY <1>1, <1>2, <1>3
    DEF Begin, DriverStep, FlushLocal, RequestPrepare, IssueNext, IssueDone, IssueRefused,
        PrepareAnswered, TimedOut, RequestCommit, CommitAnswered, Leave, RequestAbort,
        AbortAnswered, Environment, IssueInstance, Heartbeat, Transport, Edit, Launch, Crash, local
<1>4. CASE Poll(t)
    <2>1. PICK other \in pending[t] : task'[t].cmd = other
        BY <1>4, PollTask
    <2>2. other = cmd
        BY <2>1 DEF MailInv
    <2>3. task'[t] # NoTask
        BY <1>4, TaskBegins
    <2> QED
        BY <2>1, <2>2, <2>3
<1>5. CASE Flushed(t)
    <2>1. PreparedFor(t, cmd.op) # {} => PreparedFor(t, cmd.op)' # {}
        BY <1>5 DEF Flushed, PreparedFor, TypeOK
    <2> QED
        BY <1>5, <2>1, TaskBegins, TaskGoesOn
<1>6. CASE AckCheck(t) \/ AckFails(t)
    <2>1. AckCheck(t) /\ prepared' = prepared
        BY <1>6 DEF AckCheck, AckFails
    <2>2. PreparedFor(t, cmd.op)' = PreparedFor(t, cmd.op)
        BY <2>1 DEF PreparedFor
    <2>3. task[t].cmd = cmd => task'[t] = [task[t] EXCEPT !.step = "writing"]
        BY <2>1 DEF AckCheck, TypeOK
    <2>4. task[t] \in Task
        BY <2>1 DEF AckCheck, TypeOK
    <2>5. task[t].cmd = cmd => task'[t] \in Task /\ task'[t].cmd = cmd
        BY <2>3, <2>4 DEF Task
    <2> QED
        BY <2>2, <2>5, NoTaskAssumption
<1>7. CASE AckWrite(t)
    <2>1. prepared' = prepared
        BY <1>2, <1>7 DEF AckWrite
    <2>2. task[t].cmd # cmd
        BY <1>7 DEF AckWrite, Emptied, TypeOK
    <2> QED
        BY <2>1, <2>2 DEF PreparedFor
<1>8. CASE RecoverExpired(t)
    <2>1. PICK l \in prepared[t] :
            MayExpire(t, l) /\ prepared' = [prepared EXCEPT ![t] = @ \ {l}]
        BY <1>8 DEF RecoverExpired
    <2>2. l.op # cmd.op
        BY <2>1 DEF MayExpire
    <2>3. prepared'[t] = prepared[t] \ {l}
        BY <2>1 DEF TypeOK
    <2>4. PreparedFor(t, cmd.op)' = PreparedFor(t, cmd.op)
        BY <2>2, <2>3 DEF PreparedFor
    <2>5. task[t] = NoTask
        BY <1>8 DEF RecoverExpired
    <2> QED
        BY <2>4, <2>5
<1> QED
    BY <1>3, <1>4, <1>5, <1>6, <1>7, <1>8 DEF ParticipantStep

\* A commit is only written for a peer that is prepared.
LEMMA CommitIssued ==
    ASSUME TypeOK, UntoldInv, NEW w \in Workbench, OthersStay(w), SlotStep(w),
           Begin(w) \/ DriverStep(w) \/ ParticipantStep(w) \/ AckFails(w) \/ RecoverExpired(w)
           \/ Environment(w),
           NEW t \in Workbench, status[t] # "closed", status'[t] # "closed",
           NEW cmd \in pending'[t], cmd \notin pending[t], cmd.action = "commitGlobal"
    PROVE  PreparedFor(t, cmd.op)' # {}
<1>1. DriverStep(w)
    <2>1. cmd.action \notin TrayAction
        BY CoordinationAssumption
    <2> QED
        BY <2>1, OwnSlots
<1>2. \A op, action : Cmd(op, action, t).op = op /\ Cmd(op, action, t).action = action
    BY DEF Cmd
<1>3. /\ driver[w].phase = "issuing" /\ t \in driver[w].todo
      /\ driver[w].verb = "commitGlobal" /\ cmd.op = driver[w].op
    <2>1. "commitGlobal" \notin TrayAction
        BY CoordinationAssumption
    <2> QED
        BY <1>2, <2>1 DEF SlotStep
<1>4. PreparedFor(t, cmd.op) # {}
    BY <1>3 DEF UntoldInv, UntoldBy, PromisedBy
<1>5. prepared'[t] = prepared[t]
    <2>1. t = w => ~Ends(w)
        BY DEF Ends, TypeOK
    <2> QED
        BY <1>1, <2>1
        DEF DriverStep, FlushLocal, RequestPrepare, IssueNext, IssueDone, IssueRefused,
            PrepareAnswered, TimedOut, RequestCommit, CommitAnswered, Leave, RequestAbort,
            AbortAnswered, OthersStay
<1> QED
    BY <1>4, <1>5 DEF PreparedFor

\* handleRuntimeCommand never closes a workbench on a commit that it is not prepared for, provided
\* initiators and polls are faster than the lease and no acknowledgement fails to be written.
\* Both are needed: coordination.js:138 forgets the preparation before the commit is
\* acknowledged, so that an acknowledgement that fails is repeated without it.
THEOREM CommitsArePrepared ==
    ASSUME Prompt, Faulty = {} PROVE Spec => CommitFindsPreparation
<1>1. Init => CommitInv
    BY DEF Init, CommitInv
<1>2. ASSUME TypeOK, TrafficInv, UntoldInv, CommitInv, NEW w \in Workbench,
             Begin(w) \/ DriverStep(w) \/ ParticipantStep(w) \/ AckFails(w) \/ RecoverExpired(w)
             \/ Environment(w)
      PROVE  CommitInv'
    <2>0. OthersStay(w) /\ SlotStep(w) /\ MailInv
        BY <1>2, StepOfOne DEF TrafficInv
    <2> SUFFICES ASSUME NEW t \in Workbench, status'[t] # "closed", NEW cmd \in pending'[t],
                        cmd.action = "commitGlobal"
                 PROVE  PreparedFor(t, cmd.op)' # {} \/ (task'[t] # NoTask /\ task'[t].cmd = cmd)
        BY DEF CommitInv
    <2>1. status[t] # "closed"
        BY <1>2, <2>0, ClosedStays
    <2>2. CASE cmd \in pending[t]
        <3>1. PreparedFor(t, cmd.op) # {} \/ (task[t] # NoTask /\ task[t].cmd = cmd)
            BY <1>2, <2>1, <2>2 DEF CommitInv
        <3>2. CASE t = w
            BY <1>2, <2>0, <2>2, <3>1, <3>2, CommitWaits
        <3>3. CASE t # w
            BY <2>0, <3>1, <3>3 DEF OthersStay, PreparedFor
        <3> QED
            BY <3>2, <3>3
    <2>3. CASE cmd \notin pending[t]
        BY <1>2, <2>0, <2>1, <2>3, CommitIssued
    <2> QED
        BY <2>2, <2>3
<1>3. CommitInv /\ UNCHANGED vars => CommitInv'
    BY DEF CommitInv, PreparedFor, vars, local, disk
<1>4. TypeOK /\ TrafficInv /\ UntoldInv /\ CommitInv /\ [Next]_vars => CommitInv'
    BY <1>2, <1>3 DEF Next
<1>5. CommitInv =>
        [\A w \in Workbench : Poll(w) => \A cmd \in pending[w] :
            cmd.action = "commitGlobal" => PreparedFor(w, cmd.op) # {}]_vars
    <2>1. ASSUME CommitInv, NEW w \in Workbench, Poll(w), NEW cmd \in pending[w],
                 cmd.action = "commitGlobal"
          PROVE  PreparedFor(w, cmd.op) # {}
        BY <2>1 DEF CommitInv, Poll, Open
    <2> QED
        BY <2>1
<1> QED
    BY <1>1, <1>4, <1>5, TypeCorrect, TrafficInductive, UntoldInductive, PTL
    DEF Spec, CommitFindsPreparation
=============================================================================
