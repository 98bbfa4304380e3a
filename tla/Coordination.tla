---------------------------- MODULE Coordination ----------------------------
(***************************************************************************)
(* The identity-wide operations of PLVS: update, configuration replacement *)
(* and full quit.  Every workbench is a process of its own.  One of them,  *)
(* the initiator, stops and flushes itself, takes the operation lock,      *)
(* writes one prepareGlobal command into the mailbox of every other        *)
(* workbench and waits for the acknowledgements; it then commits, and the  *)
(* peers close, or aborts, and the peers resume what they were capturing.  *)
(*                                                                         *)
(*   src/src/runtime/coordination.js           initiator and participant   *)
(*   src/src-tauri/src/coordinator/commands.rs mailbox and operation lock  *)
(*   src/src-tauri/src/coordinator/mod.rs      the Tauri commands between  *)
(*                                                                         *)
(* A workbench here is an instance id: a relaunched process is a new one.  *)
(***************************************************************************)
CONSTANTS
    Workbench,       \* instance ids, of the processes that run and that will
    Operation,       \* operation ids; bounds how many operations are attempted
    Initially,       \* the workbenches open at the start
    Attempt,         \* the operations that each workbench's user asks for
    Crashable,       \* the workbenches that may end at any moment
    Operated,        \* the workbenches whose user starts, stops and edits
    Faulty,          \* the workbenches whose acknowledgements may fail to be written
    TrayAction,      \* the single-instance commands that are issued
    Prompt,          \* TRUE: initiator and poll are faster than a 30 s lease
    NoTask, NoOperation

ASSUME CoordinationAssumption ==
    /\ Initially \subseteq Workbench
    /\ Attempt \subseteq Workbench \X Operation
    /\ Crashable \subseteq Workbench
    /\ Operated \subseteq Workbench
    /\ Faulty \subseteq Workbench
    /\ TrayAction \subseteq {"show", "applyPreset", "quitInstance"}
    /\ Prompt \in BOOLEAN
    /\ NoOperation \notin Operation

GlobalAction == {"prepareGlobal", "commitGlobal", "abortGlobal"}
Outcome      == {"ready", "completed", "blocked", "failed"}
Phase        == {"idle", "stopping", "requesting", "issuing", "awaiting",
                 "prepared", "aborting", "leaving"}

Command == [op : Operation, action : GlobalAction, to : Workbench] \cup
           [op : {NoOperation}, action : TrayAction, to : Workbench]
Ack     == [cmd : Command, outcome : Outcome]
Lease   == [op : Operation, wasRunning : BOOLEAN]
Task    == [cmd : Command, step : {"stopping", "acking", "writing"},
            wasRunning : BOOLEAN, outcome : Outcome]
Driver  == {d \in [phase : Phase, op : Operation \cup {NoOperation},
                   verb : GlobalAction, wasRunning : BOOLEAN,
                   peers : SUBSET Workbench,   \* operation.issued
                   todo  : SUBSET Workbench,   \* of the batch being issued
                   sent  : SUBSET Workbench] : \* of the batch being issued
              d.phase = "idle" \/ d.op \in Operation}

\* A workbench that handles no command.
ASSUME NoTaskAssumption == NoTask \notin Task

VARIABLES
    status,      \* process: "unborn", "open" or "closed"
    capture,     \* lifecycle.running
    editor,      \* lifecycle.blockingEditors is not empty
    prepared,    \* the participant's Map of preparations
    task,        \* the command the participant is handling
    driver,      \* the operation the workbench initiates
    pending,     \* runtime/commands/pending/<instance>.json
    acks,        \* runtime/commands/acks/<command>.json
    lock,        \* runtime/operation.lock with the lease that holds it
    used,        \* operation ids drawn so far
    intent,      \* history: the user's last Start (TRUE) or Stop (FALSE)
    committing   \* history: operations whose commit phase began

local  == <<capture, editor, prepared, task, driver>>
disk   == <<pending, acks, lock>>
ghost  == <<used, intent, committing>>
vars   == <<status, local, disk, ghost>>

Open(w) == status[w] = "open"
Idle == [phase |-> "idle", op |-> NoOperation, verb |-> "prepareGlobal",
         wasRunning |-> FALSE, peers |-> {}, todo |-> {}, sent |-> {}]

Init ==
    /\ status = [w \in Workbench |-> IF w \in Initially THEN "open" ELSE "unborn"]
    /\ capture \in [Workbench -> BOOLEAN]
    /\ \A w \in Workbench \ Initially : ~capture[w]
    /\ editor = [w \in Workbench |-> FALSE]
    /\ prepared = [w \in Workbench |-> {}]
    /\ task = [w \in Workbench |-> NoTask]
    /\ driver = [w \in Workbench |-> Idle]
    /\ pending = [w \in Workbench |-> {}]
    /\ acks = {}
    /\ lock = {}
    /\ used = {}
    /\ intent = capture
    /\ committing = {}

-----------------------------------------------------------------------------
(* The mailbox and the operation lock, coordinator/commands.rs. *)

\* issue_with_payload: a slot that holds a command refuses another, except
\* the abort or the commit of the operation the held command belongs to.
Replaceable(held, op, action) ==
    held.op = op /\ action \in {"abortGlobal", "commitGlobal"}

SlotTakes(to, op, action) ==
    \A held \in pending[to] : Replaceable(held, op, action)

Cmd(op, action, to) == [op |-> op, action |-> action, to |-> to]

\* registry.remove_stale: the mailbox of a dead process is discarded.
LiveMail == [w \in Workbench |-> IF status[w] = "closed" THEN {} ELSE pending[w]]
LiveAcks == {a \in acks : status[a.cmd.to] # "closed"}
Cleaned == pending' = LiveMail /\ acks' = LiveAcks

\* runtime_issue_commands after its permission check: the registry is cleaned,
\* and every target must be live.
Targets(w) == {t \in Workbench \ {w} : Open(t)}
AllLive(targets) == \A t \in targets : Open(t)

\* require_idle looks at the lease of this process only.
OwnLeaseFree(w) == \A h \in lock : h.holder # w

\* Mutant: a lock that would block is taken for granted.
LockIgnored == TRUE
\* begin
LockAvailable == lock = {}
Held(w, op) == [holder |-> w, op |-> op]
\* Mutant: finish without require_owner.
ReleasedUnowned(w, op) == {}
\* finish: require_owner, then unlock; for anybody else it changes nothing.
Released(w, op) == lock \ {Held(w, op)}

\* wait_for: the acknowledgements of the batch that have been written.
Answers(w) == {a \in acks : a.cmd \in {Cmd(driver[w].op, driver[w].verb, t) : t \in driver[w].sent}}
\* Mutant: whatever has arrived by the timeout is returned.
WhateverArrived(w) == TRUE
AllAnswered(w) == \A t \in driver[w].sent : \E a \in Answers(w) : a.cmd.to = t
\* `acknowledgements.find((ack) => ack.outcome !== ...)` finds none.
Unanimous(w, outcome) == \A a \in Answers(w) : a.outcome = outcome

-----------------------------------------------------------------------------
(* The end of a process, whatever ends it: its locks and its memory go. *)

Ends(w) ==
    /\ status' = [status EXCEPT ![w] = "closed"]
    /\ capture' = [capture EXCEPT ![w] = FALSE]
    /\ editor' = [editor EXCEPT ![w] = FALSE]
    /\ prepared' = [prepared EXCEPT ![w] = {}]
    /\ task' = [task EXCEPT ![w] = NoTask]
    /\ driver' = [driver EXCEPT ![w] = Idle]
    /\ intent' = [intent EXCEPT ![w] = FALSE]

Unlocked(w) == {h \in lock : h.holder # w}

-----------------------------------------------------------------------------
(* The initiator: prepareGlobalOperation, commitGlobalOperation and
   abortGlobalOperation of coordination.js. *)

Drive(w, d) == driver' = [driver EXCEPT ![w] = d]

\* prepareGlobalOperation: refused while an editor is open; stopAndFlush samples
\* `running` and calls stop() in the same turn.
Begin(w) ==
    /\ Open(w) /\ driver[w].phase = "idle"
    /\ ~editor[w]
    /\ \E op \in Operation \ used :
        /\ <<w, op>> \in Attempt
        /\ used' = used \cup {op}
        /\ Drive(w, [Idle EXCEPT !.phase = "stopping", !.op = op,
                                 !.wasRunning = capture[w]])
    /\ capture' = [capture EXCEPT ![w] = FALSE]
    /\ UNCHANGED <<status, editor, prepared, task, disk,
                   intent, committing>>

\* The end of stopAndFlush, by when the user may have pressed Start again: a
\* failed flush restarts what was running and ends the attempt.
FlushLocal(w) ==
    /\ Open(w) /\ driver[w].phase = "stopping"
    /\ \/ /\ Drive(w, [driver[w] EXCEPT !.phase = "requesting"])
          /\ UNCHANGED capture
       \/ /\ capture' = [capture EXCEPT ![w] = @ \/ driver[w].wasRunning]
          /\ Drive(w, Idle)
    /\ UNCHANGED <<status, editor, prepared, task, disk, ghost>>

\* Restart after an attempt that got no further than its own lock or mailbox.
GiveUp(w) ==
    /\ capture' = [capture EXCEPT ![w] = @ \/ driver[w].wasRunning]
    /\ Drive(w, Idle)
    /\ lock' = Released(w, driver[w].op)

\* runtime_issue_commands("prepareGlobal"): takes the operation lock and fixes
\* the targets.  When what follows the lock fails, before or after the registry
\* is cleaned, the attempt is aborted without a peer; when the lock is held
\* elsewhere it is given up.
RequestPrepare(w) ==
    /\ Open(w) /\ driver[w].phase = "requesting"
    /\ \/ /\ LockAvailable
          /\ lock' = {Held(w, driver[w].op)}
          /\ \/ /\ Cleaned
                /\ Drive(w, [driver[w] EXCEPT !.phase = "issuing", !.verb = "prepareGlobal",
                                              !.peers = Targets(w), !.todo = Targets(w)])
             \/ /\ Cleaned \/ UNCHANGED <<pending, acks>>
                /\ Drive(w, [driver[w] EXCEPT !.phase = "aborting"])
          /\ UNCHANGED capture
       \/ /\ ~LockAvailable
          /\ GiveUp(w)
          /\ UNCHANGED <<pending, acks>>
    /\ UNCHANGED <<status, editor, prepared, task, used, intent, committing>>

\* One turn of issue_many.
IssueNext(w) ==
    LET d == driver[w] IN
    /\ Open(w) /\ d.phase = "issuing"
    /\ \E t \in d.todo :
        /\ SlotTakes(t, d.op, d.verb)
        /\ pending' = [pending EXCEPT ![t] = {Cmd(d.op, d.verb, t)}]
        /\ Drive(w, [d EXCEPT !.todo = @ \ {t}, !.sent = @ \cup {t}])
    /\ UNCHANGED <<status, capture, editor, prepared, task, acks, lock, ghost>>

\* The end of issue_many; waitFor begins.
IssueDone(w) ==
    /\ Open(w) /\ driver[w].phase = "issuing" /\ driver[w].todo = {}
    /\ Drive(w, [driver[w] EXCEPT !.phase = "awaiting"])
    /\ UNCHANGED <<status, capture, editor, prepared, task, disk, ghost>>

\* A slot that refuses: a prepare batch is rolled back and given up, a commit
\* turns into an abort, an abort is abandoned where it stands.
RolledBack(w) ==
    [t \in Workbench |->
        IF t \in driver[w].sent /\ SlotTakes(t, driver[w].op, "abortGlobal")
        THEN {Cmd(driver[w].op, "abortGlobal", t)} ELSE pending[t]]

IssueRefused(w) ==
    LET d == driver[w] IN
    /\ Open(w) /\ d.phase = "issuing"
    /\ \E t \in d.todo : ~SlotTakes(t, d.op, d.verb)
    /\ \/ /\ d.verb = "prepareGlobal"
          /\ pending' = RolledBack(w)
          /\ GiveUp(w)
       \/ /\ d.verb = "commitGlobal"
          /\ Drive(w, [d EXCEPT !.phase = "aborting"])
          /\ UNCHANGED <<pending, capture, lock>>
       \/ /\ d.verb = "abortGlobal"
          /\ GiveUp(w)
          /\ UNCHANGED pending
    /\ UNCHANGED <<status, editor, prepared, task, acks, used, intent, committing>>

\* waitFor with every acknowledgement there: the files are deleted, and the
\* operation is prepared, or aborted when one of them is not "ready".
PrepareAnswered(w) ==
    LET d == driver[w] IN
    /\ Open(w) /\ d.phase = "awaiting" /\ d.verb = "prepareGlobal"
    /\ AllAnswered(w)
    /\ acks' = acks \ Answers(w)
    /\ Drive(w, [d EXCEPT !.sent = {},
                          !.phase = IF Unanimous(w, "ready") THEN "prepared" ELSE "aborting"])
    /\ UNCHANGED <<status, capture, editor, prepared, task, pending, lock, ghost>>

\* Mutant: only the prepare phase is waited for with a timeout.
PrepareTimedOut(w) ==
    LET d == driver[w] IN
    /\ Open(w) /\ d.phase = "awaiting" /\ d.verb = "prepareGlobal"
    /\ ~AllAnswered(w)
    /\ Drive(w, [d EXCEPT !.phase = "aborting"])
    /\ UNCHANGED <<status, capture, editor, prepared, task, disk, ghost>>

\* waitFor that runs into COMMAND_TIMEOUT_MS.
TimedOut(w) ==
    LET d == driver[w] IN
    /\ Open(w) /\ d.phase = "awaiting" /\ d.verb # "abortGlobal"
    /\ ~AllAnswered(w)
    /\ Drive(w, [d EXCEPT !.phase = "aborting"])
    /\ UNCHANGED <<status, capture, editor, prepared, task, disk, ghost>>

\* commitGlobalOperation as far as the permission of runtime_issue_commands;
\* a peer that is gone, a failed flush or a caller that fails first (importing
\* the profile) turns it into an abort.
RequestCommit(w) ==
    LET d == driver[w] IN
    /\ Open(w) /\ d.phase = "prepared"
    /\ \/ /\ AllLive(d.peers)
          /\ Cleaned
          /\ Drive(w, [d EXCEPT !.phase = "issuing", !.verb = "commitGlobal",
                                !.todo = d.peers, !.sent = {}])
          /\ committing' = committing \cup {d.op}
       \/ /\ ~AllLive(d.peers)
          /\ Cleaned
          /\ Drive(w, [d EXCEPT !.phase = "aborting"])
          /\ UNCHANGED committing
       \/ /\ Drive(w, [d EXCEPT !.phase = "aborting"])
          /\ UNCHANGED <<pending, acks, committing>>
    /\ UNCHANGED <<status, capture, editor, prepared, task, lock,
                   used, intent>>

\* Every peer completed: the operation is finished.  One that failed turns the
\* commit into an abort.
CommitAnswered(w) ==
    LET d == driver[w] IN
    /\ Open(w) /\ d.phase = "awaiting" /\ d.verb = "commitGlobal"
    /\ AllAnswered(w)
    /\ acks' = acks \ Answers(w)
    /\ \/ /\ Unanimous(w, "completed")
          /\ Drive(w, [d EXCEPT !.phase = "leaving"])
          /\ lock' = Released(w, d.op)
       \/ /\ ~Unanimous(w, "completed")
          /\ Drive(w, [d EXCEPT !.phase = "aborting"])
          /\ UNCHANGED lock
    /\ UNCHANGED <<status, capture, editor, prepared, task, pending, ghost>>

\* After the commit the initiator exits, relaunches or gives way to the
\* installer; by then somebody else may hold the operation lock.
Leave(w) ==
    /\ Open(w) /\ driver[w].phase = "leaving"
    /\ Ends(w)
    /\ lock' = Unlocked(w)
    /\ UNCHANGED <<pending, acks, used, committing>>

\* abortGlobalOperation: the abort goes to all the peers, or to none of them
\* when runtime_issue_commands fails or finds one of them gone.
RequestAbort(w) ==
    LET d == driver[w] IN
    /\ Open(w) /\ d.phase = "aborting"
    /\ \/ /\ AllLive(d.peers)
          /\ Cleaned
          /\ Drive(w, [d EXCEPT !.phase = "issuing", !.verb = "abortGlobal",
                                !.todo = d.peers, !.sent = {}])
          /\ UNCHANGED <<capture, lock>>
       \/ /\ Cleaned \/ UNCHANGED <<pending, acks>>
          /\ GiveUp(w)
    /\ UNCHANGED <<status, editor, prepared, task, used, intent, committing>>

\* The abort's waitFor: every acknowledgement, or the timeout it swallows.
AbortAnswered(w) ==
    /\ Open(w) /\ driver[w].phase = "awaiting" /\ driver[w].verb = "abortGlobal"
    /\ acks' = IF AllAnswered(w) THEN acks \ Answers(w) ELSE acks
    /\ GiveUp(w)
    /\ UNCHANGED <<status, editor, prepared, task, pending, used, intent, committing>>

-----------------------------------------------------------------------------
(* The participant: the 250 ms poll of useRuntimeCoordination, one command at
   a time, and handleRuntimeCommand. *)

Answer(w, cmd, wasRunning, outcome) ==
    task' = [task EXCEPT ![w] = [cmd |-> cmd, step |-> "acking",
                                 wasRunning |-> wasRunning, outcome |-> outcome]]
StopAndFlush(w, cmd) ==
    /\ capture' = [capture EXCEPT ![w] = FALSE]
    /\ task' = [task EXCEPT ![w] = [cmd |-> cmd, step |-> "stopping",
                                    wasRunning |-> capture[w], outcome |-> "failed"]]

PreparedFor(w, op) == {l \in prepared[w] : l.op = op}
Forget(w, op) == [prepared EXCEPT ![w] = @ \ PreparedFor(w, op)]
\* Mutant: the preparation is dropped and capture stays stopped.
NotResumed(w, leases) == capture
\* `if (wasRunning) await current.start()` for the leases that end.
Resumed(w, leases) ==
    [capture EXCEPT ![w] = @ \/ \E l \in leases : l.wasRunning]

\* Mutant: a preparation for another operation does not block this one.
HandlePrepareAnyway(w, cmd) ==
    /\ UNCHANGED prepared
    /\ \/ (PreparedFor(w, cmd.op) # {} \/ editor[w])
          /\ Answer(w, cmd, FALSE, IF editor[w] THEN "blocked" ELSE "ready")
          /\ UNCHANGED capture
       \/ /\ PreparedFor(w, cmd.op) = {} /\ ~editor[w]
          /\ StopAndFlush(w, cmd)

HandlePrepare(w, cmd) ==
    /\ UNCHANGED prepared
    /\ \/ /\ PreparedFor(w, cmd.op) # {}
          /\ Answer(w, cmd, FALSE, "ready")
          /\ UNCHANGED capture
       \/ /\ PreparedFor(w, cmd.op) = {}
          /\ prepared[w] # {} \/ editor[w]
          /\ Answer(w, cmd, FALSE, "blocked")
          /\ UNCHANGED capture
       \/ /\ prepared[w] = {} /\ ~editor[w]
          /\ StopAndFlush(w, cmd)

HandleAbort(w, cmd) ==
    /\ capture' = Resumed(w, PreparedFor(w, cmd.op))
    /\ prepared' = Forget(w, cmd.op)
    /\ Answer(w, cmd, FALSE, "completed")

\* The preparation is forgotten before the acknowledgement is written; neither
\* it nor the editors are looked at.  A failed flush leaves it in place.
HandleCommit(w, cmd) ==
    /\ UNCHANGED capture
    /\ \/ /\ prepared' = Forget(w, cmd.op)
          /\ Answer(w, cmd, FALSE, "completed")
       \/ /\ UNCHANGED prepared
          /\ Answer(w, cmd, FALSE, "failed")

HandleQuit(w, cmd) ==
    /\ UNCHANGED prepared
    /\ \/ editor[w] /\ Answer(w, cmd, FALSE, "blocked") /\ UNCHANGED capture
       \/ ~editor[w] /\ StopAndFlush(w, cmd)

\* Any of them may fail, and all but "show" are refused by a workbench that is
\* prepared.  What they do to the scene is not modelled.
HandleTray(w, cmd) ==
    /\ UNCHANGED <<capture, prepared>>
    /\ \/ Answer(w, cmd, FALSE, "failed")
       \/ Answer(w, cmd, FALSE, "completed") /\ (cmd.action = "show" \/ prepared[w] = {})

Poll(w) ==
    /\ Open(w) /\ task[w] = NoTask
    /\ \E cmd \in pending[w] :
        \/ cmd.action = "prepareGlobal" /\ HandlePrepare(w, cmd)
        \/ cmd.action = "abortGlobal" /\ HandleAbort(w, cmd)
        \/ cmd.action = "commitGlobal" /\ HandleCommit(w, cmd)
        \/ cmd.action = "quitInstance" /\ HandleQuit(w, cmd)
        \/ cmd.action \in {"show", "applyPreset"} /\ HandleTray(w, cmd)
    /\ UNCHANGED <<status, editor, driver, disk, ghost>>

\* The end of the participant's stopAndFlush, and for quitInstance of the
\* retirement of its workspace; when one fails, what was running is restarted.
Flushed(w) ==
    LET t == task[w] IN
    /\ Open(w) /\ t # NoTask /\ t.step = "stopping"
    /\ \/ /\ UNCHANGED capture
          /\ IF t.cmd.action = "prepareGlobal"
             THEN /\ prepared' = [prepared EXCEPT ![w] =
                        @ \cup {[op |-> t.cmd.op, wasRunning |-> t.wasRunning]}]
                  /\ Answer(w, t.cmd, t.wasRunning, "ready")
             ELSE /\ Answer(w, t.cmd, t.wasRunning, "completed")
                  /\ UNCHANGED prepared
       \/ /\ capture' = [capture EXCEPT ![w] = @ \/ t.wasRunning]
          /\ Answer(w, t.cmd, t.wasRunning, "failed")
          /\ UNCHANGED prepared
    /\ UNCHANGED <<status, editor, driver, disk, ghost>>

\* runtime_ack_command reads the slot before it takes the mailbox lock; a
\* command that was replaced is not acknowledged, and not acted on further.
AckCheck(w) ==
    LET t == task[w] IN
    /\ Open(w) /\ t # NoTask /\ t.step = "acking"
    /\ task' = [task EXCEPT ![w] = IF t.cmd \in pending[w]
                                   THEN [t EXCEPT !.step = "writing"] ELSE NoTask]
    /\ UNCHANGED <<status, capture, editor, prepared, driver, disk, ghost>>

\* An acknowledgement that cannot be written throws: handleRuntimeCommand then
\* acknowledges "failed", and when that throws as well the command stays in the
\* slot and the next poll handles it again.
AckFails(w) ==
    LET t == task[w] IN
    /\ Open(w) /\ w \in Faulty /\ t # NoTask /\ t.step = "acking"
    /\ task' = [task EXCEPT ![w] = IF t.outcome # "failed"
                                   THEN [t EXCEPT !.outcome = "failed"] ELSE NoTask]
    /\ UNCHANGED <<status, capture, editor, prepared, driver, disk, ghost>>

\* acknowledge, under the mailbox lock: the acknowledgement is written whatever
\* the slot holds by now, and the slot is emptied if it holds this command.
\* Mutant: the command stays in the slot it was read from.
NotEmptied(slot, cmd) == slot
Emptied(slot, cmd) == slot \ {cmd}
Exits(t) == t.cmd.action \in {"commitGlobal", "quitInstance"} /\ t.outcome = "completed"

AckWrite(w) ==
    LET t == task[w] IN
    /\ Open(w) /\ t # NoTask /\ t.step = "writing"
    /\ pending' = [pending EXCEPT ![w] = Emptied(@, t.cmd)]
    /\ acks' = IF t.cmd.action \in GlobalAction
               THEN acks \cup {[cmd |-> t.cmd, outcome |-> t.outcome]} ELSE acks
    /\ \/ /\ Exits(t)
          /\ Ends(w)
          /\ lock' = Unlocked(w)
       \/ /\ ~Exits(t)
          /\ task' = [task EXCEPT ![w] = NoTask]
          /\ UNCHANGED <<status, capture, editor, prepared, driver, lock, intent>>
    /\ UNCHANGED <<used, committing>>

\* Mutants: a lease that runs out while its initiator is at work; a lease that
\* is never found to have run out.
MayExpireEarly(w, l) == TRUE
NeverExpires(w, l) == FALSE

\* recoverExpiredPreparations: a preparation older than PREPARED_LEASE_MS.  No
\* clock: a lease may run out at any time or, with Prompt, once its initiator is
\* done or gone and the poll has found no command of its operation.
MayExpire(w, l) == Prompt =>
    /\ \A v \in Workbench : driver[v].op # l.op
    /\ \A cmd \in pending[w] : cmd.op # l.op

RecoverExpired(w) ==
    /\ Open(w) /\ task[w] = NoTask
    /\ \E l \in prepared[w] :
        /\ MayExpire(w, l)
        /\ capture' = Resumed(w, {l})
        /\ prepared' = [prepared EXCEPT ![w] = @ \ {l}]
    /\ UNCHANGED <<status, editor, task, driver, disk, ghost>>

-----------------------------------------------------------------------------
(* Everything else that happens to a workbench. *)

\* issueInstanceCommand: refused while this process leads an operation.
IssueInstance(w) ==
    /\ Open(w) /\ OwnLeaseFree(w)
    /\ \E t \in Targets(w), action \in TrayAction :
        /\ pending[t] = {}
        /\ pending' = [LiveMail EXCEPT ![t] = {Cmd(NoOperation, action, t)}]
    /\ acks' = LiveAcks
    /\ UNCHANGED <<status, local, lock, ghost>>

\* The heartbeat of any workbench runs registry.remove_stale.
Heartbeat(w) ==
    /\ Open(w)
    /\ pending' = LiveMail /\ acks' = LiveAcks
    /\ UNCHANGED <<status, local, lock, ghost>>

\* The user: nothing on screen is disabled while a workbench is prepared.
Transport(w) ==
    /\ Open(w) /\ w \in Operated
    /\ capture' = [capture EXCEPT ![w] = ~@]
    /\ intent' = [intent EXCEPT ![w] = ~capture[w]]
    /\ UNCHANGED <<status, editor, prepared, task, driver, disk,
                   used, committing>>

Edit(w) ==
    /\ Open(w) /\ w \in Operated
    /\ editor' = [editor EXCEPT ![w] = ~@]
    /\ UNCHANGED <<status, capture, prepared, task, driver, disk, ghost>>

Launch(w) ==
    /\ status[w] = "unborn"
    /\ status' = [status EXCEPT ![w] = "open"]
    /\ UNCHANGED <<local, disk, ghost>>

Crash(w) ==
    /\ Open(w) /\ w \in Crashable
    /\ Ends(w)
    /\ lock' = Unlocked(w)
    /\ UNCHANGED <<pending, acks, used, committing>>

-----------------------------------------------------------------------------
DriverStep(w) ==
    \/ FlushLocal(w) \/ RequestPrepare(w) \/ IssueNext(w) \/ IssueDone(w)
    \/ IssueRefused(w) \/ PrepareAnswered(w) \/ TimedOut(w) \/ RequestCommit(w)
    \/ CommitAnswered(w) \/ Leave(w) \/ RequestAbort(w) \/ AbortAnswered(w)

ParticipantStep(w) == Poll(w) \/ Flushed(w) \/ AckCheck(w) \/ AckWrite(w)

Environment(w) ==
    IssueInstance(w) \/ Heartbeat(w) \/ Transport(w) \/ Edit(w) \/ Launch(w) \/ Crash(w)

Next == \E w \in Workbench :
    \/ Begin(w) \/ DriverStep(w) \/ ParticipantStep(w) \/ AckFails(w)
    \/ RecoverExpired(w) \/ Environment(w)

Spec == Init /\ [][Next]_vars

\* The initiator's code runs on, its waits time out; the poll comes round every
\* 250 ms and each round ends in recoverExpiredPreparations, so the recovery is
\* tried between any two commands.
Fairness == \A w \in Workbench :
    /\ WF_vars(DriverStep(w))
    /\ WF_vars(ParticipantStep(w))
    /\ SF_vars(RecoverExpired(w))

FairSpec == Spec /\ Fairness

-----------------------------------------------------------------------------
(* What the code is to guarantee. *)

\* Every variable keeps its shape; in particular a mailbox slot holds commands
\* addressed to workbenches and an acknowledgement names one of them.
TypeOK ==
    /\ status \in [Workbench -> {"unborn", "open", "closed"}]
    /\ capture \in [Workbench -> BOOLEAN]
    /\ editor \in [Workbench -> BOOLEAN]
    /\ prepared \in [Workbench -> SUBSET Lease]
    /\ task \in [Workbench -> Task \cup {NoTask}]
    /\ driver \in [Workbench -> Driver]
    /\ pending \in [Workbench -> SUBSET Command]
    /\ acks \subseteq Ack
    /\ lock \subseteq [holder : Workbench, op : Operation]
    /\ used \subseteq Operation
    /\ intent \in [Workbench -> BOOLEAN]
    /\ committing \subseteq Operation

\* The phases in which an initiator has been granted its operation.
Leads(w) == driver[w].phase \in {"issuing", "awaiting", "prepared", "aborting"}

\* Two workbenches never run identity-wide operations at the same time, whatever
\* crashes or gives up in between (RuntimeOperationCoordinator).
OneOperation == \A v, w \in Workbench : Leads(v) /\ Leads(w) => v = w

\* A workbench holds the operation lock exactly while its operation is between
\* the grant and runtime_finish_operation: no error path leaks the lock, which
\* would block every later update and quit, and none gives away somebody else's.
LockHeldByLeader ==
    lock = {Held(w, driver[w].op) : w \in {v \in Workbench : Leads(v)}}

\* A participant holds at most one preparation, although an initiator may crash
\* and the next one ask before the first lease has run out: two of them would
\* restart capture under the feet of the second operation.
OnePreparation == \A w \in Workbench : \A l, m \in prepared[w] : l = m

\* When prepareGlobalOperation returns, every peer it was issued to that still
\* runs is prepared for this very operation, and stays so until the commit or
\* the abort is issued.
UnanimousReady ==
    \A w \in Workbench : driver[w].phase = "prepared" =>
        \A t \in driver[w].peers :
            Open(t) => \E l \in prepared[t] : l.op = driver[w].op

\* handleRuntimeCommand does not look for a preparation before it closes the
\* workbench on commitGlobal; the protocol sees to it that there is one.
CommitFindsPreparation ==
    [][\A w \in Workbench :
        Poll(w) => \A cmd \in pending[w] :
            cmd.action = "commitGlobal" => PreparedFor(w, cmd.op) # {}]_vars

\* A workbench that takes part in nothing: no command, no preparation, no
\* operation of its own.
Settled(w) ==
    /\ Open(w) /\ task[w] = NoTask /\ prepared[w] = {} /\ pending[w] = {}
    /\ driver[w].phase = "idle"

\* An operation leaves no workbench with its capture stopped that the user had
\* started: once it takes part in nothing, it captures again.
CaptureResumed ==
    \A w \in Workbench : Settled(w) /\ intent[w] => capture[w]

\* As CaptureResumed, as long as no commit has been issued: refusals, timeouts,
\* crashes, a failed flush and a lost lock all give every capture back.
CaptureResumedWithoutCommit == committing = {} => CaptureResumed

\* Every attempt comes to an end, with or without an answer from the peers.
OperationsEnd == \A w \in Workbench : driver[w].phase # "idle" ~> driver[w].phase = "idle"

\* No preparation outlives its operation for ever, even when the initiator
\* crashes and nobody commits or aborts it.
PreparationsEnd == \A w \in Workbench : prepared[w] # {} ~> prepared[w] = {}

\* A slot with a command in it is emptied sooner or later: the mailbox is not
\* blocked for the commands to come.
MailboxDrains == \A w \in Workbench : Open(w) /\ pending[w] # {} ~> pending[w] = {} \/ ~Open(w)
=============================================================================
