# PLVS, formally

PLVS is a desktop audio workbench (React in a Tauri shell, Rust below). Every
window of it, a *workbench*, is a process of its own; the processes of one
application identity share a Library, a runtime directory and an installer, and
coordinate through files. This directory holds TLA+ models of that
coordination, the TLC configurations that check them and proofs that TLAPS
checks. `PROJECT.json` lists the components, the runs, the definitions with
the lines they model, the hazards, the findings and the theorems.

    cd tla
    tlc -config CoordinationPair.cfg MCCoordination.tla
    tlc -config GateCrash.cfg MCUpdateGate.tla
    tlc -config Live.cfg MCLiveCapture.tla
    tlapm CoordinationProofs.tla

## 1. Inventory

### Identity-wide operations: `src/runtime/coordination.js`, `coordinator/commands.rs`

*Purpose.* An update, a configuration replacement and a full quit need every
workbench of the identity stopped and flushed (docs/adr/0008).

*State.* In each workbench: `lifecycle.running`, the blocking editors, a Map of
preparations (operation id, when, was it running), the command being handled;
in the initiator also the operation id and the commands issued. On disk: one
mailbox slot per workbench (`commands/pending`), acknowledgement files
(`commands/acks`), the lock file `operation.lock`.

*Operations.* `prepareGlobalOperation`, `commitGlobalOperation`,
`abortGlobalOperation`; `handleRuntimeCommand` for prepareGlobal, abortGlobal,
commitGlobal, quitInstance, show, applyPreset; `recoverExpiredPreparations`;
Rust: `issue`, `issue_many`, `acknowledge`, `wait_for`, `discard_instance`,
`begin`, `require_owner`, `finish`.

*Interaction.* Only by files: the initiator writes commands, the peers poll
every 250 ms, acknowledge, and close on a commit.

*Hard behaviour.* Crashes at any point; timeouts of 10 s racing late
acknowledgements; a batch refused half-way; stale files cleaned by anybody's
heartbeat; two initiators; users and tray actions in between; preparations that
outlive their initiator by 30 s.

*Correct means.* One operation at a time; the lock never leaks; a prepared
operation has all its peers prepared; a commit meets a preparation; capture
comes back unless a commit closed the workbench; everything ends.

### Coordinator election: `coordinator/mod.rs`

*State.* `coordinator.lock` (advisory file lock), `generation.json`,
`coordinator.json`; per process a role. *Operations.* `try_acquire` at start
and with each heartbeat (`try_promote`), drop. *Hard.* Crash between any two of
the file operations, failing writes, the end of the u64. *Correct means.* At
most one coordinator, strictly growing generations, and a descriptor that is
that of the coordinator whenever there is one.

### Instance registry: `coordinator/registry.rs`

*State.* One descriptor per live process with a claim token; its path is derived from
the instance id, which is drawn anew for every process. *Operations.* register, publish,
list, remove_stale, drop. *Hard.* A process that ends without dropping its descriptor.
*Correct means.* No live workbench is lost from the list and no dead one stays.

### Workspaces: `persistence/workspace.rs`, `workspace_catalog.rs`, `session.rs`, `coordinator/restore_grant.rs`

*State.* Lease files, the restore set, one-use grants. *Operations.* claim,
retire, issue and claim a grant, two reconciliation rounds, restoring a group.
*Hard.* Two claimants of one grant, two coordinators that restore the same
workspace, a crash between claim and publication. *Correct means.* One owner
per workspace; a retired workspace does not come back; a missing one does.

### Shared Library: `persistence/library.rs`, `hydration.rs`, `multiInstanceBackend.js`

*State.* SQLite rows with a revision each, a revision of the collection; in
every workbench a cache, the documents and revisions it last saw, a dirty flag,
one drain and one pending conflict. *Operations.* set, drain (update, create,
reorder, replace, each with the revision it expects), refresh every second,
resolve (reload, or copy). *Hard.* Reads in several queries while others write;
news that arrive while an edit waits or is being written; a call that fails
half-way. *Correct means.* No save is overwritten by a workbench that has not
seen it; what a workbench takes for stored was stored.

### Agent Control broker: `agent_control/broker.rs`, and the listener of `useAgentControlBridge.js`

*State.* A bounded map of pending requests, whether a frontend listens; in the
page the listener, the requests that run. *Operations.* dispatch, submit,
answer, time out, disconnect; install and tear down the listener; restart PLVS
after an import. *Hard.* A late answer, a client that leaves, a teardown
between `listen` and the announcement, a restart that must follow an answer.
*Correct means.* A request is carried out once, no slot leaks, the broker knows
whether it is heard.

### Agent Control bridge: `agentControl/bridge/*`, `agentControl/handlers/*`

*State.* A serialized queue and a direct lane, a public revision with one batch,
waiters, one settlement slot per domain. *Operations.* run a command, settle,
time out, abandon, wait for a revision, a gesture. *Hard.* An abandoned command
that goes on beside its successor; a slot that another command has taken; a
user who edits meanwhile. *Correct means.* No waiter sleeps through a change, a
command advances the revision once, an answer is true to what was rendered.

### Update: `update_gate.rs`, `update_worker.rs`, `lib/updateController.js`, `update_runtime.rs`, `update_cache.rs`

*State.* Entry, running and admission locks, an attempt record; the
controller's generation, its check, its transfer and its confirmation; the
cache with a generation of its own. *Operations.* check, download, cancel,
choose preferences, confirm, prepare, commit, abort; enter, claim, install,
relaunch. *Hard.* Launches during an installation, abandoned attempts, a probe
that lets go of a lock to take it again, results that arrive after consent was
revoked or while the user confirms. *Correct means.* Nothing runs while the
installer replaces the program; an abandoned attempt does not lock the user out;
what is installed is what was confirmed, and nothing is downloaded against the
user's will.

### LIVE capture: `hooks/useCaptureTransport.js`, `hooks/useAudioEngine.js`, `runtime/liveMeasurementOwner.js`, `ipc/commands.rs`

*State.* The acknowledged lifecycle with the promises that wait for it; the
audio effect's refs (session held, session stopped, stop in flight); the native
session; the owner of the measurement with its generation. *Operations.* start,
stop, switch to a file, select a device, change the format, fail and recover,
clear, first frame of a session. *Hard.* Runs of the effect overlap, each with
awaits after which the world has moved on. *Correct means.* The lifecycle says
what the native engine does; one generation is one session; a transition ends.

### Recordings and file analysis: `visual_capture/recording/state.rs`, `file_analysis`

Small state machines whose requests, limits and failures race; each session
must end once and free its place.

### Data structures and pure code

Ring buffer and chunked sequence, the layout tree, presets and themes
(normalisation), DSP, user interface, scripts, website.

## 2. Modules

| module | models | kind |
| --- | --- | --- |
| `Coordination` | identity-wide operations: mailbox, lock, initiator, participant, cleaning of the dead | detailed |
| `MCCoordination` | its model values and symmetry | TLC |
| `CoordinationProofs` | theorems about it | TLAPS |
| `FencedLeader` | what the election promises | abstract |
| `CoordinatorLease` | the election, one file operation per action | detailed, implements `FencedLeader` |
| `MCCoordinatorLease` | its model values | TLC |
| `CoordinatorLeaseProofs` | theorems about it, the refinement among them | TLAPS |
| `StartupFence` | what the update gate promises | abstract |
| `UpdateGate` | start of a workbench, confirmation of an update, helper, installer, with kills anywhere | detailed, implements `StartupFence` |
| `MCUpdateGate` | its model values and symmetry | TLC |
| `UpdateGateProofs` | theorems about it, the refinement among them | TLAPS |
| `UpdateController` | checks, downloads, consent and the confirmed installation of one workbench, with the runtime and the cache | detailed |
| `UpdateControllerProofs` | theorems about it | TLAPS |
| `SharedLibrary` | one collection of the Library between workbenches | detailed |
| `SharedLibraryProofs` | theorems about it | TLAPS |
| `AgentBroker` | the way of a request from the broker to the page and back | detailed |
| `AgentBrokerProofs` | theorems about it | TLAPS |
| `AgentBridge` | what happens to a request in the page | detailed |
| `AgentBridgeProofs` | theorems about it | TLAPS |
| `LiveCapture` | transport, audio effect, native session and measurement owner | detailed |
| `LiveCaptureProofs` | theorems about it | TLAPS |
| `MCUpdateController`, `MCSharedLibrary`, `MCAgentBroker`, `MCAgentBridge`, `MCLiveCapture` | their model values | TLC |

`UpdateGate` and `Coordination` meet in `confirmInstall`: its `prepare` and `commit`
are the two steps `Prepared` of the one, the whole barrier of the other, which
closes peers (`Close`). `UpdateController` has every other step of `confirmInstall` and
the same barrier as an operation that succeeds or fails. `AgentBroker` gives requests to
the page and takes answers, `AgentBridge` is the page between the two. None of these are
composed in one state space.

### Coordination

A workbench is an instance id, so a relaunched process is another one. The
variables are `status` (process), `capture` (`lifecycle.running`), `editor`
(blocking editors), `prepared` (the Map), `task` (the command in
`handleRuntimeCommand`), `driver` (the initiator's coroutine), `pending`, `acks`
and `lock` (the files) and five that only record history.

Atomicity follows the code: JavaScript is atomic between awaits, and one Tauri
command is atomic only where it holds the mailbox lock. Hence the steps of one
operation:

- `Begin`, `FlushLocal`: `stopAndFlush` of the initiator, with an await in it
  during which the user may press Start;
- `RequestPrepare`, `RequestCommit`, `RequestAbort`: `runtime_issue_commands` up
  to its permission check; a prepare that holds the lock may still fail before its first
  command (coordinator/mod.rs:379-394), with nobody to tell; `IssueNext` writes one slot,
  `IssueDone` ends the batch, `IssueRefused` is the occupied slot with the rollback and what
  each caller does with the error. The commands of a dead workbench that such a request
  removes on its way are `Cleaned`;
- `PrepareAnswered`, `CommitAnswered`, `AbortAnswered`, `TimedOut`:
  `wait_for` and its continuation; `GiveUp` restarts what was running and calls
  `runtime_finish_operation`; `Leave` is the exit after a commit;
- `Poll` reads the slot and runs the handler to its first await; `Flushed` is the
  rest of the participant's `stopAndFlush`;
- `AckCheck` and `AckWrite` are the two halves of `runtime_ack_command`: the slot
  is read before the mailbox lock is taken. An acknowledgement refused because
  its command was replaced ends the handling; with `Faulty`, `AckFails` is one
  that cannot be written;
- `RecoverExpired`: an expired preparation. There is no clock; `Prompt` says
  that an operation is faster than the 30 s lease, and that the poll reads a
  command of the operation before it finds the lease expired;
- `IssueInstance`, `Heartbeat`, `Transport`, `Edit`, `Launch`, `Crash`: the
  environment. A crash releases the file lock and leaves the files.

Abstractions: a command is named by operation, action and target instead of a
random id (an operation issues each at most once per target; a resent prepare
does not occur). Payloads, expiry times of commands, and what show and
applyPreset do to a scene are left out. The exit that follows the acknowledgement
of a commit is taken to happen with its file write, the time between being short
and doing nothing but `exit(0)`. `commitGlobalOperation` may fail in its caller
(importing a profile), the third branch of `RequestCommit`.

### CoordinatorLease

`role` is the program counter through `try_acquire` (locked, numbered,
coordinator) and drop (resigning, gone); `locked`, `generation` and `descriptor` are
the three files. `Fail` is any `?` after the lock, including the exhausted
generation, and drops the file and so the lock. `Crash` releases the lock only.
The refinement maps the set of coordinators and the last established generation to
`FencedLeader`.

### UpdateGate

An update is confirmed in the workbench that coordinates. It spawns a copy of the
program as a *helper*, which takes the entry away from new launches, waits until
every workbench has closed, records the attempt, runs the installer and starts
PLVS again. Everything between the processes goes through three advisory locks
and four files.

`step` and `hstep` are the program counters of the two kinds of process. A file
lock is released when its process ends, however it ends, so there are no lock
variables: who holds a lock is a function of the program counters.

| lock | held by a workbench at | held by a helper at |
| --- | --- | --- |
| `admission.lock` | `Admission` | only within `Claim` (nothing observable happens between its lock and its release) |
| `entry.lock` | `Entering`, shared | `Owning`, exclusive |
| `running.lock` | `Session`, shared (and within `Probe`, exclusive) | `Closed`, exclusive |

`fresh` is `fresh_session`; `coordinator` and the set of registered workbenches
(those that are `open`) stand for the role and the registry, which other modules
model; `confirm` is the coroutine of `confirmInstall` with `pending_worker`;
`ticket`, `ready`, `commit` and `attempt` are the files, `nonce` is what a helper has
read, `installer` what became of the installer it started.

- `Check`, `Mark`: `check_abandoned_attempt`, its read and its save; `Admit`, `Bar`,
  `Probe`, `Share`: `RunningInstallation::enter`; `Tidy`: `remove_helper_files`;
  `Register`, `Promote`: `setup` and the heartbeat; `Dismiss`, `Close`, `Leave`, `Kill`:
  four ways to end.
- `Confirm`, `HelperReady`, `HelperNotReady`: `update_prepare_install` with `spawn`;
  `Prepared`, `NotPrepared`, `CommitInstall`, `Restart`: the rest of `confirmInstall` and
  its catch.
- `ReadTicket`, `Claim`, `Ready`, `SeeCommit`, `Expire`, `WaitClosed`, `NotClosed`, `Record`,
  `StartInstaller`, `Track`, `Settle`, `Release`, `Relaunch`, `Report`: `run` and `install` of
  the helper; `InstallerEnds` is the installer, a process of its own that a killed
  helper leaves running (NSIS on Windows, APT on Linux; on macOS the replacement runs
  in the helper).

Abstractions. A nonce is random, so it is named by the helper it was drawn for.
Package files are left out: a package that is gone or not good is a branch of
`Ready` and `NotClosed`. The versions of an attempt and of the program are compared
through what the installer did. The fields of `attempt.json` are kept as far as a
launch reads them; of a failed or finished attempt it reads none, which is why the
read and the save of `Release` and `Report` are one step. The timeouts of 20 s
(`HelperNotReady`), 120 s (`Expire`) and 300 s (`NotClosed`) are nondeterministic, with one
assumption: the helper does not expire while its coordinator is in the barrier,
which waits at most twice 10 s. A closing of the coordinator in the middle of a
confirmation counts as `Kill`. That a relaunch cannot be spawned is left out, and
`Launch` keeps one free process for it.

### UpdateController

JavaScript between two awaits is one action, and so is one Tauri command unless it waits
itself: `AskFeed` and `FeedAnswers` are the two halves of `update_check`, `FetchPackage`,
`PackageFetched` and `Publish` the three of `update_download`. `checkJob`, `transfer`,
`cancel` and `install` are the four coroutines; a confirmed installation takes a transfer
that runs over (`Promoted`), and a check may start one (`FetchesAutomatically`).

A generation is only ever compared with the one a job began under, so a job carries two
bits instead: `revoked` (the controller's generation has moved on) and `live` (the
cache's has not). `prefs` is what the page has chosen, `stored` what `automatic_allowed`
reads, and `FlushPreferences` comes in between. `feed` is the newest release, published
at any time. Each call may fail (`Fails`, the refusing branches). The installation is
supported and the workbench stays coordinator; the development preview is left out.

### SharedLibrary

`store` and `revision` are the database, the other variables the state of
`createMultiInstanceBackend` in each workbench. A document carries the set of edits it
contains, so that an edit that is overwritten is seen to disappear; what a preset says
is left out. The drain is a loop of calls: `EnsureDrain` or `Saved` chooses the next one
(`Request`, from the difference of cache and `persisted`), `Serve` is the transaction in
SQLite, `Stored` what the page learns from the answer, `ReadRevision` the second query of a
command. A hydration reads the items (`ListItems`) and then the revision of the
collection (`ReadCollection`), and `Refreshed` is `applyRemoteCollection`. `Reloaded`,
`CreateCopy`, `CopyStored` and `CopySaved` are `resolveConflict`. The commands of one process hold
its session lock (`SessionFree`), those of two workbenches interleave.

The answer to a hydration is taken over whatever the workbench is doing, and so is the copy of
a refused document: an edit may be waiting for the drain, a drain may be between its calls, a
copy may be on its way to the store (`Writing`, `Copying`). The code looks at none of these,
and each breaks the promise of the docs (Findings, and the observations). Two history variables
say where that leaves everything else. `overtaken` is the set of the workbenches whose work an
answer was taken over, until one is taken by the workbench at rest; `spoiled` is the set of the
items from which a write of such a workbench has dropped an edit, or which it added. They
record and restrain nothing: every interleaving of the code is a behaviour of the model.

### AgentBroker

`rust` is the broker and the thread that waits for a request, `effect` the runs of the
effect of `useAgentControlBridge.js`, `ipc` what is on its way. A run of the effect awaits
`listen` and then the announcement (`Mount`, `Listened`, `Announced`), and may be torn down
(`Unmount`) in either wait, to be followed by the next; one is mounted at a time. Tauri carries out calls in their order
and an event reaches the listeners registered when it is emitted: these external rules
are `CallsNext`, `RepliesNext`, `Reached`. A thread may give up (`GiveUp`: timeout, or the
client has gone) at any moment, an answer comes late or never. The answer to an import
restarts PLVS (`Relaunch`) when its delivery is confirmed.

The listener's callback looks at nothing of the run it belongs to, and a run that was
torn down while it registered stops its listener only when it goes on after `listen`
(useAgentControlBridge.js:324-326, 389-392). `TakenUpOnce` says what is left of "once": a
request is taken up when it is emitted, by the mounted run and by those that are still
registering, and never again.

The socket, the shutdown of the broker and the refusal of a request ID that is in
use are left out: IDs are distinct.

### AgentBridge

`queue` is the serialized lane, `phase` how far a request is. A mutation plans and arms a
slot in each domain it changes (`Plan`), writes the domains in turn (`Write`), returns
(`Applied`), waits until React has rendered what it expects (`Observed`, in `Commit`), waits
a second time, for the persistence of what was rendered to be enqueued ("enqueuing", which
`EnqueueTimesOut` may end: preset.js:296-302), and flushes (`Flushed`). The second wait is for
the state that was applied, so that a workspace which somebody has replaced in between
(`Persisted` says which domains belong to it) is never enqueued. `Commit` is React's commit with everything its watchers do in the same
turn: the revision, the batch, the slots. `Backstop` abandons a command; it goes on, with
its own identity against the batch of its successor. Waits and gestures go through the
direct lane. A domain holds the name of who wrote it last; an edit of the user is a name
too.

An edit changes a domain for good: that a user puts back exactly what a command had written is
left out.

Three history variables record where the code gives no promise, and each property exempts the
one that concerns it, no more (Observations): `displaced`, whether a gesture with
`expectedRevision` has begun a batch in place of the running command's; `unwoken`, the waiters
whose batch was replaced so, whose wake is lost; `robbed`, the commands whose slot another
running command has taken.

### LiveCapture

A *run* is one execution of the effect of `useAudioEngine.js`, from its mount to its
cleanup; its `init` goes through `Prepare`, `Begin` and the answer of `audio_start`. `view` is
`useCaptureTransport` with the refs of the effect, `posted` and `replies` the calls to the
engine, `source` the run whose `audio_start` the native session answers to. A change
of an input ends one run and begins the next in one action (`Rerun`, `Committed`), since
React runs cleanup and effect together. `Frame` is the first frame of a session, which commits
the pending generation of the measurement owner.

Assumed: Tauri's synchronous commands are carried out and answered in the order of the
calls; React runs the effect of a state change before the next event; `audio_stop` does
not fail (it does only when a lock is poisoned). Whether the start was by a user or by Agent
Control, and the file engine, are left out.

The first of these assumptions is also where `EarlierAnswered`, in the guard of `Begin`, comes
from. The calls that a run makes between its last look at `mounted` and `audio_start` are one
stage of the model, "configuring", so their order is stated instead: a run that was torn down
after that look has six calls to make (three settings, two listeners, `audio_start`;
useAudioEngine.js:249-298), the run mounted after it asks for the devices and then makes the
same six. The sixth call of the later run is posted after the sixth of the earlier one, so
that the earlier start is answered before the later run comes to `beginSession`. The margin is
one round trip for an explicit device, two when the device is previewed. Were
the engine to answer out of order, the late `abortSession` of the earlier run
(useAudioEngine.js:303) would end the pending generation of its successor, whose frames
would then be published under the generation before it.

## 3. Runs

| run | question | bounds |
| --- | --- | --- |
| `pair` | with everything allowed to happen, does a commit find its preparation, does capture come back, does everything end? | 2 workbenches, 1 operation, which `a` initiates; both crash; a user operates `b`, and may quit from the tray |
| `rivals` | do operations exclude one another, is the lock free after a crash, is everybody prepared for the same operation, and is a peer that a crashed initiator left prepared safe from the next one? | 2 rivals, the first may crash, the second may fail to acknowledge; a tray action; a third launched when the first has ended (`Succession`); 2 operations |
| `lease` | is the election fenced, and does somebody coordinate? | 4 workbenches, 5 generations, 3 faults |
| `gate_crash` | do sessions and installations exclude each other wherever something is killed? | 3 processes at a time, 2 helpers, kills anywhere |
| `gate_liveness` | does the gate open again and PLVS come back? | 3 processes, 1 helper, no kill |
| `library` | does anybody but an overtaken workbench overwrite a save unseen, or pair a revision with a document it did not have? | 2 workbenches, 1 item and a second to create, 2 edits, 1 fault |
| `library_overwrites` | see Findings | 2 workbenches, 2 items and a third to create, 2 edits, no fault |
| `bridge` | are waiters woken, revisions advanced once, answers true? | 2 mutations over 2 domains, one of them persisted, 1 direct request (a wait or a gesture), 1 edit |
| `broker` | who takes a request up, is no slot or wait left behind? | 1 place, an import and a wait, 3 runs of the effect |
| `updates` | is what is installed what was confirmed, and nothing kept against the user's will? | 2 releases, 2 checks, 2 changes of the preferences, 2 confirmations |
| `live` | does the lifecycle tell the truth, does every transition end? | 4 runs of the effect, 1 clear, any event at any moment |
| `live_stop` | see Findings | 2 runs, only a stop may come before the engine has settled |

Why the bounds are enough: the participant's code looks only at its own slot and
its own preparations, so two workbenches show every interaction of an initiator
with a peer; three are needed when what happens to one peer must hurt another (a
refused batch, a launch, an acknowledgement cleaned while another is awaited).
Two operations are needed for a preparation to outlive its own; a third adds
only what the second did. In the election four processes let one
crash at every stage and one still succeed; five generations are fewer than the
attempts possible, so that exhaustion occurs. In the gate a process that ends may be
launched again without limit; three at a time are a fresh session, a second one
that probes while the first runs and a third that waits for the admission. Two
helpers are needed for a file left by an earlier one to mislead a later one. The
three processes, and the two helpers, are interchangeable, and `gate_crash` uses it.

In the Library two workbenches show every race, since the code knows of no other
workbench but through the store; two edits are one to write and one to be overwritten,
the last item is the one created or the copy of a refused document. The overwriting takes one
edit of each workbench and one refresh in between, so two edits are enough for `overtaken` and
`spoiled` to come about; that nothing else comes about with more items and edits is proved
(section 6). The bridge runs one
command at a time and abandons one at a time, so two mutations are a command and its
successor; one of them changes both domains (`preset.apply`), the other a single one. The
third request is a wait or a gesture; a wait that meets a gesture, which is how a wake is lost,
needs a fourth. That makes 14 million states, more than the run has time for: the
invariants were checked once with four requests, and the proofs cover it. One
place in the broker is enough to fill it, a second request to be refused for it; three runs
of the effect are the one that is mounted and two that were torn down in the two waits,
whose listeners may both still be there. In the update controller every coroutine
exists once; two of each cause (checks, choices, confirmations, releases) are one before
and one after the other. Four runs of the audio effect are one that captures, one that
is torn down, one that takes its place, and one more that begins while both are under way.

`CHECK_DEADLOCK FALSE` is in the configurations of `Coordination` and `CoordinatorLease`
because the system may stop (all workbenches may have closed), and in those of
`AgentBroker`, `AgentBridge`, `UpdateController` and `LiveCapture` because their bounds use up
what may happen (every request answered, every check made, every run over). The update gate
and the Library are checked for deadlock: somebody is always able to start the program
again, or to refresh.

Fairness (used in `pair`, `lease`, `gate_liveness`, `bridge` and `live`). The initiator's code runs on
and its waits time out (WF of `DriverStep`); the 250 ms interval goes on while the
process lives (WF of `ParticipantStep`); each round of it ends in
`recoverExpiredPreparations`, whatever commands keep coming (SF of
`RecoverExpired`). `Acquire` and `Unlock` are weakly fair: a heartbeat tries every
2 s, and code that has begun ends. File operations fail at most `MaxFaults`
times. Users, launches and crashes are never assumed.
In the gate, code that can go on does (WF of `Starts`, `Confirms`, `Helps`), a process that
waits in a blocking lock gets it (SF of `Admit` and `Claim`: the operating system
serves who waits), and an installer that was started ends.
In the bridge the queue starts its next command and the backstop's timer fires (WF of
`Start` and `Backstop`); that a business function returns, that React renders or that a
flush ends is not assumed, which is what the backstop is for. In LIVE capture the main
thread carries out what was posted, its answers are handled and the awaits of a run
resolve (WF of `EngineStep` and of each `RunStep`); users, devices and frames are not
assumed.

## 4. Properties that hold

- `OneOperation`, `LockHeldByLeader`: exclusion, and a lock that follows exactly
  the operation on all the error paths.
- `OnePreparation`: never two preparations in one workbench.
- `UnanimousReady`: when `prepareGlobalOperation` has returned, every live peer is
  prepared for this operation.
- `CommitFindsPreparation`: `handleRuntimeCommand` never checks it, the protocol
  guarantees it, as long as acknowledgements can be written (`pair`, where `Faulty` is
  empty). A commit whose acknowledgement fails stays in its slot and is handled
  again, the second time without the preparation that the first has forgotten.
- `CaptureResumedWithoutCommit`: until a commit is issued, no refusal, timeout,
  crash or rollback costs a user the running capture. (In both runs either no
  acknowledgement fails or the tray does not quit; see the observations.)
- `OperationsEnd`, `PreparationsEnd`, `MailboxDrains`.
- `DescriptorIsCoordinators`, `SomebodyCoordinates`, and `Fenced`, the refinement, from which
  `DescriptorAdvances` follows.
- `FenceSpec`, the refinement, which says `ExclusiveInstall` and `OneFresh` as one atomic
  object.
- `AbortSparesInstaller`: killing a helper is safe at every point at which a
  coordinator may still do so, whatever markers and tickets lie about.
- `EntryFreed`: nobody who refuses to close locks later launches out.
- `Reopens`: after the commit phase, in which peers close, PLVS runs again, on every
  path of refusal, timeout and failure.

- `OnlyOvertakenOverwrite`: no write removes an edit its workbench has not seen, through
  drains, conflicts, copies, reloads and failed calls, but that of a workbench whose work an
  answer was taken over; and what such a workbench does to one item misleads no other
  workbench into overwriting another item. `BelievedIsStored`: what a workbench that was not
  overtaken takes for saved, and will not send again, the store holds, in spite of
  hydrations in several queries, unless an overtaken one dropped it.
- `WaitersAwake`, `CommandAdvancesOnce`: the batch of a command holds its waiters back,
  wakes them at its end, and is nobody else's, whatever an abandoned command does late;
  except for the waiters (`unwoken`) and the command (`displaced`) of a batch that a gesture
  has replaced.
- `SuccessWasRendered`: "ok" was rendered. `NotObserved`: a command that reports
  `commitNotObserved` was not seen rendered as a whole, or what it had put in the workspace
  has been replaced since, although slots are per domain; except for one whose
  slot another command took (`robbed`).
- `QueueMoves`: a command that hangs does not stop the queue.
- `TakenUpOnce`, `BrokerKnowsListener`, `NoOrphanWait`, `RelaunchAfterDelivery`: a request
  is taken up once, by the mounted run and those that were torn down while they
  registered; the broker knows whether it is heard, a wait whose client has gone is
  cancelled, and no import restarts PLVS under a client that has no answer.
- `InstallsWhatWasConfirmed`, `ConsentWithdrawn`, `NothingLeftPrepared`, `OfferedIsCached`:
  the last is not obvious, since a check, a transfer and a revocation each change the
  offer and the cache at moments of their own.
- `RunningIsCapturing`: *running* is a native session that captures for the mounted run and
  will be stopped by the next stop. `OneSessionPerGeneration`: no generation of the
  measurement names records of two sessions. `TransitionsEnd`.

`TypeOK` of `Coordination`, `UpdateGate` and `UpdateController`, `DescriptorAdvances`,
`ExclusiveInstall` and `OneFresh` are proved (section 6) and not run again.

## 5. Findings

Two runs end in a counterexample; the model shows the code doing something other than
what the repository says.

1. `live_stop`: a stop while capture is *starting* cleans the effect up before `audio_start`
   has answered. `audioRef` is still null, so the cleanup posts no `audio_stop`
   (useAudioEngine.js:327-332); the next run finds no stop in flight and marks the
   transport stopped (150-168); the run whose start then succeeds is no longer mounted
   and only releases its listeners (301-305). The lifecycle is *stopped* and the native
   session keeps the microphone open, until the next `audio_start` replaces it. The transport's
   comment (useCaptureTransport.js:15-16), its test ("settles stop after native shutdown")
   and docs/prd.md:143 say otherwise. The same happens with a file source, a start, a
   device or a format in place of the stop; under a failure or a clear alone it does not.
2. `library_overwrites`: `applyRemoteCollection` takes over documents and revisions
   before it looks whether the domain is dirty (multiInstanceBackend.js:333-338). An edit
   that waits for the drain (200 ms) keeps its old document and is sent with the revision
   of the save that just arrived, so that it overwrites that save without a conflict: the
   exemption of `OnlyOvertakenOverwrite` is not vacuous.
   docs/user/system-settings.md:352 promises that this never happens silently.

### Observations without a run

The rest was seen while the models were written, in traces or in the code.

*Identity-wide operations.*

- A workbench that was starting an operation of its own answers *ready* with its capture
  stopped, then loses the race for the lock and restarts its capture; the commit closes
  it while it captures (coordination.js:136-140, 204-212, 240; ADR 0008:27-29 wants every
  workbench stopped).
- The participant forgets its preparation before it acknowledges a commit. If the commit
  times out and is replaced at that moment, the process stays and the abort has
  nothing to restart (coordination.js:138; ADR 0008:29-30): `CaptureResumed` fails, and
  `CaptureResumedWithoutCommit`, which holds, is the same up to the commit.
- `quitInstance` stops capture before it acknowledges. When that acknowledgement cannot be
  written (coordination.js:100, outside the `try` of lines 94-99), the failure is
  acknowledged in its place: the process stays, and what it was capturing stays stopped.
  `CaptureComesBack` is proved under `QuitsOnce`, which excludes this case and no other.
- An abort is refused as a whole when one target is gone (coordinator/mod.rs:389-393), so
  the slower peers of a partial commit close although the initiator aborted.
- Cleaning up a closed peer deletes its acknowledgement (`discard_instance`), so that a
  commit to two peers may time out although both closed.
- An import leaves its operation prepared until the restart that follows its answer
  (persistence/profile.js:60-66, 102-115); if the answer is not delivered there is no
  restart, and the initiator keeps the lock and its stopped capture.

*Update.*

- The recorded installer of a killed helper keeps new launches out only through
  `check_abandoned_attempt`, which runs before the gate (update_runtime.rs:78-79); a
  launch that checked earlier and then waited for `admission.lock` enters while the
  installer works (docs/architecture.md:138).
- A workbench runs from the moment it holds `running.lock` and is registered much later
  (lib.rs:355, 386); the snapshot of a startup installation misses one in between,
  against the comment at update_runtime.rs:488.
- `remove_helper_files` runs after `enter` has let go of the gate (`Tidy`), so that it may
  delete the ticket of a helper which a second workbench has spawned by then.
- A check that is in flight when consent is revoked during a confirmation leaves
  `checkStatus` at "checking", and Check disabled, until the next start
  (updateController.js:115, 165).
- A transfer that was revoked and allowed again may leave a package in the cache that is
  not offered before the next start.

*Shared Library.* Besides an edit that waits ("waiting", finding 2) there are two more things that
an answer can be taken over, and TLC found with four edits:

- A refresh reads the items before, and the revision after, a save of another workbench.
  Before it is answered a resolution reloads the same revision with the right items, and a
  drain sends a replacement of the collection. The answer of the refresh differs from what is
  believed at an equal revision (multiInstanceBackend.js:328-334), so that the old items are
  shown again; the answer of the replacement then makes its revisions theirs, and the next edit
  is written over the other workbench's save ("writing").
- The copy of a refused document is joined to what is believed to be stored, and that is shown
  (multiInstanceBackend.js:429-444): an edit that a drain is writing at that moment disappears
  from the cache, is taken for stored, and the next edit writes the document without it ("writing").
- A refresh that arrives between the creation of the copy and its answer already holds the
  copy, which is then appended a second time: the cache has two documents with one ID, and
  the next reorder or replacement is refused for it (library.rs:336-343, 424-428) ("copying").

*Agent Control.*

- With three installations of the bridge in quick succession two listeners are there for a
  moment, the new one and that of a run which was torn down while `listen` was on its
  way, and both take a request up: it is carried out twice. The test
  (useAgentControlBridge.test.jsx:2219) tears down one run before its `listen` resolves,
  and emits nothing in between.
- A gesture with `expectedRevision` (`measurement.resetHold` and its like) on the direct lane
  begins a batch in place of the running command's, whose wake is then lost until the
  next change (revisionClock.js:64-67): why `WaitersAwake` leaves out `unwoken`, and
  `CommandAdvancesOnce` leaves out `displaced`.
- An abandoned command and its successor on the same domain share a slot; the one that is
  replaced times out and reports `commitNotObserved` though it was rendered
  (settlement.js:67-72): `robbed`.
- `preset.apply` answers `commitNotObserved` also after it was rendered, when its workspace was
  replaced by an edit before its persistence was enqueued (preset.js:296-302):
  docs/user/cli.md:585 says of it that "the state was written but the app was not observed to
  render it in time". Hence the second half of `NotObserved`.

*LIVE capture.*

- The promise of a start is not answered when the source is switched to a file while it is
  starting; a Start right after leaving a file may be undone by the `markStopped` that
  the earlier stop still owes (useAudioEngine.js:161-166).
- The `catch` of `init` does not look at `mounted` (318-324): the failure of a run that was
  torn down halts its successor.

## 6. Proofs

`CoordinationProofs` holds for any sets of workbenches and operations and any of the other
constants, from `CoordinationAssumption` (the subsets are subsets, and no operation is the
absent one) and `NoTaskAssumption` (no task is the absent one); the last three theorems
name what more they need.

- `TypeCorrect`: `Spec => []TypeOK`, a lemma per group of actions.
- `LockFollowsLeader` and `MutualExclusion`. `OneOperation` is not inductive: two
  leaders are impossible only because each holds a lock of which there is one.
  `LockInv` says that who leads holds the lock, who holds it leads with that
  operation, and there is one holder. Every action is shown to be a `LockStep`:
  it keeps the lock and the lead, takes the free lock, or drops both; one lemma
  shows that lock steps keep `LockInv`. A refused request also calls
  `runtime_finish_operation`; that this does not release another's lock is
  where `require_owner` is needed.
- `SinglePreparation`. `OnePreparation` alone is not inductive either, since
  `Flushed` adds a preparation without looking. `PrepInv` adds that while a
  prepareGlobal is being flushed there is none.
- `CaptureComesBack`. Whoever stops what a workbench captures keeps a note of it (`Notes`):
  a preparation, a task that flushes, or the operation the workbench leads. `ResumeInv`
  says that what the user has started is captured or noted; each step is shown to hand
  the note on or to restart capture. Two facts are proved first: until the first commit
  none is in any slot, task or batch (`UncommittedInv`), and a quit that is being handled
  stays in its slot, where no other command may replace it (`TaskInv`). `QuitsOnce`, no
  quits or no failing acknowledgements, is needed (see the observations).
- `PreparedTogether`, with `Prompt`. `TrafficInv` relates the drivers, slots, tasks and
  acknowledgements through the operation ids, which are drawn once: what is on its way
  for an operation was sent by the workbench that leads it (`OperationInv`, `MailInv`), and
  who waits has issued its batch to all its peers (`BatchInv`). `UntoldInv` then says that
  as long as the leader has sent a peer neither the commit nor the abort, nothing but
  prepareGlobal of the operation is in the peer's slot or hands, a "ready" that it says
  or has said is true, and a peer that has been promised to the caller is prepared. One
  lemma (`CleanStep`) shows that no step of whomever takes this from a peer, one
  (`GoesOn`) what the leader's own steps may do, and one (`ForeignSlots`) that the others
  write for operations of their own. Without `Prompt` the 30 s lease may run out first.
- `CommitsArePrepared`, with `Prompt` and no failing acknowledgement: a commit in the slot of
  a workbench that runs finds its preparation or is being handled (`CommitInv`); it is
  written only for a peer that `UntoldInv` has prepared. When an acknowledgement fails the
  property fails too: the commit is handled again after coordination.js:138 has
  forgotten the preparation.

`CoordinatorLeaseProofs` holds for any set of workbenches and any bounds. `LeaseInv`
says who owns the lock file, that the generation on disk is ahead of what was ever
established, and that the descriptor is of the past or of the coordinator.

- `LeaseTypeCorrect`, `DescriptorFaithful`, `DescriptorMonotone`.
- `ElectionFenced`: `Spec => Fenced`. Writing the descriptor is an election, the
  resignation or crash of a coordinator a retirement, all else stutters.

`UpdateGateProofs` holds for any sets of workbenches and helpers and any `CrashSteps`,
without an assumption on the constants. `GateInv` is `TypeOK` with:

- `Serialized`, `EntryExclusive`, `RunningExclusive`: the admission has one holder, and the
  shared and exclusive holders of the other two locks exclude each other. The last
  is not obvious for the lock itself: `Share` waits for an exclusive owner, and the proof shows
  that it never has to, since nobody can own `running.lock` while a workbench holds the
  entry, its owner owning the entry too;
- `ProbeHolds`: what a probe saw is still so when the lock is taken, because the
  prober alone is admitted; from it `FreshAlone`, and `OneFresh`;
- `InstallerAwaited`: the installer of a living helper runs only while the helper waits
  for it under the lock; from it `ExclusiveInstall`;
- `CoordinatorRuns`: a confirmation belongs to a workbench that is open.

Most steps give locks up or take none (`Withdraws`), and one lemma deals with them
all. `HandshakeInv` is a second invariant, for `AbortSparesInstaller`: a nonce is new when
its helper is spawned, and during a confirmation the ticket is the last one
written and its marker is not.

- `GateTypeCorrect`, `InstallExclusive`, `FreshUnique`, `AbortIsSafe`.
- `FenceKept`: `Spec => FenceSpec`. `Share` begins a session, `Ends` ends one, `WaitClosed`
  begins an installation, and its end is `Settle`, `NotClosed` or a crash.

`UpdateControllerProofs` holds for any set of versions and any bounds, from
`UpdateControllerAssumption` (versions are positive, the absent one is not a number).
`ControllerInv` is five facts, each kept by every step because of the ones before it:

- `Shapes`: the types, and what a job can be in each phase;
- `Owned`: which coroutine a transfer belongs to, a check or an installation; a promoted
  transfer changes its owner in one step, and `TypeOK` follows;
- `Staging`: what of a helper and of an operation exists at each stage of
  `confirmInstall`, its failing stages included; from it `NothingLeftPrepared`;
- `Frozen`: the version agreed on is the one in the ticket, as soon as there is one;
  from it `InstallsWhatWasConfirmed`. The ticket is drawn from the cache, which may have
  moved on, and `load` compares;
- `Disowned`: a withdrawal that was carried out has taken `live` away from every automatic
  transfer that had fetched and not published; `ConsentWithdrawn` is part of it, and not
  inductive alone, since `Publish` would break it.

- `ControllerTypeCorrect`, `InstallsConfirmed`, `ConsentIsWithdrawn`, `LeavesNothingPrepared`.
- `OffersAreCached`, from a second invariant on top of these, `OfferedInv`: update_cancel is
  under way only for a withdrawal of consent (`CancelInv`), an automatic transfer has been
  revoked or is still wanted, and after a revocation there is no offer until it is over
  (`RevokedInv`); then the offer is in the cache unless the answer that will change it is
  on its way (`OfferInv`).

`AgentBrokerProofs` holds for any requests, any capacity and any number of installations of
the bridge, from `AgentBrokerAssumption`. `BrokerIInv` is:

- `EffectInv`: the runs of the effect, whose calls and replies are under way in the order of
  their mounts; one run announces itself at a time, and a broker that believes in a
  listener has a mounted one or a retraction on its way. From it `BrokerKnows`: once the
  calls are done, the broker knows, however often the bridge was installed;
- `BrokerInv`: what the broker holds, whose client waits and what is in each channel
  exclude one another; from it the bound of the pending map (`BrokerTyped`) and
  `RelaunchIsAfterDelivery`;
- `PageInv`: a request is emitted once and before its cancellation; what runs was taken up
  and not answered. From it `TakenUpOnceHolds`;
- `ReachInv`, `CancelInv`: the cancellation reaches every listener that the request
  reaches, and it is on its way for every wait whose client has gone: `NoOrphanWaits`.

`AgentBridgeProofs` holds for any requests, domains and bounds, from `AgentBridgeAssumption`
(the absent value and the user are not requests). Its invariant has three parts:

- `LaneInv`: the queue holds every command once, and only its first has been touched;
- `ClockInv`: a batch that has advanced the revision did so once and owes a wake, it is the
  running command's unless that was displaced, and whoever waits, and was not left unwoken,
  does so for the present revision or for the one that the owed wake will announce:
  `WaitersAreAwake`, `CommandsAdvanceOnce`;
- `SlotInv`: a slot names a command that observes the domain and has not seen it yet, what
  was settled was shown, and who flushes has seen everything it changed:
  `SuccessesWereRendered`; what a command wrote does not come back once it is replaced
  (`GoneInv`), and a command that was not robbed has the slot of whatever it still awaits
  (`MissedInv`), so that in whichever of its two waits it gives up it is right:
  `MissesWereNotObserved`; with the types `BridgeTyped`.

`LiveCaptureProofs` holds for any number of runs of the effect and any of the events in
`Interrupts`, from `LiveCaptureAssumption`. `LiveInv` is:

- `StageInv`: only the run that began last is mounted or has the start of a session to
  itself; the runs before it have come to their end by then;
- `WireInv`: one start at a time is on its way (`MessageInv`) and nothing follows that of the
  mounted run, so that what it is answered is still true of the native session when the
  page hears of it (`MountedInv`); what is held, or was stopped, was started by then
  (`HeldInv`). From it `RunningCaptures`;
- `OwnerInv`: a generation is pending only while a start is asked for (`PendingInv`), no record
  is of a generation to come, and those of the present one are of the run that publishes
  (`LabelInv`). From it `GenerationsAreSessions`; `CaptureTyped` follows from all three.

`SharedLibraryProofs` holds for any workbenches, items and bounds, from
`SharedLibraryAssumption` (no item is named twice) alone: every answer arrives at any moment, as in
the code. `TypedInv`, with `ResolvesOnce` (only a resolution that hydrates has a hydration of its
own), gives `LibraryTypeCorrect`. For the two promises there is `LibraryInv`:

- `ToldInv`, `HeardInv`: whatever a workbench remembers of an item with its revision (believes to
  be stored, has been told of by a call, has listed) *tells* of the store: the store is at that
  revision and has that text, or is at a later one and contains it (`Tells`). It is kept for
  documents read before any number of writes, which is why reading the items and the
  collection's revision apart does no harm. From it `BelievedWasStored`;
- `CopyInv`, `SentInv`: what is shown, and what a call sends, contains what is believed
  (`Grown`), and the call names the document that it changes. This is what an answer that
  arrives in between destroys, since it moves what is believed and not what is sent;
- `Fresh`: an ID that the store does not know yet is known to one workbench alone, and the copy
  of a refused document is none of the documents (`CopyApart`). Without it
  the revisions of an item could begin again, and an old revision would be accepted.

All but `HeardInv` and `Fresh` are about the workbenches that were not overtaken (`Sound`), and
`Tells` leaves out the items that were spoiled. What keeps the damage where it is: an answer
taken by a workbench at rest makes all of `Sound` true again from what was listed
(`AnswerKeeps`), an overtaken workbench writes only what it holds (`Holds`), and an item
that its write has not dropped an edit of still contains what others remember of it
(`OvertakenWrites`).

Each accepted call of a sound workbench is shown to be one that `Takes` nothing away (a lemma per
operation), and `TellsKept` that such a write keeps what all the workbenches remember; an update
whose revision is the store's has, by `Tells`, the store's text: `NothingOverwritten`.

Only model-checked: all liveness properties (`OperationsEnd`, `PreparationsEnd`,
`MailboxDrains`, `SomebodyCoordinates`, `EntryFreed`, `Reopens`, `QueueMoves`,
`TransitionsEnd`), fairness being outside the prover.

## 7. Not modelled, and the plan

Not modelled: wall-clock time (leases and timeouts are nondeterministic), the
content of commands, presets and profiles, platform I/O, audio streaming, DSP and
presentation. With `Prompt = FALSE`, an initiator slower than 30 s, `UnanimousReady`
does not hold by the design of the lease.

Of the modelled components: the delete branch of `replace_collection` for themes, the
globals and the workspace domains of the persistence backend; the socket, the shutdown
and the duplicate IDs of the broker; the handlers of Agent Control other than Preset
application, waits and gestures, which differ in what they change, not in how they
settle; the file engine and the source mode; signatures and package files of updates.

Next, in this order:

1. `WorkspaceRestore` (registry, leases, grants, restore set, reconciliation);
   abstract promise: one owner per workspace.
2. `RecordingRegistry`: the end of a recording, once, with one reason.
3. `RingBuffer` and `ChunkedSequence` as operators against a sequence.
4. An abstract `GlobalOperation` (prepared by all, then committed or aborted), implemented by
   `Coordination` up to the observations, and used by `UpdateGate` and `UpdateController` in
   place of their barriers.
5. The deletion of themes in `SharedLibrary`, the shutdown in `AgentBroker`.

Proofs planned: single ownership of workspaces, the refinement of `GlobalOperation`.
