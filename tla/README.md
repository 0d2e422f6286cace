# Verification of bestie

Bestie is a terminal coding agent: a user talks to a model, the model calls
tools, and the tools run commands and edit files on the user's machine. The
application is written in Dart. Except for a few worker isolates it runs on one
event loop, as async handlers, streams and state machines (`LogicBlock`s).
Beneath it are native Rust programs: `bestie_edit`, which changes files under a
lock, and the spawner with its confinement guard, which starts sandboxed
commands. This directory holds TLA+ models of the parts where the *order* of
steps matters, the TLC configurations that check them on small instances, and
theorems that hold for every instance.

Paths below are relative to `src/packages/`; `PROJECT.json` maps each definition
to the lines it stands for.

## 1. Inventory

### The system and how its parts interact

```
 chat view / chat use case ──── submit, cancel, compact, clear, load, rewind
            │
 AgentRepository ── bindProvider, swaps of the history, subagents, job reports
            │                                  ▲
 AgentSession ◄── JobReportDeliveryLogic ◄─────┤ deliverReport
   │  TurnProjector, PendingToolCalls,         │
   │  AgentJournal                             │
   │                                           │
   ├─ runs ─► agents of RemoteAgentProvider    │
   │           (RemoteTurnLogic, HTTP stream)  │
   └─ starts ─► tool router ─► responders ─► jobs ─► ToolWorkerPool ─► isolates
                                        │
             ┌──────────────────────────┼──────────────────────┐
             ▼                          ▼                      ▼
        bestie_edit               shell sessions          files, web
   (flock, temporary file,              │
    rename)                       spawner helper ─► child ─► bestie_guard ─► exec
                                   (status pipe)      (Landlock / Seatbelt)
```

Calls go down as method calls that take effect at once and answer later; events
come up over broadcast streams that deliver one event per microtask; the
settlement of a job comes up as a callback. `bestie_edit` takes a request on its
command line and stdin and prints a reply; many runs of it may be alive at once.
The spawner talks to the application over pipes.

| Component | State it keeps | Operations | What is hard | What makes it correct | Here |
|---|---|---|---|---|---|
| Tool worker pool (`ToolWorkerPool`) | queue, running calls with lanes, warm and busy isolates, spawns under way, size, closed | `run`, start resolves or is refused, spawn answers, worker replies, `stop`, resize, `close` | each `await` may resume after a stop, a resize or a close | no call lost, lanes in order, size respected, no slot leaked, every call answered | **modelled, proved** |
| Agent session (`AgentSession`, `TurnProjector`, `PendingToolCalls`, `InterruptedToolReconciler`) | active turn, mirrored entries, open calls and answers, jobs to note, pending cancel, journal | begin a turn (user, compaction, report), every runtime event, cancel, dispose, load a journal | events of a turn that is over, joins across awaits, a turn cut off anywhere | committed history well formed; session and runtime agree; turns end | **modelled (primary's), proved but for the shape of the history** |
| Agent runtime (`RemoteAgentProvider`, `RemoteTurnLogic`) | turn record, state, goal, transcript, step in progress | `run`, `submitToolResults`, `submitCompactionPrompt`, `cancel`, stream events, teardown | cancel between any two events; teardown after the next turn | never continues with unanswered calls | **modelled (one agent)** |
| Report delivery (`JobReportDeliveryLogic`) | state, pending, batch in flight, bound agent | report settles, agent bound, agent idled, delivery resolved | a batch is refused while others arrive | every report once, in order | **modelled, proved** |
| Subagents (`AgentRepository`) | roster, their sessions, settlements, backlogs of reports, calls of `bindProvider` under way | dispatch, refusal, end of a turn, stop, report, clearing, drain | several loops over one roster that await inside; a settlement races the agent's own report | what is marked running is driven and settles; only the bound provider's agents run | **modelled, proved** |
| Agent repository | sessions, provider, roster, journals | bind, load, clear, rewind, reports | awaits in the middle of swaps | one history swap at a time, none mid-turn | swaps, binds, reports |
| `bestie_edit` program | lock file, temporary file, target | lock, look, write, sync, rename, remove, unlock; text replacement, diff | runs that contend; kill or power failure between any two calls; the lock file's name changes hands | one writer at a time; each request at one instant or not at all; permissions kept | **modelled, proved** |
| Native spawner | fds and stages of helper, child, target and descendants; pipes; application's side | fork, set up stdio, read the grants, confine, exec, report pid and status, kill, close | any call fails; supervisor killed; pipe ends that keep each other open; frames in halves | starts as asked or not at all; what is reported is true, unless the application could not read it, and arrives | **modelled, proved** |
| Confinement guard | the child's progress through its own confinement | wire program, Landlock calls, Seatbelt profile | order of the calls, each may fail; last rule that matches wins | enforced exactly as granted, or no exec; on a kernel without Landlock only the tier's own calls | **modelled, proved** |
| Chat use case and chat state | commands' gates, view states | availability and invocation of each command | a gate asked before an await | gates hold when acted on | gates only |
| Tool routing, settlement, jobs | open requests, jobs, output | request, settle, hand off, report, stop | settlement against abandonment | each call answered once | as the session's environment |
| Conversation journal | entries, write queue | append, load, truncate, save | writes dropped, two journals on one file, crash | what is shown is stored | its content only |
| Provider session | attempt counter, probes | configure, probe answers | stale probe | only the latest attempt counts | planned |
| Isolate worker | requests by id, shutdown | run, cancel, close, kill | kill with requests in flight | each request answered | planned |
| Shell sessions | session state, terminal | spawn, exit, restart, dispose | dispose during a spawn | no orphan terminal | planned |
| Sandbox readiness, write access | readiness state, queue of asks | request, grant, withdraw | ask withdrawn while answered | one ask shown at a time | planned |
| Configuration, lowering of policies to grants, terminal emulation, tools, views, prompts | little or none that is shared | one request, one answer | parsing and rendering rather than order | – | not modelled |

`PROJECT.json` also lists the hazards, the places where a test would hardly reach
what can go wrong, each with its line and the properties that cover it or the
reason none does.

### Concurrency in this code

* In Dart a handler runs to its end. Between two handlers anything may happen, so
  one handler is one action here, with everything it calls.
* An `await`, `unawaited`, `scheduleMicrotask`, a broadcast stream's delivery and
  a LogicBlock's state stream all leave a task for later. `EventLoop` keeps those
  tasks as a first-in-first-out queue.
* Input from outside (keys, network, files, isolates, tools) is taken only when no
  microtask is left.
* The Rust programs are processes: one action is one system call that another
  process, a kill or a power failure can come before or after. Calls nobody else
  can observe are merged with the one that follows.

## 2. The modules

| Module | Stands for | Used by |
|---|---|---|
| `ToolPool` | `bestie_tools_use_case/lib/src/worker/tool_worker_pool.dart` | `MCToolPool`, `ToolPoolProofs` |
| `EventLoop` | the microtask queue and the agent's event stream | `RemoteAgent` |
| `RemoteAgent` | `agent_provider_remote`: provider, turn logic, teardown | `AgentSession` |
| `ReportDelivery` | `subagent_report_delivery.dart`, one operator per input | `ReportBuffer`, `AgentSession` |
| `AgentSession` | `agent_session.dart` and what it owns, wired to the two above, the repository's swaps and the chat gates | `MCAgentSession`, `AgentSessionProofs`, `AgentHistoryProofs` |
| `ReportBuffer` | the buffer with an environment that may do anything | `MCReportBuffer`, `ReportBufferProofs` |
| `ReportMailbox` | abstract: what is promised of reports | refined by `ReportBuffer` and `AgentSession` |
| `Subagents` | the roster of `agent_repository.dart`, its settlements, and overlapping calls of `bindProvider` | `MCSubagents`, `SubagentsProofs` |
| `EditLock` | `bestie_edit/src/lock.rs` | `EditFile`, `MCEditLock`, `EditFileProofs` |
| `EditFile` | `main.rs`, `edit.rs`, `create.rs`, `disk.rs`: a run of the program on one path, on top of `EditLock` | `MCEditFile`, `EditFileProofs` |
| `AtomicFile` | abstract: a path on which requests happen at one instant | refined by `EditFile` |
| `EditText` | the replacement of `edit.rs`, as a function | `MCFunctions`, `GuardProofs` |
| `EditDiff` | the hunks of `diff.rs`, as a function | `MCFunctions`, `GuardProofs` |
| `Places` | sets of places in a sequence, in order | `EditText`, `EditDiff`, `ConfineWire` |
| `Spawner` | `spawner/src/main.rs`, `supervised_spawn.dart`, `status_channel.dart`, `read_loop.dart` | `MCSpawner`, `SpawnerProofs` |
| `SpawnerArgs` | the helper's command line and the one built for it | `MCFunctions`, `SpawnerProofs` |
| `ConfinePolicy` | `bestie_guard/src/policy.rs`: what a policy means | `ConfineWire`, `Landlock`, `Seatbelt` |
| `ConfineWire` | the grant program: `wire.dart` writes it, `wire.rs` reads it | `MCFunctions`, `GuardProofs` |
| `Landlock` | `bestie_guard/src/landlock.rs`, call by call | `MCLandlock`, `GuardProofs` |
| `Seatbelt` | `bestie_guard/src/seatbelt.rs`: the profile, and how the kernel reads it (external) | `MCFunctions`, `GuardProofs` |
| `MCFunctions` | the pure functions over every small input, one initial state each | `GuardProofs`, `SpawnerProofs` |

### ToolPool

A variable is a field of the class (`_waiting`, `_running`, `_idle`, `_busy`,
`_spawning`, `_size`, `_closed`) or the future a handler is suspended on
(`preparing`, `ready`). A call is its position in the order of `run()` calls, so
the queue is a set and "earlier" is `<`. An action is a handler *with the `_pump`
it ends with*: `Run`, `Prepared`, `Refuse`, `Spawned`, `SpawnFailed`, `Reply`,
`Stop`, `Resize`, `Close`, and `Exit` for a terminated isolate that is gone.
`serving` is not a field of the pool: it is what each isolate executes, which is
what `LaneExecutesAlone` needs to see.

`Pump` says which calls start in one formula (the first startable calls take the
warm workers, the next a spawn each while there is room). `Loop` is
the loop as it is written, and `LoopStartsWhatPumpStarts` says that the two agree,
for every count of warm and live workers.

### AgentSession

`EventLoop!After` ends every handler: it puts the tasks the handler left, and the
events it added, in the queues. A `does` record names the continuation:

| Task | Continuation |
|---|---|
| `deliver` | next event of the agent's stream to `_onEvent` |
| `teardown` | `_scheduleTeardown`'s microtask |
| `resume` | `_runTurn` after waiting for a pending cancel |
| `ran` | `_runTurn` after `run()` answered, `_rejectTurn` included |
| `joined` | `_submitTools` after its join resolved |
| `idled` | the repository's listener on the session's state |
| `resolved` | the buffer's continuation after a delivery turn was begun or refused |

How many rounds a Dart continuation really takes depends on how many `async`
frames it crosses. A continuation may therefore be put back up to `MaxHops` times
(`Hop`), so the order between continuations of one handler is not taken for
granted. `deliver` and `teardown` are microtasks of their own and are not delayed.

The session's variables are its fields (`active`, `mirror`, `folds`, `turnJobs`,
`pendingCancel`, `answers`, `open`), the join it waits for, and the state of each
call's request (`request`) and of the work behind it (`work`). The runtime's are
`turn`, `phase`, `goal`, `said`, `step`. A transcript is a sequence of entries
(user, model with its calls, answer, summary, report, job row); text, usage and
model names are left out. How full the context is decides when a step folds
first; here every step may.

Where the code is left in the middle: `Cancel` is the whole of `cancel()` up to
its answer, because the runtime's `cancel` changes the turn before it awaits
anything. `Loaded` is apart from `BeginSwap` because a file is read in between.
`Attach` and `Detach` are single steps here; calls of `bindProvider` that overlap
are `Subagents`' subject.

### Subagents

One action is one event with all the microtasks it leads to, up to the write of a
journal that `dispose` awaits. Only at those writes do other events come in
between, so the loops of `clearSettledSubagents` and `_drainSubagents` are split
there: `at` says how far each loop is, `stale` which loops' iterator has been
spoilt by a change of the roster (Dart then throws). `bind` is the progress of each call of
`bindProvider`, `records` the agents each provider still has, `released` the
providers disposed of.

What is assumed: starting an agent of the remote provider takes no real time; a
subagent is dispatched only by a live primary's turn; a reload disposes of the
attached provider in the event that calls `bindProvider(null)`; parked calls come
back in the order they were made, one file being written one write at a time; a
provider is attached only where there was none, or where it is attached already
(`SubagentsAssumption`: `provider_repository.dart:62-77` announces a reload with
`null` before the old provider goes, and attaches the next one after); one
`clearSettledSubagents` runs at a time; and between the end of its parking and its
first write a call waits for microtasks only (`OnItsWay`).

### EditLock, EditFile and AtomicFile

A run of `bestie_edit` opens (or makes) a lock file beside the path, takes an
exclusive `flock`, and looks whether the name still leads to the file it locked; if
not, it goes round. The holder removes the lock file by its name before it
unlocks. `EditLock` has inodes, the name, the holder of each inode's lock, and
where each run is. Any call may fail (`Refuse`) and a run may die anywhere
(`Die`), which releases its lock but leaves the file. A look at the name that fails
is taken for a name that leads elsewhere: the run goes round (`LookFails`). A removal
that fails is ignored (`RemoveFails`).

`EditFile` adds what the holder does: look at the target, create, write and sync a
temporary file, set its permissions, rename, and remove it after a failure. The
temporary file's name carries the process id, which may be given again after a
kill (`PidOf`). `saved` is what is on disk: a power failure ends every run and leaves
the path as it was on disk, with a `Torn` text where a file's contents were never
synced. Texts are counts of tokens; the characters are `EditText`'s. `failed` records
the errors a run ignores: of removing its lock file or its temporary file, and of a
create's look. `create.rs:28` asks only whether that look succeeded, so any error
counts as nothing there (`LookFailsToCreate`), and the rename then replaces whatever
is there but a directory. A confined run can meet that: the macOS profile masks reads,
metadata included, under a denied path and leaves a grant to write as it was
(`seatbelt.rs:80-83`).

`AtomicFile` is the promise: a request takes effect at one instant, as if no other
run existed, or is refused with nothing changed; the reply says which. A create that
cannot look (`blind`) is promised less: it may replace what is there. `EditFile`
implements it with the target as `content`.

### Spawner and the guard

`Spawner` follows each end of each pipe through four processes: the helper (which
becomes the supervisor), the child (which becomes the target), the target's
descendants and the application. `fds` says what each has open; a pipe is at its
end when nobody holds its writing end. The grant program is `Pieces` long and the
pipe holds `PipeRoom`, so the writer blocks; a frame is `FrameBytes` bytes, so a
reader may see half of one. `WaitMayFail` stands for a parent that left `SIGCHLD`
ignored, where `waitpid` can fail for good. The application's reads may fail too, and
neither reader tries again: a status that cannot be read is told as lost at once
(`ReadStatusFails`), an output that cannot be read ends (`ReadOutputFails`). `failed`
says which did.

`Landlock` takes one step for each system call of the backend, in the order of the
code. What is enforced is read off the rules added and the tier's set-up, and compared
with `ConfinePolicy`. The calls of the network tier fail when the kernel lacks what
they need. The ruleset is made by the `landlock` crate (external), whose default is
best effort, and `landlock.rs` does not look at the status it returns: on a kernel
without Landlock the ruleset is `Inert`, each of its calls succeeds and the child goes
on with nothing enforced. On a kernel with Landlock its calls may fail. The rights
handled are those of ABI v1, without the one to truncate a file by name, so truncating
is free. In the application `probes.dart:35-43` looks for `landlock` in the kernel's
list of security modules before the backend is used; that is not modelled, so a kernel
without it is among the kernels here.

`Seatbelt` builds the profile; the kernel's rule, that the last rule
that matches wins, is external.

### ReportMailbox and what refines it

The abstract mailbox has two sequences, `waiting` and `handed`: a report is posted
once, waits, and goes over in batches in posting order. `ReportBuffer` maps
`waiting` to `inFlight \o pending` and `handed` to the reports whose turn was
taken. `AgentSession` maps `handed` to the reports that stand in the *history* of
the conversation, so there the refinement says that the entry is written exactly
when the turn does take place. This ties the buffer, the session's guard and the
journal together across several microtasks.

## 3. What the runs check

| Run | Instance | Shows |
|---|---|---|
| `tool_pool` | 3 calls, 1 lane and none, 3 workers, sizes 1 and 2 | the pool's books (the inductive invariant), lanes in order, growth within size, every call answered, a closed pool drains, and `_pump`'s loop starts what `Pump` says |
| `session` | 2 calls, 2 user turns, 1 reload, 1 hop | tool barrier exact, job rows kept, mailbox implemented |
| `session_swaps` | 1 call that runs, 1 that names no tool, 2 user turns, 1 fold, 1 reload, 1 clear, load or rewind at any time, 1 hop | history well formed, nothing unanswered is sent, session and runtime agree at rest, mirror equals transcript |
| `session_live` | 1 call, 2 user turns, 1 fold, 1 reload, 1 hop | turns end, reports arrive |
| `subagents` | 3 calls, room for 2, 1 report each, one reload (unbind, then another provider) | what is marked running is driven, only the bound provider's agents run, every run settles |
| `edit_lock` | 4 runs, 5 inodes | the lock's invariant, each removes only its own file, everyone is served |
| `edit_file` | 3 runs on one text or none, the third with the first's process id; or 2 runs with any request on any kind of path, with power failures and one ignored error (`MaxIgnored`); 4 inodes | the lock held throughout, only the dead and those refused to remove them leave files behind, `AtomicFile` implemented, permissions kept |
| `functions` | texts up to 6 characters, parts up to 2, scripts up to 8 lines with a cap of 4, policies of up to 2 grants and 1 deny, up to 7 words | edit, diff, grant program whole and damaged, Seatbelt profile and command line each do what they should |
| `spawner` | program of 3 pieces, room for 1, frames of 2 bytes, `waitpid` may fail | target has its stdio only, fails closed, outcome true where it could be read and delivered, outputs that can be read do not end early and all end, nobody waits for ever |
| `landlock` | policies of up to 2 grants over a directory, a file in it and a link, any of them missing; a kernel that lacks one thing at most | confined as granted where the kernel has Landlock, tier in force, no failure on a kernel that has what is needed |
| `session_join`, `subagents_bind` | small | two disagreements of section 5 |

The properties of the conversation, briefly. `HistoryWellFormed`: in the committed
history every call is answered exactly once, right after the entry that made it.
`SentIsAnswered`: the runtime never goes on with a transcript that lacks an answer
or has two. `RuntimeIsDriven`: when the loop rests the session has a turn exactly
when the runtime has one, and no prompt was dropped. `ToolsAwaited`: a runtime that
waits for tools has a session that joins precisely that step, with an answer still
missing. `MirrorFollowsRuntime`: what the session put together from events is the
runtime's own transcript. `JobRowsKept`: a backgrounded job has exactly one row, in
the history or waiting for its turn to end. Every other property has its statement
as a comment above it.

Configurations that are not in the list of runs: `MCReportBuffer.cfg` (the buffer
against the mailbox with four reports, which is also proved) and
`MCEditFileLive.cfg` (`EveryRunReplies`: every run that is not killed replies) hold;
those of section 5 do not.

**Bounds and why they are enough.** Two calls are the least for a step with one
answered and one open call, and for an answer of an earlier step beside a later
one; three calls of the pool give two in a lane and one outside it, with sizes
small enough that one waits. Two user turns let everything left over from one turn
meet the next; turns begun by reports come on top of them. One reload meets each
state of a turn. Three worker names let two isolates work while one is dying. One
fold a turn is enough for a summary to stand before, between and after steps. One
hop makes any continuation lose against any other one that waits beside it. Each
call is made at most once, so names are never reused (a listed hazard). Three
subagents are one more than there is room for, so a slot is used again, and
leave a loop with a subagent before and after the one it waits at. Four runs of
the lock are a holder, one whose file lost its name, one that made a new one, and
one that waits on that; five inodes are one more than runs that can have one open. Three
runs of an edit are two that contend and one that inherits a dead one's process id;
that the first of the contending edits turns a into b is no loss, the tokens being
alike. One ignored error is a create that cannot look beside a run that can, or a file
left behind for the next run to find. A pipe smaller than the program, and a frame longer than a byte, are what
makes a writer block and a reader see half. In `functions` the limits are the
least with two occurrences that overlap, two hunks apart and two that touch, a
truncated diff, and a flag before, at and after the separator.

**Fairness.** Weak but for one, and only for what happens by itself. Dart: microtasks run; a
stream ends or fails (`open_ai_compat_inference_client.dart:255` maps the client's
timeouts and connection errors to a failure); a tool's work ends or is handed off;
background work ends; the provider becomes ready again; each subagent's turn ends
and journals' writes end. In the pool: a start resolves, a spawn answers or
fails, a tool ends, a terminated isolate exits. `bestie_edit`: a run that is not
killed makes its next call, and a `flock` that waits is granted when it can be; it
need not fail. One fairness is strong: a run that again and again finds its lock
file's name leading to the file it locked does not fail to look each time
(`Held`), for with an error every time `lock.rs:25-40` goes round for ever. Spawner:
each process goes on while its call can return; no read need fail, the target need not
end, and nobody need kill or close. The
user never has to do anything, and `Cancel`, `Stop`, `Close` and `Die` are not
fair. A streamed call is not fair either, only the end of its stream.

**Deadlock** is not checked for the session and the subagents: when the user does
nothing more, or the bounds are used up, they rest. That they do not rest in the
wrong place is what the liveness properties say. `functions` and `landlock` are
single computations that end. The others are checked for deadlock, with a step
`Done` where every process has ended.

**Symmetry** is used where every property is a safety property and no constant
tells the members apart: the calls of `session` and the inodes of `edit_file`.

**Mutants.** Each property of a passing run has an altered form of a definition
(operators commented "Mutated form of"), under which it fails. They stand beside
the definition they alter so that they change with it. Two guards turn out to
carry no weight in what is modelled: without the wait for a pending cancel in
`_runTurn`, and without the identity check in the teardown, every property still
holds, because `cancel` ends the runtime's turn before it awaits and the teardown
always runs before the next turn can begin. They are protection against a runtime
that would behave differently.

## 4. What is proved

| Module | For every | Theorems | Argument |
|---|---|---|---|
| `ToolPoolProofs` | number of calls, set of lanes, finite set of workers, set of sizes | `Invariance`, `LanesKeepOrder`, `PoolGrowsWithinSize`, `AnswersAreFinal`, `LoopIsPump`, `TypeCorrect`, `NoCallOrWorkerLost` | `IInv`, below |
| `ReportBufferProofs` | set of reports | `TypeCorrect`, `Refinement` | each input is a step of the mailbox or a stutter |
| `AgentSessionProofs` | set of calls, all bounds (`ToolsJoined`: no swap of the history) | `SessionInvariance`, `RuntimeDriven`, `AskInvariance`, `SentAnswered`, `ToolsJoined` | `IInv`, `AInv`, below |
| `AgentHistoryProofs` | set of calls, all bounds (`RowsKept`, `MailboxKept`: no swap of the history) | `MirrorInvariance`, `MirrorFollows`, `SessionTyped`, `HistoryInvariance`, `HistoryKept`, `RowsInvariance`, `RowsKept`, `MailboxKept` | `MInv`, `HInv`, `RInv`, `MailInv`, below |
| `SubagentsProofs` | set of calls, sequence of providers, bounds | `RunningStaysDriven`, `BoundInvariance`, `BoundAlone` | `DrivenInv` and `BoundInv`, below |
| `EditFileProofs`, the lock | set of runs and of inodes | `LockInvariant`, `MutualExclusion`, `OnlyItsOwnFile` | `LockInv`: while a run holds, the name leads to the file it locked |
| `EditFileProofs` | set of runs, requests, kinds of path | `LockHeldThroughout`, `WritersExclude`, `EditInvariance`, `LeftoversAreTheDeads`, `PermissionsKept`, `AtomicRuns` | every step of an edit leaves the lock alone or is one of the lock's; `EditInv`, below |
| `SpawnerProofs` | length of program, size of pipe, size of frame | `KidInvariant`, `StdioOnly`, `NeverUnconfined`, `StatusInvariance`, `OutcomeTrue`, `OutputsLast` | `KidInv`: what is open, set up and applied at each stage from fork to exec; `StatusInv`, below |
| `SpawnerProofs`, the command line | program, arguments, numbers, options asked for | `NoFlagIgnored`, `InvocationComesThrough`, `ArgumentsAreHonoured` | the first `--` splits the line; on each side every word is where the builder put it |
| `GuardProofs`, Landlock | policy, file system, kernel, device baseline | `BackendInvariant`, `ConfinedAsGranted`, `TierEnforced`, `SupportedNeverFails` | `LandlockInv`: the rules follow the entries, nothing is enforced before the end nor by an inert ruleset |
| `GuardProofs`, Seatbelt | policy without control characters, path, place | `ProfileFollowsPolicy`, `ProfilesSayThePolicy` | the text of a path fixes the path; the last rule that matches, part by part |
| `GuardProofs`, the grant program | policy, characters of its paths, place and kind of damage | `ProgramComesThrough`, `ProgramsFailClosed` | fields come apart where they were joined; the first wrong record refuses |
| `GuardProofs`, the diff | script, context, cap | `DiffsTellTheEdit` | the lines near a change come in runs; a place is told by how many of its side are before it |
| `GuardProofs`, the edit | file, target and replacement, context | `EditsDoAsAsked` | places taken from the left are the most that lie apart; the new text is gaps and replacements in a row |

The assumptions are the ones each module names (`…Assumption`), and TLC evaluates
them on every run. Those of the pure functions are few: the delimiter and the byte
that no text has differ from each other and from what the words of the format are
made of (`WireAssumption`), letters and the separator of paths are not among the
special characters, CR is not LF (`TextAssumption`), and bounds are numbers
(`FunctionsAssumption`, `DiffAssumption`).

* **ToolPool.** `LaneOrder` alone is not inductive: `Spawned` needs every busy worker
  to serve a running call, `Stop` needs each running call to have one spawn or
  worker and no more, `Refuse` needs an unresolved call to be in the queue still,
  and a closed pool must hold nothing when a late spawn returns. So `IInv` adds
  `RunningHasOneWorker`, `WorkersKeptApart`, `OnlyMadeCalls`, `StartedWasReady` and
  `ClosedHoldsNothing`. The argument has one lemma for each handler; what `_pump` does
  to the invariant is proved once (`PumpKeepsInvariant`) and what `_release` does on
  top of it once more (`ReleaseKeepsInvariant`). `PoolGrowsWithinSize` rests on a
  counting argument (`ColdFitsRoom`: ranks are an injection of the calls started cold
  into the free places). `LoopIsPump` is an induction over the queue: past the first n
  calls the loop has started the startable ones among them whose rank says so, holds
  the lanes of the running and the passed calls, and has returned when more could
  start than there are workers and room for (`Done`).
* **ReportBuffer.** Each input maps to `Post`, `PostAndHand`, `Hand` or a stutter; the
  proof rests on lemmas about prefixes of concatenated sequences and on
  `DeliveryTypeOK`, which says what each state of the machine holds.
* **AgentSession.** What the runs check holds when the loop is at rest or at one
  step; in between, what makes it true is on its way as a queued event or task, so
  the invariants say what is queued. Six are proved, each on top of those before.
  - `IInv`, where things stand: events wait exactly when a delivery is queued; a
    session whose turn the runtime has ended has that end as the last event in its
    queue; at most one turn is about to be resumed; the buffer is delivering exactly
    while one answer to it is queued. At rest nothing is queued, and
    `RuntimeIsDriven` is what remains. It also gives the types: a run that is refused
    is never queued.
  - `AInv`, what is asked and answered: no call is made twice; a step's calls are
    joined at most once and by their own answers; and, unless the history is swapped
    under the turn, the join is on its way from the end of the step until the answers
    are in the transcript. `SentIsAnswered` and `ToolsAwaited` follow. `ToolsJoined`
    has the hypothesis `MaxSwaps = 0`, as the run has, for with a swap it is false
    (section 5, 1). `AInv` itself, and `SentIsAnswered`, need no hypothesis.
  - `MInv`, what the session has seen: its mirror is the runtime's transcript with the
    step in progress, but for the events that wait, and these bring what it lacks;
    its count of folds lacks at most the one that heads the queue. A fold replaces the
    transcript while a step may be under way, so this needs to know which events can
    follow which, which is why it comes after the others.
  - `HInv`, what the history says: it makes each call once and answers it once, after it
    is made; the turn in flight makes no call the history has; and what the turn would
    commit if it ended now is in order, but for calls pending at its end, which
    reconciling answers. It rests on lemmas on `Reconciled` and `Projected`: where
    `FlattenSeq` puts each entry, by the induction described below.
    `HistoryWellFormed` follows with no hypothesis, swaps of the history included.
  - `RInv`, which rows the jobs have: none has two, in the turn's list and the history
    together, and unless the history is swapped each job in the background has one. A
    detached call's row waits in the turn's list, or goes straight to the history when
    no turn is active, and the list joins the history when its turn ends; so this needs
    that a call is detached once: `FreshInv`, by which a call on
    its way was not made before and has no work until it is made. `RowsKept` has the
    hypothesis `MaxSwaps = 0`, as the run has: a clear, a load or a rewind replaces the
    history, rows and all, by design.
  - `MailInv`, who has a report: each that waits, is in flight or was handed over is a
    settled job's; what waits was not handed over; and a batch in flight is in the
    history unless its turn was refused and the buffer is yet to be told. Each step is
    then one of `ReportMailbox`'s or a stutter: a report is handed over at the moment
    its entry joins the history, and the answer to the buffer, which comes later,
    changes nothing that the mailbox shows. `MailboxKept` has the hypothesis
    `MaxSwaps = 0` for the same reason as `RowsKept`.
* **Subagents.** `RunningIsDriven` is not inductive: a loop that goes on disposes of
  whatever it meets, so it must meet nothing that runs. It began when nothing ran, and a
  subagent dispatched since has made it stale (`LoopsMeetNoRun`); a call not yet
  dispatched has no session to be disposed of (`UnstartedIsWhole`).
  `OnlyTheBoundRuns` needs more, for it says that a call of `bindProvider` has got rid
  of every old session by the time it binds, though its loop may throw. `RosterInv`:
  a started subagent stays on the roster until it is disposed of, and what a loop that
  goes on has passed is disposed of, so at its end nothing of the old provider is left.
  `BindsInv`: the calls park and drain in the order they were asked for, and those
  that may still bind agree with the live primary (`LiveIsLast`); this is where the
  assumption about the sequence of providers is used (`LaterAgree`).
* **EditLock.** That at most one run holds the lock cannot follow from `flock`
  alone, since two runs may have locked two files. `HoldsTheName` closes the gap: only
  the holder of the file that has the name removes it, and a run that was granted
  another file's lock sees that and goes round.
* **EditFile.** The lock's steps are those of `EditLock`, so its lemmas are used as
  they are; the file's steps leave the lock's variables alone. For the refinement
  `EditInv` adds what `HeldThroughout` does not say: that the draft made at the look is
  still what the request asks of the path when it is renamed (`DraftIsNext`), which
  text, sync and permissions the temporary file has at each step of its writing
  (`TempFollowsDraft`), that what may be on disk was synced, and that no verdict is
  settled while a file is written. The draft of a create whose look failed is only
  what it was asked to write (`BlindByLooking`: no other run is blind). Each step then
  maps to one of `AtomicFile`'s or to a stutter: the rename, or the refusal, is where a
  request takes effect, that of a blind create is an `Overwrite`, and a power failure
  is `AtomicFile`'s own step back to what was saved. A lock file that outlives its
  holders is there for a run that still asks for it (`LockFileHasARun`), unless one
  ended early or could not remove it.
* **Spawner.** The child's descriptors are fixed at each stage whatever the other
  processes do, for nobody else changes them. What the application is told crosses
  three processes, so `StatusInv` relates the frames written, those in the pipe and
  those read to the stages of child and supervisor; half a frame can only be followed
  by its other half or by the supervisor's death. What a read that failed led the
  application to believe is exempt by name (`failed`): `OutcomeTrue` still says that
  a status told is the target's, and `OutputsLast` speaks of the outputs it could read.
* **Landlock.** Enforcement is a set of rules, on a kernel with Landlock; the proof
  that it confers what the policy grants, and nothing else of the rights ABI v1
  handles, follows one entry at a time. On a kernel without it `ConfinedAsGranted` says
  that everything may be done, as `EnforcesTheGrants` does. The filter is a
  program whose verdict is defined by recursion over its instructions, as a function
  (`Verdict`); `TierEnforced` runs it for each kind of system call.
* **Seatbelt.** A rule names a path by its quoted text and the kernel compares
  characters, so the proof begins with text: quoting is undone by reading
  (`Unquoted`, a recursive function), the text of a path lays its names out one after
  the other, and one text starts another, at the end of a name, exactly when one path
  is above the other. With that a rule matches the places its clause is about, and the
  last rule that matches is found part by part: the denials come after the grants, the
  grants after the ancestors and the base. A policy with a control character has no
  profile at all, hence the hypothesis. `ProfilesSayThePolicy` says the same as the
  invariant `ProfileSaysThePolicy` of `MCFunctions`, for every value of its constants.
* **Grant program.** Fields without the delimiter come apart where they were joined,
  wherever the program is cut. A path begins with `/`, so a program read one field off
  has a path, or nothing, where a verb must be, and a word where a path must be: its
  first wrong record refuses it, whichever that is. A cut program has the first fields
  of the whole one, the last of them perhaps shortened. Paths may have any characters
  but a NUL, which the operating system does not allow in one either, and the byte that
  stands for what is not UTF-8. That they begin with `/` is assumed: directories a user
  grants are made absolute (`sandbox_use_case.dart:357`), the home and temporary
  directories are the environment's, and the lowering passes on a path it cannot
  resolve as it is.
* **Command line.** `NoFlagIgnored`: whatever the words, a line that is accepted has
  nothing before its separator that was not read as a flag or as a flag's value.
  `InvocationComesThrough`: the line built for any request is accepted and read back as
  that request. Its only assumption is that no decimal number is one of the words
  `--`, `--confine-fd` and `none` (`NumbersAssumption`).
* **Diff.** Every list of lines here, a file, the lines of a hunk that belong to one
  side, the lines between two hunks, is the row of some places of the script after one
  bound and up to another (`IsRow`), and there is only one such row (`OneRow`). Places
  near a change fall into runs with a gap before each and after the last (`RunsAre`:
  as many runs begin before a place as end before it, and one more within a run). The
  loop over them is followed hunk by hunk up to the one the cap is met in (`DiffIs`);
  from there the rows join: `CutAtCap` for what is carried, `PutsBack` for the old file
  with the hunks put where their headers say. What lies between two hunks is in both
  files, since it is near no change. `DiffsTellTheEdit` has no bound on the script, the
  context or the cap.
* **Edit.** The matches are the places a scan takes from the left (`MatchesAre`). No set
  of occurrences that lie apart has more of them (`GreedyIsMost`): take its last place
  away; the rest lies before that place if the scan took it, and before the one the scan
  took instead if not, and up to there the scan has one less. So the count told is that
  of the places that can be replaced at once (`Found`). The new text is the gaps and the replacements
  in a row (`ReplacedRow`); what was before a gap and what is now differ by as many
  replacements (`ReplacedEnds`), which gives the length and the place of the first one.
  Texts with CRLF only, in a row, are such a text (`CrlfInARow`), and neither ToCrlf nor
  a gap between two matches splits a CRLF (`ToCrlfIs`, `CrlfPart`). Newlines are counted
  as the lines of a diff are (`FeedsOfPart`), so the snippet's first and last line are
  those of the replacement (`SnippetIs`). `EditsDoAsAsked` has no bound on the texts.

TLC checked each strengthening (`EditInv`, `StatusInv`, `BoundInv` and those of the
session) on the instances of the runs before it was proved, and `BoundInv` with two
reloads as well.

The library's induction theorems take an operator as a parameter, which the provers
cannot instantiate. That the naturals are well ordered can be said of sets
(`WFMin`, `NatLessThanWellFounded`), and an induction is then over the set of the
numbers a statement holds of (`LeastOf`, `UpTo`).

Only model-checked: liveness (outside the prover's reach, as is everything about
ENABLED; of `OutputsEnd` the safety half is proved, `OutputsLast`). Every
invariant, action property and refinement that a passing run checks is a theorem.

## 5. Where the code and what it says differ

Two have a run that TLC refutes and an entry under `findings` in `PROJECT.json`.

1. `session_join`, `JoinAfterStart`: "join before start". `/clear` in the middle of a
   turn replaces the holder of the turn's calls; the step's join then meets a call
   it does not know, and the turn waits until it is cancelled. Because of this
   `ToolsAwaited` and `TurnEnds` are checked with `MaxSwaps = 0` only.
2. `subagents_bind`, `AttachedIsBound`: two calls of `bindProvider` that drain two
   subagents at once. The first to end clears the roster under the other's loop,
   which throws before it binds its provider.

The rest TLC refutes outside the list of runs. These have a configuration of their own:

| Configuration | Property | What the code says, and does |
|---|---|---|
| `MCToolPoolLane.cfg` | `LaneExecutesAlone` | "Calls that share a lane run one at a time": a stopped call frees its lane while its isolate is still being terminated |
| `MCAgentSessionLoad.cfg` | `LoadOutsideTurn` | the gate that refuses with "turn in progress" is asked before the file is read and not after it |
| `MCAgentSessionStopped.cfg` | `InterruptedMeansStopped` | a failed turn records "The tool call was interrupted." for a call whose work it leaves running |
| `MCSubagentsClaim.cfg` | `SettledReleasesClaim` | a settled run "releases the claim": a report's turn that begins at the same idle edge keeps the agent, and nothing releases it afterwards |
| `MCSubagentsOrphan.cfg` | `NoOrphanEntry` | "no orphan entry": a report for a subagent whose agent is gone is written to its history and its turn refused |
| `MCSpawnerKill.cfg` | `KillFindsTheTarget` | `kill` answers "`false` if there was no live target": once the pid is known but before the child leads its own session there is no group to signal, so it answers so of a live child |
| `MCSpawnerWait.cfg` | `StatusIsTheTargets` | "its raw `waitpid` status": a supervisor that cannot wait reports zero |

These are refuted with the property put in place of the invariants (and the
properties, where there are any) of the configuration named:

| Configuration | Property | What the code says, and does |
|---|---|---|
| `MCEditFile.cfg` | `CreateReplacesNothing` | create "Fails if something already exists at the path" (`create_tool_definitions.dart:11`): where the look fails it is replaced, and the reply is that it was created |
| `MCLandlock.cfg` | `NeverUnenforced` | "Every failure is fail-closed: the caller must refuse to run the child unconfined" (`lib.rs:11-12`): without Landlock the backend succeeds with nothing enforced |
| `MCLandlock.cfg` | `CreatedIsSupported` | "Creating a ruleset proves support without restricting" (`landlock.rs:235-236`, of the tests' guard): it succeeds without support as well |
| `MCSpawnerKill.cfg` | `LostIsDead` | "The status pipe hit EOF (or errored) [...] the supervisor died without reporting" (`status_channel.dart:23-25`): after a read that failed it may be alive |
| `MCSpawnerKill.cfg` | `EndIsTheChilds` | the stream "closes when `read` returns 0 (EOF, meaning the child closed its stdout)" (`read_loop.dart:13-15`): it closes when `read` fails, too |

And with the property put in place of the invariants of `MCFunctions.cfg`:
`CrlfRequestKeepsCrlf` (a request that already writes CRLF gets its carriage returns
doubled), `OccursExactlyOnce` (occurrences that overlap are counted as one),
`ExactTextIsFound` (text that spans a lone newline of a CRLF file is not found),
`HunksHaveLines` (a truncated diff may end with a hunk that has none) and
`ShortProgramIsRefused` (a grant program cut after a whole record is accepted with
the records it has).

Noticed while reading and not the subject of a configuration:
`pending_tool_calls.dart:117-118` says that work that handed back a background
handle stays stoppable, whereas `_answerFor` (119-123) drops the call from `_live`
for every answer; and `_driveToSettle`'s comment "(or its stream closes)" has no
`onDone` to go with it. Subagents that a reload cancels before the drain's stop
reaches them settle as completed.

## 6. Not modelled, and why

* The journal's write queue, the provider session, the isolate worker, shells and
  sandbox readiness: planned, see below.
* Text, usage and token counts, output limits, notices, view rendering: no property
  here depends on them. When a fold is due is a free choice instead of a threshold.
* `bestie_edit`: other programs that write the path meanwhile, and the JSON of
  requests and replies.
* Spawner: the content of stdin, resizing, the environment; a target that closes its
  own outputs. The descriptors handed over are above 2, and 0 to 2 are open, as the
  application arranges it.
* Guard: the probe the application makes before it uses the backend, which would keep
  a kernel without Landlock from it; policies given to Seatbelt have no list-only grants, as the lowering never produces one there;
  rules of the base profile about anything but files and the network. How a policy
  is lowered to grants in Dart (globs, links) is left out.
* Terminal emulation, the other tools, views, prompts: parsing and rendering with no
  protocol of their own.

## 7. What is left

| Module | Composes / refines | Runs and bounds | Theorems |
|---|---|---|---|
| `AgentRuntime` (abstract) | refined by `RemoteAgent` | 2 runs, 1 cancel | one terminal event for each accepted run |
| `ToolCalls` | router, settlement, jobs | 3 requests, 1 backgrounded | each call answered at most once |
| `Journal` | `AgentSession`'s history | 2 conversations, failing writes, a crash | stored is a prefix of shown |
| `ProviderSession`, `SandboxReadiness`, `ShellSession`, `IsolateWorker` | – | small each | stale answers have no effect |
