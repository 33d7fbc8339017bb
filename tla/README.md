# mcp-pacemaker: a TLA+ verification project

mcp-pacemaker keeps stdio MCP servers alive behind one local HTTP bridge.
Clients come and go; the bridge gives each of them a session, spawns server
processes, pools or shares them, replaces them when credentials or
configuration change, and is itself restarted and upgraded under a supervisor.
Almost everything that can go wrong in it is an order of events: an answer that
races a timeout, a process that arrives after the group that asked for it has
stopped, a crash between two renames. This directory models those parts in
TLA+, checks them with TLC, and proves what matters most with TLAPS.

All line numbers refer to the repository's files. `PROJECT.json` maps every
definition to the lines it stands for.

## 1. The system and its components

| Component (files) | State it keeps | Operations | What is hard |
|---|---|---|---|
| **Shared group** (`bin/shared-sessions.mjs`, `SharedGroup`, `SharedChild`) | one child process; members, waiters; slots (`operations`), lanes of queued work, `pending` per session; stdin back-pressure; timers | client messages, child messages, detach, recycle, remove, timers, exit | one request is reached from five sides: its response, its cancellation, its timer, the end of its session, the end of the group |
| **Shared manager** (`SharedSessionManager`, and the spawn callback in `bin/mcp-bridge.mjs`) | `groups` by name, `cooldowns`, `closed` | `acquire` (with an await in the middle), `recycle`, `remove`, `shutdown`, `retired` | generations of one name overlap in time: old exits, late spawns, backoff |
| **Bridge admission** (`bin/mcp-bridge.mjs` 780–830, 975–1175) | sessions per server, reservations, slot waiters, spawn gate with its queue | `awaitSlot`, `acquireSpawn`, `releaseOnReady`, `startAdmittedSession` | timeouts racing hand-over; state read before an await and used after it |
| **Streamable sessions** (`mcp-bridge.mjs` 830–935, 1267–1392, 1684–1942) | `httpSessions`, `resumable`, `resuming`, `goneSessions`, pending replies | initialize, POST, GET stream, DELETE, resume, reap | two requests resuming one id; reaping what just became busy |
| **Warm pool** (`mcp-bridge.mjs` 1062–1085, 1175–1265) | warm children, refills on their way, fast-exit backoff | `spawnWarm`, `takeWarm`, `refillPool` | a warm child dies as it is taken; refills after removal |
| **Configuration reload** (`mcp-bridge.mjs` 1392–1560) | `servers`, token cache, recycle timers | `applyConfig`, `reloadConfig`, `recycleServer` | a session starts with a definition that has just been replaced |
| **Pooling execution and writer** (`bin/pooling-execution.mjs`, `pooling-writer.mjs`) | one shared integer, a worker thread, a deadline | cancel, expire, begin commit, complete, fail | two threads race on the integer; what the caller is told must be true of the file |
| **Pooling files and store** (`bin/pooling-files.mjs`, `pooling-config.mjs`) | config file, journal, draft, previous file | update, prepare, activate, revert, recover | a crash between two directory operations |
| **Pooling batches** (`bin/pooling-batches.mjs`, `pooling-batch-scheduler.mjs`) | pending generation, timer, running reload, change list | accept, cancel, reload now, close | changes arriving during a reload; a timer that fires late |
| **Supervisor** (`supervisor/supervise.mjs`, `bridge-child.mjs`) | current child, hold file, retry timer, stop authorization | launch, exit, quiesce, activate, resume, stop | restart racing stop; a child that does not exit |
| **Managed upgrade** (`bin/managed-upgrade.mjs`, `managed-state.mjs`, `managed-runtime.mjs`, `service-control.mjs`, package helpers) | a durable journal with a phase | prepare, quiesce, stop, select, launch, admit, commit; roll back; recover | crash in any phase, then crash in the recovery |
| **Account upgrade, task control** (`account-*.mjs`, `task-*.mjs`) | sequence numbers and a digest chain on both sides | request, signed response | replayed or reordered exchange, peer lost half way |
| **Legacy upgrade** (`legacy-*.mjs`) | the same kind of journal, for 1.3 installations | plan, hold, activate, roll back, recover | as managed upgrade |
| **Windows processes and channel** (`windows-*.mjs`, C# helpers, `windows-legacy/`, `windows-lifetime/`, `windows-task-channel/`) | jobs, handles, markers; queues of commands and frames; thread lists | watch, observe, sweep, authorize, exchange, capture | numbers of processes and threads are used again; a helper is killed with any exit code; a deadline passes while another thread is stuck |
| **Log and its reader** (`appendLog` of `mcp-bridge.mjs`, `bin/logs.mjs`) | two file names | append, roll; read, follow | a roll between any two awaits of the reader |
| **Local qualification run** (`tools/npm-publication/local-*.mjs`, `verify-local.mjs`) | a directory of receipts, evidence and a state file; containers | launch, step, resume, verify | a launcher that dies anywhere, and one that follows it |
| **Health, metrics, tokens, prewarm** (`mcp-bridge.mjs`, `server-metrics.mjs`, `prewarm.mjs`) | counters and samples | note success and failure, percentiles | bounded windows |
| **Browser UI** (`ui/src`) | last accepted snapshot, retired instances, actions in flight | accept snapshot, issue actions | snapshots of an older instance or version arriving late |
| **Pooling editor** (`pooling-editor.mjs`), **CLI**, **installers and release tools** | none beyond a call | one call each | pure text functions, or scripts that run once |

How they interact. The supervisor launches the bridge and speaks to it over
IPC. A client request reaches the bridge over HTTP, waits for a session slot,
and then takes a warm child, spawns one through the gate, or calls `acquire` of
the shared manager. The manager creates one group per name and generation; the
group asks the bridge's callback to spawn, and that callback waits at the same
gate. Configuration changes come from the file, from the HTTP interface through
the pooling store (a worker thread commits them), and reach the manager as
`recycle` and `remove`. Upgrades quiesce the bridge through the supervisor.
Node runs each handler to completion, so inside the bridge interleaving happens
only at awaits, callbacks and timers; true parallelism exists between bridge
and pooling worker, and between processes.

## 2. What is modelled

One module per component; a module that other modules promise something to is
their abstract specification. `MC*.tla` and the `.cfg` files instantiate them
for TLC, `*_proofs.tla` hold the theorems.

| Module | Stands for | Hosted by |
|---|---|---|
| `SharedGroup` | one generation of a shared server | `MCSharedGroup` |
| `RequestContract`, `GroupLifecycle` | what a group promises for a request, and to its manager | `MCSharedGroup`, `MCSharedSessions` |
| `SharedSessions` | the manager of the groups, and the bridge's spawn callback | `MCSharedSessions` |
| `StreamableSessions` | sessions with a process of their own, session slots, resume, reaper | `MCStreamableSessions`, `MCStreamableLive` |
| `WarmPool` | spawn gate and warm pool | `MCWarmPool` |
| `PoolingStore` | the configuration file, its journal and spare files | `MCPoolingStore` |
| `StoreLock` | the lock of those files | `MCPoolingStore` |
| `PoolingBatches` | requests for changes, main thread and worker, the scheduler | `MCPoolingBatches` |
| `Dashboard` | the page of settings and the bridge's snapshots | `MCPoolingStore` |
| `Supervisor` | supervisor, bridges, control socket, hold files | `MCSupervisor` |
| `ManagedUpgrade` | an upgrade of one managed instance, and its recoveries | `MCManagedUpgrade` |
| `TaskTransaction` | the upgrade of another account's service, through its task | `MCManagedUpgrade`, `MCTaskTransaction` |
| `LegacyUpgrade`, `LegacySweep` | the move from version 1.3, and the end of its processes | `MCManagedUpgrade`, `MCSupervisor` |
| `TaskChannel`, `CallerObservation` | the channel of `TaskTransaction`, and its guard's look at threads | `MCStreamableLive`, `MCWarmPool` |
| `ProcessLifetime` | a bridge on Windows ends with all that it has started | `MCWarmPool` |
| `LogFollow` | the bridge's log and the command that follows it | `MCPoolingBatches` |
| `LocalRun` | launchers and verifier of a local qualification run | `MCPoolingStore` |

Where an MC module hosts several machines, a variable `part`, chosen in the
initial state, says which of them moves; the others stay in their initial
state. They share no variable and no action. The machines of such a run are as
apart as in runs of their own, and a machine at rest has no fair action that is
enabled, so that no liveness property holds because of it.

### SharedGroup: one generation of a shared server

The class `SharedGroup` with the state it shares with `SharedChild`:

| Model | Code |
|---|---|
| `state`, `failed`, `reported`, `killRequested`, `blocked`, `pumping`, `queued`, `lanes` | fields of the same name |
| `members`, `waiters` | `members`; the callers counted by `waiters`, as a set |
| `phase[s]`, `ids`, `pending`, `queue[s]` | `phase`, `ids`, `pending`, `queue` of each `SharedChild` |
| `operations`, `dispatched`, `settled`, `cancelled` | the map `operations`, and the flags of each operation |
| `replies[r]` | what the owner's `send` was called with for request `r` while the owner was open |
| `child`, `buffered` | the process; `stdin.writableLength`, in units of a message (`SizeOf`) |
| `linger` | `lingerTimer` is armed |

Timers other than the linger timer need no variable: whether one is armed
follows from the rest (the init timer exactly in `starting`, the drain timer
exactly in `draining`, an operation's timer while it is queued or running).

Every action is one whole handler, with the calls it makes. `Stop`, `Drain`,
`Detach`, `Write`, `Idle` are shared by the actions as the methods are shared by
the handlers. `AcquireStart` and `AcquireResume` are the halves of `acquire()`
around its await. `pump()` is a loop whose length depends on the state: it is
modelled turn by turn under the flag `pumping`, and no other handler runs
between two turns. One thing can: `send()` of an answer that fills a session's
output detaches that session from inside the handler that sent it, so
`SessionEnds` is also enabled between turns. This admits a few more moments for
the detach than the code has, never fewer.

`SizeOf` gives a request a size in units of the buffer, so that the three
outcomes of a write (it fits, it fits and blocks, it overflows) happen at every
write, and the large one overflows where a small one would not. Ids are
requests: `Requests` is the set of pairs of owner and id, so a duplicate id, an
id too many and an id of the wrong form all appear as what they cause, the end
of the session. The id of `initialize` itself is not counted. Cursors, progress
tokens and byte limits are abstracted to the rejection they may cause
(`Reject`, and the second outcome of `Response`). Progress notifications, logs
and `list_changed` change no state that is kept.

Two abstract specifications say what a group is for.

* `RequestContract.tla`: each request is answered at most once; one answered
  `unsent` was never given to the server; one that was given to it is answered
  with its result or as `potentially-executed`. This is what
  `docs/shared-sessions.md` (133–155) asks for when it says that calls are never
  replayed and that unresolved work fails "explicitly as potentially executed".
* `GroupLifecycle.tla`: what the manager may rely on. A generation moves forward
  only, drains only with work left, and is dead exactly when its process is gone.

`SharedGroup` implements both under the mappings at its end (`KeepsContract`,
`LivesOnce`).

### SharedSessions: the manager and its generations

`SharedSessionManager` with many names, callers and generations, and the spawn
callback of the bridge. A generation is a record with the manager's view of a
group. Its steps are those of `GroupLifecycle`: the action property
`LivesLikeAGroup` says so, and together with `LivesOnce` it ties the two levels
(`SharedGroup` implements `GroupLifecycle`; the manager's model never asks a
generation to do anything else). A caller's configuration and initialize
parameters are one key. The only clock is the retry delay, and all that matters
of it is whether it has elapsed. The bridge's `shutdown()` raises a flag,
awaits, and calls the manager later; both moments are actions.

The spawn callback waits at the spawn gate and afterwards looks its group up *by
name* (`mcp-bridge.mjs` 1106). That this is always its own group is part of
`ProcessesKept`, and it holds only because a name is not given to the next
generation before the spawn of the last one has settled.

### StreamableSessions: sessions with a process of their own

One server with `sharing: "isolated"`: every path from a POST to a process and
back.

| Model | Code |
|---|---|
| `httpSessions`, `startingSessions`, `waiters`, `resumable`, `resuming` | maps of the same name, for one server |
| `child[c]` | a process, the id it was started for, who killed it |
| `post[p]` | a POST handler: the await it is at, its session and process |
| `known`, `deleted` | ids a client has read in an answer, ids a client has deleted |

The handler of a POST passes up to six awaits: a slot, the spawn gate, a
restore of its own or one it joins, the handshake, its answer. Between two of
them anything may happen to its session, and the code looks again at the
configuration, the record and the client after each (`Checked`). A step of the
model is the code from one await to the next. A handler whose promise has
settled is one of the `Settled` phases, and no callback runs before it has gone
on (`Quiet`): Node drains its microtasks first. This matters, since what a freed
slot or a finished restore hands over is not yet in `httpSessions`.

A record of a session is a number, so that a handler can tell that the record
it started from has been replaced; two are enough, because one restore runs for
an id. `old` says that the definition was replaced while the handler waited.
`spared` marks a process that a recycle passed over; like `known` and `deleted`
it is history. Only ids that a client knows are asked for. An id or a process to
which nothing refers any more is used again, which bounds the model without
a bound on its length.

### WarmPool: the pool of one server, and the spawn gate

The gate and the pool together, because what is hard in the pool is what
happens while its refills wait at the gate. `active`, `queue` and `settled` are
the gate; `settled` holds the callers whose promise is resolved and who go on
before the next callback. `Acquire` and `Release` are `acquireSpawn` and the
function it returns. The cold starts of other servers (`ColdStart`) compete with
refills and are all that is modelled of them. `pool`, `pooled`, `warmPending`,
`target`, `refillDue` are the pool's entry and its existence in `warmPool`, the
counter of refills on their way, `poolTarget`, and whether a timer is armed that
will call `refillPool`. A child that was taken is of interest only as long as it
holds a permit. `QuickKill` is an assumption about the system: a killed process
exits within the second that a recycle waits before it refills.

The two modules meet the others at their edges: `Spawned` of `SharedSessions` is
a caller of the same gate, and the `gate` phase of `StreamableSessions` is one
too, which here is only known to go on in the end: the wait at the gate is
bounded by its timer.

### PoolingStore and StoreLock: the configuration on the disk

`PoolingStore` is `PoolingConfigStore` over `PoolingFiles`, as on a POSIX file
system. An operation (a batch, an addition to one, an undo, a cancellation, a
commit, a recovery) is a list of steps made from what disk and store hold when
it begins (`Draft`, `Discard`, `Commit`, `Forward`, `Recover`, `Restore`,
`Tidy`), each of them one call of the file system with the checks before it.
`StepDone`, `StepRefused`, `StepTooLate` and `StepFaults` are the four outcomes
of a step: a fault may come before or after the call has had its effect, and a
record of the journal may be torn. `Die` may come before any step. `disk` says
what each of the five paths names, `journal` is the newest record, `mem` the
store in memory, `undo` the right to undo the last commit. `toldNo`, `toldYes`,
`seen`, `lied`, `lost` and `excused` are history. A file stands for identity,
content and permissions, which the code compares together; an editor replaces
the configuration or writes into it at any time, but not between a check and
its call (`docs/dashboards.md` 86 says that this is not defended against).

`StoreLock` is `acquire()` and `close()`: a directory, a file with the owner's
name, a second directory as the gate of a takeover, each call a step, by any
number of processes that may die between any two and whose numbers come back.

### PoolingBatches: from a request to the configuration

`PoolingBatches`, its scheduler, the writer and the worker. The main thread runs
one job of its queue at a time; while it waits for the worker, timers, aborts
and messages are handled. The worker takes one call at a time. All they share is
one integer per call, `exec`, and every compare-and-exchange of
`pooling-execution.mjs` is a step of its own. The worker may die once, between
any two of its steps. The store is abstract here, a pending batch and what was
applied; it ends a commit as `PoolingStore` says. Every call has the deadline of
nine seconds, the rejection of a stage too: one that is late, or whose files
fail, is refused, and its changes stay in the store, pending, for the next batch
(`LeftBehind`; `store.left` is their history).

### Dashboard: the page and the bridge behind it

`usePoolingActions`, `useEventSource` and `SnapshotOrder` of the page with
`richSnapshot` and the routes of the bridge. Snapshots travel with the stream
and with each answer; they overtake each other, get lost, and outlive the
bridge that made them. One server is configured, so that a setting is the
content of the whole file, and its revision too. A request is handled in one
step, a batch is applied in two. The interval that repeats the last snapshot is
left out: every change is sent when it happens. `visited` is history: the
bridges that the page has shown.

### Supervisor

`supervise.mjs`, the bridges it forks one after another, the upgrade control of
the bridge, the hold files, and the clients of the control socket that stop,
quiesce, activate or resume. Supervisor and bridge speak over a channel in
order; either may die at any time, and the end of a bridge is noticed apart from
its last messages. `platform` decides what a socket leaves behind (a file, on
POSIX) and whether the end of a bridge comes with a proof (the verdict of
`ProcessLifetime`, on Windows). `ghost` is history: what a client was told.
`Listen` takes one short block of the code as a step: the read of
`admission-held`, the bind, and the look at the hold (`supervise.mjs` 48–130).

### ManagedUpgrade

One upgrade of one instance: `execute`, `rollback` and `recover`, `startInstance`
and `stopInstance`, the launcher's gate. A generation is a launcher, its
supervisor and its bridges, whose own protocol is `Supervisor`. `journal`,
`active`, `record`, `hold`, `admission` and `lock` are the durable files;
`up.pc` is the place in the code, one step between two writes. The upgrader may
die before and after each step; the operator then removes its lock and runs the
recovery, which may die too. A launcher reads the selection (`ReadsSelection`),
compares every file of the package with it, and only then reads the journal
(`ReadsJournal`): much may happen in between. `Listens` is one short block, as in
`Supervisor`. Meanwhile the operating system and the user may
start the service, the user may stop it and edit the configuration.

### TaskTransaction, TaskChannel, CallerObservation: another account's service

`TaskTransaction`: a controller owns the scheduled task, a worker under the
account runs the upgrade, a guard between them holds the channel. The upgrade is
reduced to what its journal and its backend are between the hooks that the
worker gives it. An operation is followed by its recoveries, each with a
controller, a channel and a worker anew.

`TaskChannel` is that channel: the class of the controller and the guard with
its thread for commands, its thread for the pipe, its main thread and its
monitor. Session, rights, controller and worker may go away at any moment, and a
deadline is a step that may come at any time. `CallerObservation` is how the
guard finds out that no thread of its caller acts for somebody else: two
snapshots of threads that are born, exit, hand on their numbers and take or
drop tokens while it looks at one after another.

### LegacyUpgrade, LegacySweep: away from version 1.3

`LegacyUpgrade` is the journal of the move with the registration, the command
line files, the broker and the held target, under deaths, lost answers and
changes by others. `LegacySweep` is the broker's way through the process tree:
processes are known by their births, the system knows them by numbers that it
uses again and by a time of creation.

### ProcessLifetime, LogFollow, LocalRun

`ProcessLifetime`: the job with the limit to kill on close, its owner, the
drain marker and the observer on behalf of the supervisor, each of which may be
killed with any exit code. `LogFollow`: the bridge rolls two names while the
command opens, compares, reads and follows. `LocalRun`: launchers of a
qualification run, one after the other, with one step of each kind (control,
inputs, session lane, case), a death, a failure, an edit of the sources, a
tampered receipt, and the verifier's judgement of the directory.

## 3. The runs

Nine runs pass; three show a finding (section 4). Every property has a mutant in
`PROJECT.json`: a plausible bug in one mapped definition (written beside it,
under a comment that begins with "Bug:") under which TLC finds the property
violated.

| Run | Instance | What it shows |
|---|---|---|
| `group` | 2 sessions, 3 requests (two of one session, one of them large), 2 slots, queue of 3, buffer of 3 with its high-water mark at 2 | `NoRequestLost`, `Traced`, `WorkConserving`: queues, maps, slots and answers agree, nothing is forgotten, no work waits beside a free slot. `KeepsContract`, `LivesOnce`: the two abstract specifications. `EachToItsOwn`: no session costs another its work or its turn. `SlotsComeBack`: an unresponsive child holds no slot for ever |
| `sessions` | 2 names, 2 keys, 2 callers, 2 groups at a time, 2 generations, 1 cooldown kept | `ProcessesKept`: one process for a name, none without a purpose, none shared by keys that differ. `LivesLikeAGroup`. `CallersAnswered` |
| `streamable` | 2 POSTs, 2 ids, 2 processes, 1 slot, spawn errors; symmetric | `SessionsKept`: slots accounted for, one restore of an id, no orphan, the reaper takes no process from under a request |
| `streamable_live` | 2 POSTs, 1 id, 2 processes, 1 slot, no spawn errors; the channel with a queue of 1, 2 commands, 2 receives, 2 frames, 1 fault | `QueuedOnlyWhenFull`: no wakeup is lost. `EveryRequestEnds`. `ChannelTold`: what the controller is told is so, frames come once and in order. `ChannelEnds`: nobody is left waiting |
| `warm_pool` | 1 cold start, a pool of up to 2, 1 stray, 4 processes, 1 permit; a bridge with 3 children; 3 threads with 2 numbers, 2 observations, 1 change of the caller's own token | `PoolAccounted`: permits and pool. `PoolComesBack`. `LifetimeHeld`: a bridge works only in a job whose owner lives, and a receipt means that all is gone. `EndsTogether`. `NothingOverlooked` |
| `pooling_store` | 3 drafts, 1 edit, 1 fault, 2 deadlines, 2 deaths; 3 processes at the lock; a page with 2 batches, 3 requests, 1 other client, 3 bridges, 1 frame; 3 launchers, 1 edit, 1 tampering, 1 death, 1 error | `TruthfulIfSavesAre`, `StoreKept`, `EditsSurvive`: answers, configuration, undo and an editor's work survive. `OneOwner`. `OffersRight`, `NothingTakenBack`. `RunKept` |
| `pooling_batches` | 2 requests, 4 calls, 1 death; a log that rolls at 2 lines, 4 events | `TruthfulCalls`: what is answered to a commit is so, whenever it is cancelled, late or cut off. `AnswersTrue`: so are the records of batches, the answers to requests, and the state an upgrade asks for. `EveryRequestAnswered`. `LogRead`, `CatchesUp` |
| `supervisor` | Windows, 2 supervisors, 2 bridges, 2 requests about admission, 1 stop, 1 fault; a sweep with 2 pin passes, 3 rounds, 3 swept, 6 processes, 1 exit, 1 fault | `StoppedMeansStopped`, `AdmissionAsTold`. `SweepSound` |
| `managed_upgrade` | 3 generations, 2 faults, 1 edit, 1 stop; 3 operations on the task, 2 faults, 1 change by others; 3 faults and 1 disturbance of a move | `NoRollbackOverNew`, `ClosedUntilSettled`, `RecoversBeforeLaunch`. `TaskKept`. `LegacyKept` |
| `failed_revived`, `reboot`, `no_worker` | the instances of `pooling_batches` without a death, of `supervisor` on POSIX without requests, of the task with one operation | findings |

`CHECK_DEADLOCK FALSE` wherever a system may really stop: a dead generation, a
closed manager, a settled upgrade, a bounded machine that has used its bounds.
The runs `streamable`, `streamable_live` and `warm_pool` check deadlock.

**The bounds.** A hazard of queueing needs three requests of two sessions: one
in another lane, and two behind each other in one. With two slots they queue
when the child's stdin is blocked, and then two lanes hold work while two slots
are free, which is when turns are taken. A buffer of three blocks before it
overflows; the large request overflows it at once. Two generations of a name
suffice for a late event of one to meet the next; the one cooldown kept makes
eviction of the oldest happen.

In `StreamableSessions` the hazards are between two handlers and what they
share: two handlers suffice to restore one id at once, to compete for a slot, or
to have one act while the other waits; two ids, for a slot freed by one session
and taken by another; two processes, for the late exit of one to meet its
successor. In `WarmPool` one permit makes every other caller wait, a pool of two
lets a shrinking reload leave something, and the number of processes is the
pool's size, the strays and the permits: always enough that a process is free
when the code spawns one (`WarmPoolAssumption`).

The store's files go through at most a commit and an undo, or a batch, an
addition and its rejection: three drafts. One fault and two deaths are a fault
whose recovery is cut, and a recovery that is cut again. Three processes at the
lock are an owner that is gone, one that takes over and one that comes too
soon. Three bridges let an answer of the second, which was never shown, arrive
after the third; only the first restart counts as the one disturbance of the
page. Two requests and four calls let a commit come late between a stage and
its rejection, and let a stage follow a rejection that was late. Two supervisors and two bridges are a service that is stopped
while its successor begins; two bridges also are a crash and its retry. Three
generations of an upgrade are the old service, the new one and the one of a
rollback, or one that the operating system or a user starts in between; two
faults cut the upgrade and then its recovery. What does not fit into such
bounds is what the theorems are for (section 5): they hold for any.

**Fairness.** Only what the runtime provides: an armed timer fires, a settled
promise resumes its caller, a started pump goes on, the spawn callback settles
(the gate lets a caller through after a bounded wait, `mcp-bridge.mjs`
1027–1033), and a process that was killed exits. Nothing is assumed of clients,
and of the child nothing but its death when killed: it may never answer, never
read and never initialize. Where even that fails, `KillReport` is what the code
does about it (`SHARED_KILL_TIMEOUT`), and the name stays blocked, by design.
The gate's timers all have the same delay, so they fire in the order of the
queue. In `StreamableSessions` the gate is a step with strong fairness, since a
model with two processes may lack a free one at the moment a handler needs it,
which the code never does.

In `PoolingBatches` the main thread goes on with its queue, messages arrive, an
exit is noticed, a due reload starts and a worker that lives goes on. In
`TaskChannel` events arrive, the end of the guard is noticed, its reader of
commands reads and its monitor looks; its main thread has no fairness, since it
may be stuck in a call of the system. In `ProcessLifetime` the owner goes on and
what is terminated ends; in `LogFollow` the reader goes on. In `ManagedUpgrade`
whoever runs goes on and the operator recovers: `RecoversBeforeLaunch` is what a
recovery that is run often enough achieves. `PoolComesBack` assumes `QuickKill`.

## 4. Findings

Each has a run that checks one property and shows the behaviour.

| Run | What happens |
|---|---|
| `failed_revived` | A commit whose deadline passes before the worker takes it is answered as not committed and its batch recorded as failed; the worker's check throws before its store hears of it (`pooling-writer.mjs` 25), so the batch stays pending there, and the next change is added to it and commits both. `docs/dashboards.md` 81–82 say that the bridge never retries by itself. |
| `reboot` | Where a control socket is a file, a supervisor that was killed leaves it behind, and every later start ends with `EADDRINUSE` (`supervise.mjs` 123). `README.md` 32–33: "Survives reboots". |
| `no_worker` | When no worker comes, what ends the wait is the failure of the channel, and the restoration that follows begins by asking that channel: it is refused, and the task stays on the worker action with its triggers off (`task-only-controller.mjs` 214). `test/task-controller.test.mjs` 330–331 expect it to be given back. |

More of the kind are stated by properties that stand in the modules and are in
no run; a configuration with the given constants shows them.

* `StreamableSessions.RenewedOnNextRequest` (no cap): a session busy during a
  recycle keeps its process until the next recycle, though the comment says its
  credential is replaced on the next request (`mcp-bridge.mjs` 1408–1409).
* `StreamableSessions.RecycleInvisible`: until a killed process exits, its id
  still leads to it, and a request in that window fails. "A recycle is invisible
  to connected clients" (1397, 1414).
* `StreamableSessions.DeleteIsFinal`: an initialize in flight when its session is
  deleted may be answered and remembered, and the id resumed again. "It must not
  come back on the next request" (1706, 1912).
* `StreamableSessions.DeadProcessFailsAtOnce`: a process that could not be
  spawned never exits, so requests on it wait for their timers. "A child that
  dies with requests in flight must fail them now" (907, 911).
* `WarmPool.PoolComesBack` with `QuickKill = FALSE`: a warm child that takes more
  than a second to die still fills the pool when the recycle's refill comes, and
  its exit orders none (1200, 1421). Also, `takeWarm` (1253–1264) does not look
  at `__bridgeKilled`: a child on its way out may be handed to a session
  (1416–1417), and one that failed to spawn stays in the pool.
* `PoolingStore.Truthful` (2 drafts, no edit, 1 fault, no deadline, 1 death): a
  save that reports a failure after its record is on the disk makes a draft that
  was answered "not-committed" the configuration after a restart
  (`pooling-config.mjs` 412). `TruthfulIfSavesAre` excepts those drafts.
* `PoolingStore.LeftoversOwned` (3 drafts, 2 deadlines): a spare file that no
  record names, against the comment at `pooling-config.mjs` 153–157.
* `LegacySweep.SweptWhole`: what a held process has started after the last
  snapshot, before it died by itself, is not found (`LegacyProcessBroker.cs`
  705–710); "the next round finds anything those processes started before they
  died" (530–534).


What four properties do not say, because the code does not keep it:

* `NoRollbackOverNew` excepts a launcher of the operating system or of a user
  that had read the selection "new" before the rollback and reads the journal
  after "rolled-back" is written: nothing stops it, and it comes up with the new
  version (`stable-launcher.mjs` 9–24). Likewise one that had read "old" comes up
  with the old version after a commit. What the upgrade itself has launched is
  gone without exception, and while the journal is not settled a launcher is let in
  only with the token of the launch that it names.
* `AnswersTrue` excepts a change whose rejection was late or failed: it is
  answered as failed and is committed with the next batch (`pooling-writer.mjs`
  33 and 92, `pooling-config.mjs` 134). `upgradeState` knows nothing of such a
  batch, which stays pending until somebody stages another change.
* `TaskKept` excepts a recovery that resumes the service: it settles "aborted"
  before it restores the task, and a death in between leaves the task held, where
  `docs/account-upgrades.md` 147–152 expect it back.
* `NothingTakenBack` excepts a bridge that the page has never shown (section 7).

## 5. The proofs

Each theorem holds for every value of the constants that the named assumption
admits, with the bounds of the models among them: any number of sessions,
processes, generations, faults and restarts. TLC checked every inductive
invariant on an instance before it was proved.

| Module | Theorems | Assumption |
|---|---|---|
| `SharedGroup_proofs` | `Invariance`, `TypeCorrect`, `TracesHold` (`Traced`), `NoSecondAnswer`, `UnsentIsTrue`, `NothingLost` (`NoRequestLost`), `Implements` (`KeepsContract`), `WorkIsConserved` (`WorkConserving`), `NobodyPaysForOthers` (`EachToItsOwn`), `LifeImplemented` (`LivesOnce`) | `SharedAssumption`: finite sets, an owner for each request, limits that are natural numbers |
| `SharedSessions_proofs` | of `SharedSessions`: `SessionsInvariance`, `ProcessesAreKept` (`ProcessesKept`), `EachLivesLikeAGroup` (`LivesLikeAGroup`); of `LogFollow`: `LogInvariance`, `LogIsRead` (`LogRead`) | `SessionsAssumption` of `SharedSessions`; none for the log |
| `StreamableSessions_proofs` | `StreamInvariance`, `SessionsStayKept` (`SessionsKept`), `NoWakeupIsLost` (`QueuedOnlyWhenFull`) | `SessionsAssumption` of that module: finite sets of handlers, ids and processes, `None` apart; the last one for `~SpawnMayFail` |
| `WarmPool_proofs` | `PoolInvariance`, `PoolIsAccounted` (`PoolAccounted`) | `WarmPoolAssumption` |
| `PoolingWorker_proofs` | of `StoreLock`: `LockInvariance`, `LockIsExclusive` (`OneOwner`), `OwnerNamed`; of `PoolingBatches`: `CallsInvariance`, `CallsAreTruthful` (`TruthfulCalls`), `AnswersInvariance`, `AnswersAreTrue` (`AnswersTrue`) | `StoreLockAssumption` and `BatchesAssumption`: names apart; null is no answer, number or batch |
| `Supervisor_proofs` | `StopInvariance`, `StopIsTrue` (`StoppedMeansStopped`), `AsToldInvariance`, `AdmissionStaysAsTold` (`AdmissionAsTold`) | `SupervisorAssumption`: `None` is no number, hold or other value it stands beside; both platforms |
| `Upgrade_proofs` | of `ManagedUpgrade`: `UpgradeInvariance`, `NewIsFinal` (`NoRollbackOverNew`), `ClosedInBetween` (`ClosedUntilSettled`); of `LegacyUpgrade`: `LegacyInvariance`, `OneVersionServes` (`LegacyKept`); of `TaskTransaction`: `TaskInvariance`, `TaskIsKept` (`TaskKept`) | `UpgradeAssumption` and `LegacyAssumption`: `None` and `Nothing` are no phase, version, action or request; none for the task |
| `WindowsProcesses_proofs` | of `ProcessLifetime`: `LifetimeInvariance`, `ReceiptIsTrue` (`LifetimeHeld`); of `TaskChannel`: `ChannelInvariance`, `ChannelTellsTruth` (`ChannelTold`); of `CallerObservation`: `ObservationInvariance`, `NothingIsOverlooked` (`NothingOverlooked`) | `LifetimeAssumption`: the bridge is not its own child; `ObservationAssumption`: numbers are natural, `NoThread` is no thread; none for the channel |

**SharedGroup.** `AnsweredOnce` is not inductive: to see that an answer is not a
second one, a step must know that what it answers is still open, hence that no
trace of an earlier answer exists. `Traced` spells this out. An element is in
one queue only, once, and its lane exists; what is queued has neither been
dispatched nor settled; what is open has an open owner and no answer; what is
settled has been answered; a request that was never asked has left no trace; and
each request has at most one answer, of the kind its `dispatched` flag allows.
`Accounted` adds the converse, that nothing is forgotten: `pending` is exactly
the queued and running work of open sessions, an unanswered id is open, and only
a ready group has queues. `IInv` is `TypeOK`, `Traced` and `Accounted` together.
`WorkConserving` needs that every handler that frees a slot or the buffer ends
with the pump armed; `LivesOnce` that a draining group has work, and that its
process is there as long as its state says so. The file goes bottom up: lemmas
about `Without` and `Answer`; type preservation, in one lemma per part of
`TypeOK` and per shared operator; then, for each of `Stop`, `Drain`, `Detach`,
`DropQueued`, `Sent`, `Overflows`, one lemma that `Traced` survives and one that
`Accounted` does and that each request takes a step of its contract; then one
step per action; the order of lanes and the lifecycle come last.

**SharedSessions.** `SessionsInv` is the types with `NamesTaken` (a name leads to
the generation that holds it), `KeysApart`, `ProcessFits` (a process for each
generation that has asked for one and not heard of its end) and `UsersFit`. The
refinement is proved for each generation separately: a step of the manager is a
step of `GroupLifecycle` for the generation it acts on and a stutter for others.

**StreamableSessions.** `StreamInv` is `TypeOK` with what each participant may
rely on: `Refers`, `QueueFits`, `SlotsFit` for handlers, `Mapped` and `Restored`
for ids, `Reached` for processes, `Alone`, `Heard`, `Unreaped` for what one
handler knows of another. All of it is needed: the waiter that `SlotFreed` wakes
must really be waiting, an id that is to be restored must have no process, and
the reaper is harmless only because of `Quiet`. `NoWakeupIsLost` rests on a
count: a step frees one slot at most, and each free slot wakes one waiter, while
the process of a reaped session counts until its exit. A process that never
spawned has no exit, hence the hypothesis.

**WarmPool.** `PoolInv` is `GateInv` (the permits that are out are those of
answered callers, cold starts and children, and who waits is awaited), `RoomInv`
and `RestInv`. A cold start must be at the gate only once, or its permit would be
counted twice; a free process holds no permit and is in no pool, or a refill
would pool one twice.

**StoreLock.** `LockInv` says who may own the directory, what its file then
holds, and that whoever takes it over has read the name of a process that is
dead and whose name is not given again while it is remembered.

**PoolingBatches.** Whether an answer is true is decided by three parties at
different times: the worker, which does the change between two changes of the
integer it shares with the main thread; the main thread, which concludes from
that integer when it cancels; and a message that may come after either.
`CallsInv` says for each call which values of the integer go with `done` and with
what its caller was told (`CallsTrue`), that the worker takes calls in the order
in which they were sent, and once (`InOrder`), where it is in the call it works
at (`AtWork`), and what a message under way says (`OutboxTrue`). The main thread
has many handlers and one way to touch a call (`MainStep`): each handler is shown
to be made of such steps, and the step is looked at once.

That the main thread then concludes no falsehood (`AnswersTrue`) is a second
invariant on top of the first. A request ends in a record, and the file in a
batch; neither names the other, and a batch may gather requests for several
calls, be taken back by one generation and be published again with fewer. `own`,
a function that the invariant only says exists, names the batch each request has
become a part of; a step of the worker that adds a request picks the next one
(`AddsCarries`), any other keeps it. With it, three parts say the same of a
batch, each at its own time. `StoreTrue`: what is pending was never applied, and
the generation before, which a rejection would bring back, is the same batch.
`MainTrue`: a record, a queued job or the pending batch in memory speaks of
requests that were answered `ok`, and a batch that is called cancelled is
`Gone` and `Untouched`, in every later state (`Carries`). `Linked`, `MessagesFit`
and `WorkerFits`: what is known of a call that is not over. A stage that was
settled early can no longer be accepted, a rejection follows the stage it takes
back and finds its generation still published, and a receipt describes what is
in the store (`Receipt`).

The hard part is the request that is in the pending batch while its client has
no answer: between the publication and the handling of the message, or until the
rejection of an aborted request is done. `PendingKnown` says that one request at
most is in this `Limbo`, and that without it all requests of the pending batch
are answered and the batch has a record, unless the worker died in a call and
nobody has noticed yet (`Stuck`) or a rejection did not take a change back. A commit of a batch can only follow, because the
job that asks for it is queued behind the stage (`Waiting`); so what is applied
was answered `ok` or left behind (`Ok`), and what was left behind belongs to a
stage that has ended (`LeftEnded`). From the
other side, an upgrade that is told neither busy nor unsafe has no open call and
no record that is not final, hence no pending batch but one with such a change. As for the calls, a step of
the main thread is looked at once (`MainKept`, over `MainGoes`), and so is one of
the worker (`WorkerKept`, over `WorkerGoes`).

**Supervisor.** `StopInv` is the types with `RetriesFree`, `Known`, `StopHeld`,
`ReceiptTrue` and `AnswerTrue`: every bridge belongs to a supervisor that has
begun and knows of it, a supervisor that stops keeps the hold, and a receipt or
an answer is given when no bridge is left.

`AdmissionAsTold` depends on what is still on its way. An older request that is
heard late, an agreement that is heard after another one, or a bridge that
drains could each undo what a client was told. `AsToldInv` follows each request
through the connection to the supervisor, the inbox of the child, its work and its
answer. The boxes of a bridge are in the order of the requests (`Ordered`), and a
request that a bridge has heard of leaves none before it unread (`Forwarded`). An
agreement therefore comes after all that was asked before: when the supervisor
hears of it, the earlier requests are over (`Over`, `OpenedIsOver`). The hold
file is there once a quiesce has arrived (`ClosedBefore`), and what the child
has agreed to is so until it hears of another request (`AgreedIsSo`,
`DrainsHeld`). A client asks about admission only when nobody waits for another
such answer (`LastWaits`), and closes it only when it is known to be open
(`QuiescesLate`). What it was told then holds (`ToldQuiet`, `ToldOpen`). Steps
that add no words are treated once (`QueuesAsBefore`), for whatever else they do;
three are left: a request is sent, it arrives, and an agreement is heard.

**ManagedUpgrade.** That the old version never comes back over the new one is
not inductive: the rollback acts on what it has been told. `UpgradeInv` says what
that is worth. Until the launch nothing new was started (`NothingNew`); then one
generation at most is new, known by token 1, and it has not served (`OneNew`);
from the rollback on what the upgrade has launched is gone and has not served
(`Retired`), and until it is settled so is all that is new (`NewGone`). A launcher
that has the selection in hand and not yet the journal is the difficulty: what it
has seen (`seen`) is no version until it is let in, what the rollback launches has
seen the old one, and once the journal is settled only a launcher without a token
may still be new (`NewLate`). A receipt or a farewell means that its generation is gone (`Receipts`, `Said`,
`ProvenFits`), and a stop that was sent was sent to a service of the version it was
for (`AskedFits`). From the stop to the admission `admission-held` exists and
every supervisor that listens is held (`Shut`), which needs that only one
listens and that the record is its own (`Alone`). A step of a generation is
treated once, as an evolution that keeps token and version and never comes back
(`Evolves`); a step of the upgrader that leaves the world alone has to be looked
at for journal and upgrader only (`PaperKeeps`).

**LegacyUpgrade.** The upgrader has some fifty steps, each of which may fail or be
the last. `LegacyInv` says what is there in each phase of the journal, whoever
looks: the new service (`ServiceFits`: not before the journal says so, gone before
anything is taken back, admitted only when nothing is any more), the task
(`TaskFits`) and the command line files (`CliFits`). What a step needs beyond that
is said for the place at which the upgrader is (`ServiceAt`, `TaskAt`, `CliAt`), and
is given up when it leaves (`LeavesKeep`). A step then has to show what the next
phase and place expect, and the shared lemmas treat its failures: the handler that
writes what memory holds (`CaughtKeeps`), a check and its transition
(`CheckedKeeps`), a change of the task that happened although its call failed
(`TaskCallKeeps`), a change of a file (`CliStepKeeps`).

**TaskTransaction.** `TaskKept` relates what three processes believe: the controller
by its journal, the worker by the place it has reached, and the task itself. None
knows of the death of another at once, and a worker of an earlier operation may
outlive its controller. `TaskInv` holds the parts together. Whatever others do to
the task, a call belongs to the place of a worker whose session has not failed
(`CallFits`), the operation that a recovery reads exists (`RefFits`), and the place
of the worker and the phase of the upgrade agree (`PlaceFits`). While nobody has
changed the task, more holds of the last operation (`LastFits`). The controller does
what it can do and was asked to (`CtlFits`, `OursFits`); the task is as the journal
says unless it says that it may differ (`AsRecorded`), and the journal names a task
that fits its phase (`JournalFits`). A worker that counts on the hold has it, and if
it is left from an earlier operation, then what a new one may restore starts nothing
either (`OffFits`). A worker about to admit a version has the task that starts that
version (`AdmitFits`). `RtFits` is about a first upgrade: it is no further than
prepared while its controller may still restore what it has found, and has
launched nothing, nor admitted what is new, once the task is given back.

`TaskKept` follows from where the steps are. A backend goes only at places that
count on the hold (`StopsWhere`), an upgrade settles at its admission, or as
"aborted" in a recovery that resumes (`SettlesWhere`), and an operation ends in few ways (`Ending`): the catch of a
controller writes nothing final (`CatchSaysNothing`), an action ends one with the
task it has made, a request with the task it has verified. Steps of the worker that
go on are treated once (`WorksOn`, `GoesAhead`), and so are its failures
(`StepThrows`), the catch (`ControllerCatches`) and every intent
(`ControllerIntends`).

**ProcessLifetime.** Who runs holds the job, who was started is in it, and no
sign of the end is given before the end: `event` is set only by an owner that has
seen the job empty, so the observer's verdict does not depend on exit codes.

**TaskChannel.** An authorization is a question that travels through two pipes and
three threads, and what it asks about may end at any point on the way.
`ChannelInv` follows it: commands and events carry the number of the call they
belong to, in order and once (`QueueInv`); an answer under way, in the guard or in
its output, was found while session, rights and worker were there, or the call
was not hopeless when it was asked (`AnswersInv`); the guard obeys nothing before
it is told to serve (`StartFirst`). `InboxInv` says which of the frames that were
sent are with the worker, and `FramesInv` that those on their way back, in the
worker, in the guard and in the controller are numbered without a gap.

**CallerObservation.** `ObservationInv` tells threads apart by the moment of their
birth, since numbers are used again (`ThreadsFit`). Each of the two lists names the
threads that lived when it was taken and no others (`Names`); what was opened is
held, and a number of the first list that is not held any more is not to be looked
at (`HeldFits`); what the second round has passed is the same thread in both lists
(`AgainFits`); and a thread that has borne a token since the second list is in it,
and is still to be looked at or was seen (`LastingFits`).

**LogFollow.** `LogRead` compares what was written with all that was read, and two
processes that share two names decide it. `LogInv` says nothing of a log that
somebody else has truncated; of any other it says `Uncut`. The files hold all lines
in order, and a record is never cut by a roll (`FilesFit`); of the two names the
archive is the file before the current one, or the newest while there is no current
one (`NamesFit`). What was read ends at `Position`; a cursor stands in a file that it
has read from the beginning up to `Position`, knows where the record began, and is
`matched` exactly if that record has had a hit (`InFile`), so that a hit writes the
record from its header on and no line twice. `reader.last` lies behind the cursor.
The two open files need not belong together until `CheckNames` has compared the
names again; from then on they do (`OpenFit`), and this is why the place in the loop
tells which file the cursor may be in (`PlaceFits`) and, once it has none, what is
still unread (`GoneFits`). A line may come next without a notice only if it follows
the last one (`Follows`); that is where a reader with no file of its own is excused.
The proof has a lemma for each step. `WantedGrows` carries the step that reads a
line: what a further line of a record makes wanted is nothing, itself, or the whole
record so far.

## 6. Only model-checked, and why

Liveness under fairness and `ENABLED` are outside the prover, so
`SlotsComeBack`, `CallersAnswered`, `EveryRequestEnds`, `ChannelEnds`,
`PoolComesBack`, `EndsTogether`, `EveryRequestAnswered`, `CatchesUp` and
`RecoversBeforeLaunch` are TLC's. So is induction over data, and any module with
a `RECURSIVE` operator.

`PoolingStore` keeps the operation that runs as a list of steps made from what
the disk holds; an invariant of it speaks of every suffix of every list, and
its properties stay with TLC. `LegacySweep` looks for the descendants of a
process with recursive functions, about which `SweepSound` would need an
induction. Not proved yet, though within reach: the properties of `Dashboard` and
`LocalRun`.

## 7. Not modelled

**Components.** Token cache, health, metrics and prewarm are counters and caches
that decide nothing in the modelled parts. The pooling editor is a pure function
over text. The command line but for the log, autostart, installers, build and
release tools run once. Windows wrappers and the inspection of tokens and files
are the operating system's. Message formats and validation, HTTP framing,
logging, rendering in the browser are left out for good.

**In modelled components.**

* `SharedGroup`, `StreamableSessions`: the GET stream and the old SSE transport,
  notifications, several requests in one POST, ids used twice; a session of
  `StreamableSessions` never takes a warm child.
* `WarmPool`: a `minWarm` taken from observed concurrency; delays are timers.
* `Supervisor`: an orphan bridge of a crashed supervisor may work for a moment
  (`LookedAfter`), a quiesce never races a resume, since the upgrader asks one
  thing at a time; an 'error' of `fork` (`supervise.mjs` 283–287), a port given by
  the system and "inspect".
* `ManagedUpgrade`: one upgrade, packages that are intact, no size check of the
  session records, no side-by-side trial (386–428), no staging, no failure of
  `releaseRefused`.
* `TaskTransaction`: the kind "managed", one worker at a time (the task has one
  instance, the upgrade a lock); signatures and digests are who is connected.
* `LegacyUpgrade`: the direct task adapter, no preflight, a user who edits the
  held task but does not enable it, no start after the commit.
* `TaskChannel`: one-shot query roles, an 'error' of spawn, sizes of frames, an
  impostor (refused by `BindPeer`). A close during an authorization ends the
  guard as failed instead of closed. Loss of session or rights is permanent.
* `CallerObservation`: a snapshot is taken at one moment; births and exits have
  distinct times; the guard's own thread takes no token; the end of the caller
  is `TaskChannel`'s.
* `ProcessLifetime`: hashes, comparisons of creation times, parsing of lines. A
  dying process starts nothing.
* `PoolingBatches`: the limit of sixteen calls (`pooling-writer.mjs` 112).
* `Dashboard`: no pruning to 32 receipts; a bridge that ends leaves what it has
  not answered unanswered, and what it has answered on its way.
* `LocalRun`: evidence changed before its step has passed is taken as it is; an
  edit never comes back to an earlier version; frozen inputs are one member,
  whose manifest only is looked at within a run; no clock that steps back;
  creation of a container is atomic at the daemon, a write of `run-state.json`
  one step; a failing write of the last state and the session lane's child of a
  launcher that was killed.
* `LogFollow`: `--since`, `--server`, lines cut in two, errors of the output,
  `--grep` over a truncated file, a rename that fails; truncated logs are exempt.

**Notes**, made while modelling and not shown by a run.

* `remove(name)` forgets the retry delay (`shared-sessions.mjs` 215), but a
  removed generation whose kill fails afterwards sets it again when it retires
  (236–240). `cooldowns` holds 128 names at most; one pushed out (240) may
  restart before its delay. A generation that drains after a request timeout and
  then empties stops with `failed` set (978), which also reports it.
* Managed upgrade: a launcher that nobody waits for any more may be taken for the
  new generation by a recovery of "rollback-launching", which `docs/upgrades.md`
  says is refused (it takes four generations); the error after the twelve seconds
  of `startInstance` does not say that the cleanup is unverified; after a lost
  acknowledgement the journal stays at "admitting".
* Account upgrade: a recovery that fails between its bootstrap and the write of
  `instance.json` strands later ones, though `docs/account-upgrades.md` says that
  `--recover` finishes the job; one that is refused at "admitting" leaves the
  task on the worker action with triggers off.
* Legacy upgrade: a death between a change of the task and its record, at
  "legacy-held" between restoring and 'legacy-aborted', or between the pointer
  and its record leaves a journal that every recovery refuses.
* Dashboard: `SnapshotOrder` retires only instances that were shown. An answer of
  a bridge never shown that arrives after its successor was takes the page to the
  dead instance and retires the living one until a reload. The run contains this
  case; `NothingTakenBack` says only that the page returns to nothing that it has
  shown and left.
* Log: a follower that looks between a rename and the next append keeps no
  place; two more rolls before its next look lose a generation without a notice
  (`docs/operations.md` 69–71). `LogRead` allows this one case (`reader.blind`).
* Credentials (not modelled): with health probing on, a server with an unknown
  `auth.type` passes `reloadConfig` and makes `probeServer` throw in its timer
  (`mcp-bridge.mjs` 1603–1608, 611); a 401 without `WWW-Authenticate`, a 403 or a
  probe's 401 leaves the refused token cached (565–567); a refresh drops a valid
  token before the new one is minted; an upstream cut in mid-answer leaves a
  proxied call open until its client leaves; the auth command has no timeout.

Three hazards in `PROJECT.json` have no property, since the code does not keep
what one would say: the reaper and a process that never spawned, the refill of a
recycle, and the id of a process that was killed (section 4).

## 8. What is left

1. Proofs: `Dashboard` and `LocalRun`.
2. Models: the GET stream and batches of a session, the proxy to HTTP servers
   with its token cache, the first account upgrade of a legacy installation, the
   side-by-side trial of an upgrade.
3. Refinements: the backend of `TaskTransaction` by `ManagedUpgrade`, the store of
   `PoolingBatches` by `PoolingStore`, the verdict of `Supervisor` by
   `ProcessLifetime`; today each of these says in prose what it relies on.
