# OpenChrome: a verification project

OpenChrome is an MCP server that drives Chrome over the DevTools protocol (CDP)
for many clients at once. Its hard part is not the tools that click and read: it
is who owns a browser, a tab or a page while several event-loop turns, several
sessions, several processes and Chrome itself change the answer. This directory
models that part in TLA+, checks it with TLC and proves its safety with TLAPS.

Paths below are relative to the repository.

## 1. Inventory

### 1.1 Process level

| component | state | operations | hard behaviour |
|---|---|---|---|
| controller lock (`src/chrome/controller-lock.ts`) | a file per port: pid, start time, hostname, heartbeat | acquire, acquire with health check, heartbeat, release | several processes, one system call at a time; crashes between two of them; takeover of a live owner that has lost its Chrome |
| owner self-release, broker election (`src/chrome/owner-self-release.ts`, `src/broker/*`) | probe counters, elected broker | probe, release, elect, proxy | a recovery during the probe; two brokers |
| Chrome processes (`src/chrome/launcher.ts`, `pid-manager.ts`, `process-watchdog.ts`) | pid records, relaunch state | launch, watch, kill, relaunch | crash between spawn and record |
| Chrome pool, named contexts (`src/chrome/pool.ts`, `contexts.ts`) | instances and contexts with reference counts | acquire, release, evict | counts against failures |
| crawl jobs (`src/core/crawl/runner.ts`, `job-store.ts`) | an event log per job, a lock file | start, advance, cancel | overlapping `crawl_status` calls of several processes; a death between two appends |
| task ledger (`src/core/task-ledger/*`) | `meta.json` and `result.json` per task, a lock file | start, run, cancel, finish, count calls, sweep for orphans | the sweep of a new server against runners of living ones; pids that are used again |
| atomic files (`src/core/fs/atomic-file.ts`), run harness | JSON files, lock files | write, append, lock | a lock whose holder died |
| process lifecycle (`src/core/process/*`) | activity counters, timers | idle exit, parent watch, shutdown | idle exit against late activity |

### 1.2 Inside one process

| component | state | operations | hard behaviour |
|---|---|---|---|
| session manager (`src/session/manager.ts`) | sessions, workers, `targetToWorker`, slot reservations, borrowed tabs | create and delete a session, create, register, recover, borrow, close a target, idle sweep, validation after a reconnect | every operation awaits Chrome and resumes with values it captured before |
| target leases (`src/session/target-lease-registry.ts`) | lease per target, sliding TTL | acquire, touch, release, transfer, expire | expired leases are removed before their tabs are closed |
| target creation ledger (`src/session/target-creation-ledger.ts`) | a record per popup: pending, committed, blocked, closed | record, commit, block, close, clear | the window closes while it is registered |
| target command queue (`src/session/target-command-queue.ts`) | per target: waiting items, running marker, closed flag | enqueue, drain, abort, deadline, cancel, reconcile | timers, aborts and closes that race with the start of a command |
| request queue (`src/session/request-queue.ts`) | a FIFO per session | enqueue, timeout | a timed-out request that is still running |
| connection pool (`src/cdp/connection-pool.ts`) | available and used pages, replenishment | acquire, acquire a batch, release, maintain, shut down | overlapping batches, dying pages |
| CDP client (`src/cdp/client.ts`) | one connection, its state, generation, heartbeat and pending promise; target index | connect, forceReconnect, handleDisconnect, disconnect, heartbeat checks, target events | attempts that overlap and supersede each other; events in any order with respect to calls |
| MCP server, transports, handles, rate limiter | requests in flight, HTTP sessions, handles | dispatch, drain, cancel | drain against new requests |
| workflow engine (`src/orchestration/workflow-engine.ts`, `state-manager.ts`) | accounting in memory, `orchestration.md`, a scratchpad per worker, timers | set up, update, complete, force, clean up | an agent, two timeouts and a breaker complete the same worker; write-behinds out of order; restart |
| tenants, storage state, persistence | contexts, saved cookies | allocate, save, restore | saves against restores and session ends |

Tools, DOM extraction, perception, hints, the command line and the dashboard work
on page content or on presentation; they keep no protocol state.

### 1.3 How the parts meet

* The session manager calls the CDP client (open, close, find a page), which calls
  back on `targetcreated`, `targetchanged`, `targetdestroyed`, on renderer crashes
  and when a reconnect has failed. Calls and callbacks interleave at every `await`.
* A registered target has an entry in four places: `worker.targets`,
  `targetToWorker`, the lease registry and, for a popup, the creation ledger.
  Every path into or out of ownership has to update all of them.
* Commands for a target go through its command queue; losing the target closes
  the queue (`cancelTarget`), a reconnect reconciles the queues with what is alive.
* Processes meet only in the lock file and on Chrome's debug port.

### 1.4 What makes the modelled parts correct

* Command queue: an error that says a command was not started is true; one command
  at a time; first in first out; no command waits for ever or is forgotten; one
  outcome per caller; a closed queue starts nothing.
* Controller lock: a stale owner never resurrects its lock; every acquisition
  decides; a crash or a half-zombie never locks the port for good; a healthy owner
  is never evicted; takeover and cross-host rules.
* Target ownership: the registries agree; capacity is never exceeded and never
  leaks; a tab does not change hands; a deleted session owns nothing; a closed
  popup is forgotten; the user's own tabs are never closed; a tab in use is never
  reclaimed.

* Crawl jobs: the page limit and the visited set hold across overlapping calls; no
  link is lost but to a crash between two appends; nothing is added after a
  cancellation or a completion; every call returns.
* Task ledger: a task goes through the states of `TaskLife` and through no others; a
  sweep fails exactly the tasks nobody runs; no update undoes another; a cancellation
  is honoured; a task ends.
* Workflow engine: the counters agree with the workers' statuses wherever they are
  kept; nobody is forced twice, nobody is left running for ever.
* CDP connection: one connection, watched by a heartbeat; no promise, flag or state is
  left behind by an attempt that was superseded; a failure is reported only when there
  is one.

The hazards behind these properties, with the line where each one bites, are in
`PROJECT.json`; section 4 has the smaller ones.

## 2. Modules

| module | models | lines of code behind it |
|---|---|---|
| `TargetCommandQueue` | `TargetCommandQueue` and the map entry of `TargetQueueManager` for one target | `src/session/target-command-queue.ts` |
| `CommandLife` | what the queue promises the caller of a command | `src/session/target-command-queue.ts` |
| `TargetCommandQueueProofs` | its theorems, the refinement of `CommandLife` among them | |
| `ControllerLock` | acquisition, health check, takeover, heartbeat, release | `src/chrome/controller-lock.ts` |
| `ControllerLockProofs` | its theorems | |
| `TargetOwnership` | the registries of the session manager and the Chrome events that change them | `src/session/manager.ts`, `target-lease-registry.ts`, `target-creation-ledger.ts`, `src/cdp/client.ts` |
| `TabLife` | what the session manager promises of the ownership of a tab | `src/session/manager.ts` |
| `TargetOwnershipProofs` | types, slots and capacity | |
| `OwnershipRegistryProofs` | who owns which tab, the refinement of `TabLife` among it; extends the above | |
| `CrawlJob` | one crawl job, the calls that advance it, cancellation, deaths of processes | `src/core/crawl/runner.ts`, `job-store.ts`, `utils.ts`, `src/tools/crawl-*.ts` |
| `CrawlJobProofs` | its theorems | |
| `TaskLife` | what a task promises: its states, and when it has a result | `src/core/task-ledger/types.ts` |
| `TaskLedger` | the locked update, runner, tools and sweep; implements `TaskLife` | `src/core/task-ledger/*`, `src/tools/oc-task-*.ts` |
| `TaskLedgerProofs` | its theorems, the refinement of `TaskLife` among them | |
| `WorkflowEngine` | one workflow and everything that may complete its workers | `src/orchestration/workflow-engine.ts`, `state-manager.ts` |
| `WorkflowEngineProofs` | its theorems | |
| `CdpConnection` | connecting, reconnecting and the heartbeat of the CDP client | `src/cdp/client.ts` |
| `CdpConnectionProofs` | its theorems | |
| `MC...` | symmetry sets and constants for TLC | |

Operators introduced by a comment "Fault:" are broken variants of the definition
that follows them. Nothing in a specification uses them; they document the mistake
that each property is there to notice.

### 2.1 TargetCommandQueue

One action is one turn of the event loop. `Enqueue` makes the admission checks in
the code's order and, when no drain runs, also performs the synchronous part of
`drain()`: pops, rejections of stale items and the start of the next command happen
before the turn ends. `Settle` is the turn in which `fn()` settles and the loop goes
on. `TimerFires` and `Abort` are the item's timer and abort listener, `CancelTarget`
closes the queue and keeps it as a tombstone, `Reconcile` drops the entry; a
command still executing then belongs to `orphans`, since its drain holds the old
queue object. `due` and `aborted` are time and the caller's signal. A command is one
call of `enqueue`, so it is made once. Results, metrics and snapshots are left out.
`CommandLife` is what remains of all this for a caller: a promise that is refused before its
command starts, or a command that starts once and then ends. The queue instantiates it
with its promises and the commands it has started (`CommandLifeSpec`).

### 2.2 ControllerLock

One action is one system call of one process, because processes share only the file
system. A process creates the file at most once, so a process name also names the
inode it created; `linked` is the inode at the path, `names` what each inode says,
`fresh` the inodes whose heartbeat is within the grace period. `FindUnreadable`,
`FindDead` and `Unlink` are the retry loop of `acquireControllerLock`; `FindAlive`,
`Probe`, `Recheck` and `TakeoverUnlink` the health check around it; `BeatOpen` to
`BeatWrite` the heartbeat, which truncates and writes through a descriptor.
A pid of another host may or may not exist locally: `MayLookAlive` and
`MayLookDead` allow both answers. Whether Chrome answers (`cdp`), crashes and the end
of a grace period are the environment.

### 2.3 TargetOwnership

One action is again one turn. An operation that awaits is split at the await, and
what it captured is a variable: `maker` is the worker object a creation will register
with, `closing` the session of a `closeTarget`, `popup` the opener's owner,
`reclaim` the leases an idle sweep has removed, `deletion` the worker a
`deleteSession` walks through. A worker object is a session id with its life, so
that a session that is deleted and created again has a new worker while old calls
still hold the old one. `Drop` and `Forget` are `onTargetClosed`, `Register` the three
registry updates of every way in, `Admits` the checks of
`registerExternalTargetLocked`. `TabCloses`, `PageAppears` and `PopupOpens` are
Chrome's; the event for a closed tab is in `notices` until it is delivered.
`ReconnectFailed` is the client's `reconnect_failed`: it finds every tab gone, with the events of
the old connection lost, or a Chrome that is still there (section 4, `cdp_stale_failure`).

Abstractions: each session has its default worker; the pool keeps no returned page
(the default setting); URLs are only allowed or forbidden by the domain policy;
time is the set `idle`. The constants select the features in use: `UserTabs`
is non-empty when user tabs are enabled, which turns recovery off, as in the code;
`Recoverers` are the sessions whose clients name tabs nobody tracks;
`Batchers` those that register pool pages; `Deleters` the overlapping deletions.

`TabLife` has only the holder of each tab and the set of tabs whose one turn is over: a tab
is taken once, when nobody has it, let go for good, and taken back only by a session that
recovers. `TargetOwnership` instantiates it with the ownership map and with `Spent`,
the tabs whose registration is behind them or will never come (`TabLifeSpec`).

### 2.4 CrawlJob

The job is an append-only log that every reader replays; the model keeps what the
replay yields (queue, visited keys, pages, status), and an append applies its event.
`Call` is a `crawl_status` with its `advance`; `Load`, `Expire`, `Seed`, `Promote`, `Page`,
`FetchReturns` or `FetchThrows`, `QueueLinks`, `After`, `Wake` and `Final` are the stretches
of `advanceJob` between its awaits. The lock of the job is held over the fetch of a
page. `fetched` and `enqueue` are two appends, and a process may die between them
(`Crash`); the lock of a dead holder goes stale after a while. A queue entry, its key and the
URL that is logged are told apart, because the replay compares them and the seed of the
queue has no key. The queue of the code is `queue`, everything that was ever enqueued, without
the positions in `gone`, which left it: the order is the same, and an entry keeps its position.

### 2.5 TaskLife and TaskLedger

`TaskStore.update` is a protocol: wait for the lock file, read and compute, write,
release. Runners, sweeps and tool calls are its actors, and a server may die at every
point (`Request`, `Lock`, `Write`, `Release`, `UpdateThrows`, `Crash`). The mutators
(`Started`, `RunEnded`, `Reaped`, `Cancelled`, `Finished`, `Recorded`) are functions from a row to
a row. A server has a pid that may be used again after its death; `Boot` lists the
candidates of its sweep and `Reap` looks at them one by one. `TaskLedger` instantiates
`TaskLife` with the rows' statuses, the tasks that have a `result.json` and the runners
that have invoked their tool, and the run checks `LifeSpec`: no transition out of an
end state, no tool invoked for a task that was cancelled first, no COMPLETED row
without its result.

### 2.6 WorkflowEngine

`completeWorker` is three actions: the scratchpad (`CompletePad`), the accounting under the
completion lock (`AccountInMemory`), the write-behind of the snapshot that the accounting
took (`WriteBehind`); after a restart `FallbackRead` and `FallbackWrite` work on the file
instead, or the write fails (`FallbackFails`). `Complete` is the agent's call, `WorkerTimeout`, `GlobalTimeout` with
`GlobalForce`, and `Update` with its circuit breaker are the ways to force a worker, all through
`ForceComplete`. A worker has two slots for forced calls (`Forcers`), because the global timeout
may force a worker that is still being forced once a cleanup has dropped the runtime entry that
would have stopped it. One
workflow is modelled; the data of a worker is a member of a small set, and `Reports` are the
statuses and data with which agents complete a worker.

### 2.7 CdpConnection

An operation in progress (a call of `connect`, `forceReconnect`, a run of
`handleDisconnect`, a heartbeat check) is a record in one of a few slots that are used
again, so that the number of calls over time is not bounded. `connectInternal` is shared:
`EnsureReturns`/`EnsureThrows`, `WsOpens`/`WsFails`/`WsTimesOut` and `PauseEnds` are its awaits, and
`Succeeds`, `Superseded` and `Threw` what each caller does with the three ways it ends.
The generation number is only ever compared with the newest one; an operation keeps that
comparison (`current`). What waits for the answer of a connection that is being
closed is rejected before the next event is handled (`Due`), as is what waits for a
promise that has just settled: the comment at `src/cdp/client.ts:644` relies on it. A
connection is open, half-open (`GoesSilent`: `isConnected()` is still true) or closed.
The timeout of `puppeteer.connect` does not cancel it (`src/cdp/client.ts:806-817`): a connection
that opens after it is in `late` until Chrome ends it, since no code has a reference to it. It is
put there at the timeout, because nothing in the client waits for its answer or can notice when
it comes. `attempts` is one counter for all loops of `handleDisconnect`, as in the code, so a loop
may find after its back-off that another one has used up or reset the attempts. `stale` and `quit`
are history: what `Watched` excepts lasts until the next `connect()` or `forceReconnect()` succeeds.
Connections are numbers that are used again; a new one takes the lowest free number and a late
one the highest, in place of a symmetry.

## 3. Runs

`tlc -config <cfg> <module>`. Runs marked V end in a counterexample: the property is
what a comment or a test of the repository says, and the code does something else.
Deadlock is not checked anywhere: a model stops when its finite supply of
commands, processes, tabs or calls is used up.

| run | bounds | shows |
|---|---|---|
| `queue_safety` | 4 commands, 2 may wait, symmetric (84,329 states) | `NotStartedIsTrue`, `SerialExecution`, `NoStrandedCommand`, `FirstInFirstOut`, `TombstoneHolds`, `CommandLifeSpec` (refinement) |
| `queue_liveness` | 3 commands, fair (50,144) | `WaitIsBounded`, even behind a command that hangs |
| `lock` | 2 processes, 1 takeover, 1 iteration before the last attempt, fair (8,929) | `NeverResurrected`, `Decides`, `StuckOwnerReplaced` |
| `ownership_popups` | 1 session with 2 lives, 1 tool tab, 1 popup, capacity 2 (2,566,478) | `ReservationsBalance`, `CapacityRespected`, `RegistriesAgree`, `OrphansComeLate`, `DeadPopupForgotten` |
| `ownership_user_tabs` | 2 sessions, one of them the default one, 1 tool tab, 1 user tab (113,816) | `UserTabKept` (and the loan ends with its session), `SweepSparesDefault` |
| `ownership_recovery` | 3 sessions, 2 tabs, capacity 1; two of the sessions recover, one of these batches (917,728) | `TabLifeSpec` (refinement) |
| `crawl` | 3 URLs, 2 overlapping calls in 2 processes, 1 death, fair (444,558) | `PagesWithinLimit`, `FetchedOnce`, `LinksFollowed`, `EndedIsFinal`, `Returns` |
| `task_ledger` | 1 task, 2 servers with 3 starts and 2 pids, 2 tool calls, fair (850,424) | `LifeSpec` (refinement), `SweepIsExact`, `CallsCounted`, `CancelHonoured`, `TaskEnds` |
| `workflow` | 2 workers, 2 requests of agents, 1 restart (1,777,247) | `Consistent`, `ForcedOnce`, `FallbackKept`, `NeverStranded` |
| `workflow_force_data` V | the same | a forced completion replaces reported data by null |
| `cdp_connection` | 3 operations in progress, 2 connections open or referred to, one of them late, 2 attempts, 2 retries, symmetric; any number of calls (1,145,836) | `OneConnection`, `Watched`, `NothingLeftBehind`, `InCharge` |
| `cdp_stale_failure` V | the same | `reconnect_failed` is emitted beside a live connection |

Why the bounds are enough. Queue: two waiting commands and a third that is refused
are what order, overtaking and the limit need; a fourth executes meanwhile; what is
proved holds for any number. Lock: a
process acts at most once as owner, so two cover owner and contender; the safety
invariant is proved for any number.
With two processes there is one takeover to make, so an iteration limit of 1 is the
one that is reached. Ownership: two lives let a call of the first life finish in the
second; one tab of each kind with capacity 2 lets the limit be reached by reservations,
members and both. `ownership_popups` leaves recovery out, see below. Two sessions with one user tab let
the sweep's list be overtaken by a loan to the default session; three sessions of which two recover
let a tab that was let go come back to either, and two recoveries of one tab overlap, while the third session
opens and loses tabs of its own. That one recovery takes a tab from another needs a third tab, since a session without tabs recovers none
(`src/session/manager.ts:1629`); for that the refinement is proved, not run. Crawl: a start page
with two links that lead back to it and to each other has every case of the visited
set; two calls are one that decides and one that is in the middle. Ledger: rows are
independent, so one task is enough; three starts are a server that dies, one that
sweeps and one that takes its pid. Workflow: two workers are one that ends and one
that is still running, and two requests let an agent complete twice or two of them
overlap after a restart; agents succeed with data or fail without (`SomeReports`), since the accounting treats
PARTIAL, which the forced completions report, like SUCCESS. Connection: an operation
refers to no more than one other, and three at once are a newest attempt, one it has
superseded and a probe or check beside them. Two connections are the client's own and one that
is being probed after its end, or one that came late; at most one late connection at a time is a bound
of `WsTimesOut`. Late connections do not interact with anything, so more of them add no case.

Fairness. `queue_liveness` assumes that time reaches a deadline and that an armed
timer fires (`enqueue` sets one for every waiting item); nothing is assumed of
commands, callers or cancellations. `lock` assumes that a process in the middle of a
call goes on until it crashes; starting, heartbeats, releases, crashes, grace periods
and Chrome are left to chance. `crawl` and `task_ledger` assume that a call, a runner or a
sweep goes on until its process dies (fetches, tools and locks have time-outs) and that
the lock of a dead holder goes stale; calls, cancellations and deaths are left to chance.

## 4. Divergences

The two V runs are recorded as findings in `PROJECT.json`:

* `cdp_stale_failure`: `launcher.ensureChrome` is awaited outside the `try` of `connectInternal`
  (`src/cdp/client.ts:795`), so a rejection skips the generation check. An attempt that
  was superseded then emits `reconnect_failed`, upon which the session manager drops all
  targets ("Chrome is gone", `src/session/manager.ts:257`), and a superseded loop also
  stops the heartbeat of its successor. `Watched` excepts exactly that loop. Two overlapping calls of `ensureChrome`
  can end differently when the launcher has a cached instance, which `forceReconnect` does not
  invalidate and each call probes for itself (`src/chrome/launcher.ts:161-184`). Without one, calls that overlap
  share one launch and its end (`launchInFlight`, 187-200); the violation then needs a loop that comes back from its
  back-off, and so makes a call of its own; in launch mode `isolated` that call throws because the port is in use (226).
* `workflow_force_data`: `forceCompleteWorker` "preserves any data collected so far"
  (`src/orchestration/workflow-engine.ts:450`) but completes with null.

Statements of the repository that the code does not keep, written down as definitions at
the end of the modules; to see the counterexample, add the definition to the
configuration named:

* `ControllerLock.HealthyOwnerNeverCondemned` (`MCControllerLock.cfg`): a contender that
  reads between the heartbeat's truncate and write (`src/chrome/controller-lock.ts:443`)
  sees a malformed file and removes a healthy owner's lock; line 319 says "A genuinely
  healthy owner is never evicted."
* `ControllerLock.TakeoverSparesNewOwner` (the same with three processes): compare and
  unlink are two calls (298-303), so the second of two takeovers removes the new owner's
  lock; line 323 says "an atomic compare-and-unlink takeover".
* `ControllerLock.CrossHostNeverRaced` (the same with `Remote = {p2}`): the local pid check
  (164) removes a live lock of another host before the hostname is looked at; line 321
  says "never raced cross-host".
* `TargetOwnership.DeletedSessionOwnsNothing` (`MCOwnershipPopups.cfg`): a creation in flight
  registers its tab (`src/session/manager.ts:1354`) for a session that was deleted;
  `tests/session/manager-target-creation.test.ts:210` rejects the same race for popups.
* `TargetOwnership.NeverReassigned` (`MCOwnershipRecovery.cfg` with `ToolTabs = {a, b, c}`): the second
  of two recoveries takes the tab from the first (`src/session/manager.ts:1635`), while
  `tests/session/manager-contracts.test.ts:120` says 'does not recover or reassign a
  target already owned by another session'.
* `TargetOwnership.ActiveTabNeverReclaimed` (`MCOwnershipRecovery.cfg`, without symmetry): a tab
  used after the sweep took its lease, while the sweep closes another, is closed all
  the same (`src/session/manager.ts:820`), although
  `src/session/target-lease-registry.ts:98` says "an actively used tab is never reclaimed".
* `CrawlJob.NoDoubleFetch` (`MCCrawlJob.cfg`): the start page has no key in the queue and is
  fetched again through a link to it; `FetchedOnce` states what holds.
* `TaskLedger.CancelBeatsFailure` (`MCTaskLedger.cfg`): a tool that throws after the
  cancellation was written and before the poll saw it is recorded FAILED; the catch
  block (`src/core/task-ledger/runner.ts:107`) does not read the row again.
* `TaskLedger.ResultIffCompleted` (`MCTaskLedger.cfg`): `src/core/task-ledger/store.ts:18` says `result.json` is
  "present iff COMPLETED" (`types.ts:160` likewise), but the runner writes it before the last transition and
  for every tool that returns (`runner.ts:97` and 100), so a task has it too that was cancelled or whose tool
  returned an error; `TaskLife` promises one direction, no COMPLETED task without its result.
* `WorkflowEngine.CleanupDeletesWorkers` (`MCWorkflowEngine.cfg`): `cleanupWorkflow` passes the
  workers' names where ids are wanted (`src/orchestration/workflow-engine.ts:702` and 790),
  and `deleteWorker` ignores an id it does not know; line 787 says "Delete workers
  (which closes tabs and contexts)".

Also met while modelling:

* `tryRecoverTarget` (`src/session/manager.ts:1635`) adds a tab to a worker without the
  capacity check of the other ways in, while line 76 says "New work is rejected at
  capacity". `registerExistingTarget` (line 1481), for pool pages, makes no check either.
  `CapacityRespected` therefore excepts the workers of the sessions that use these two, and only those.
* `deleteSession` (`src/session/manager.ts:779`) removes the session by id: the slower of
  two overlapping deletions removes a session created again in between. Two
  `Deleters` show it.
* `disconnect()` during an attempt does not stop it: `connectInternal` connects all the
  same, or the loop returns from its back-off with `reconnecting` still raised
  (`src/cdp/client.ts:733`). The history variable `quit` excepts it.
* A `connect()` with the other `autoLaunch` can be kept waiting by a series of
  `forceReconnect` and `connect` calls (`src/cdp/client.ts:1142`).
* A `connect()` that is superseded by a `forceReconnect` returns before the other attempt has
  ended (`src/cdp/client.ts:1152`).
* A `puppeteer.connect` that answers after its timeout leaves its browser open, and nobody closes
  it (`src/cdp/client.ts:806-817`). The model has it, `OneConnection` excepts it from "closed" and says
  that it is never adopted and never has a listener.
* `createWorker` (`src/session/manager.ts:888`) and `createSession` (622) check before their
  awaits: two calls for one id, or two sessions at the limit, both pass. A request that
  timed out in `src/session/request-queue.ts:78` goes on running beside the next one.
  Not modelled yet.
* A job that expires while a call advances it takes more pages
  (`src/core/crawl/runner.ts:263`); the pid of a dead server that is used again keeps its
  tasks RUNNING (`src/core/task-ledger/store.ts:389`), as does a last update that fails
  (`runner.ts:117`); a write-behind may land after the cleanup of its workflow
  (`src/orchestration/workflow-engine.ts:817`). The models have these behaviours, and the
  properties except them.
* A comment in `src/config/defaults.ts:39` still says the oldest tab is closed at the
  limit; the code rejects.

## 5. Proofs

`TargetCommandQueueProofs`, for any `Commands` and any `MaxPending` (assumption
`QueueAssumption`: a positive limit, and `NoCommand` is no command):

* `TypeCorrect`, `NotStartedNeverRan`, `OneAtATime`, `NoLostWakeup`, and the action
  properties `TombstoneStays` and `NobodyOvertakes` (`FirstInFirstOut`).
* `QueueImplementsLife`: `Spec => CommandLifeSpec`. A turn moves every promise along its life or
  leaves it, and starts at most one command, one that was never started. `QInv` is needed for
  both: what a drain takes from the queue is a command whose promise waits (`WaitingAgree`),
  and such a command was not started (`StartedShape`).
* The inductive invariant is `QInv`. The properties speak of promises, and no property
  is inductive by itself: `QInv` adds that the queue and the promises agree on who waits
  (`WaitingAgree`), the drains and the promises on who runs (`RunningAgree`), that no
  command waits twice (`WaitsOnce`, else a removal would leave a copy behind), that
  waiting commands imply an open entry with a running drain (`EntryShape`), and that
  only executing or finished commands were started (`StartedShape`).
  `DrainLemma` says what one pass of `drain()` leaves behind; `Enqueue` and `Settle`
  use it, removals and cancellations have lemmas of their own. For the order,
  `DrainInOrder` and `RemoveInOrder` say where an item that stays moves to, and
  `StepInOrder` puts them together: a command that is still waiting keeps behind it
  what was behind it, and a new one joins at the end.

`ControllerLockProofs`, for any processes on any hosts, and any limits
(`LockAssumption`):

* `LockTypeCorrect` (the limits on takeovers and iterations included) and
  `StaleOwnerNeverResurrects`.
* `LInv` adds that a heartbeat past its pid guard has its own inode open
  (`BeatsOwnInode`: the write then cannot reach another owner's file) and that a
  contender past the loop's guards has budget left (`WithinBudget`).

`TargetOwnershipProofs`, for any sessions, tabs, limits and bounds
(`OwnershipAssumption`: among others that there are finitely many tabs):

* `OwnershipTypeCorrect` and `SlotsAreReturned`, with every feature of the model on.
  `OInv` adds to the two that a live session has been created (so that the worker it
  leads to exists), that a window just opened has an opener, and that a tab Chrome has
  not opened has no maker, without which one page could be counted for two creations.
  The range of the reservation counters and their balance need each other: a counter
  that is decremented is positive because a creation in flight is counted in it.
* `CapacityNeverExceeded`: the targets and reservations of a worker together never exceed
  `MaxTargets`, with every feature on. Recovery and `registerExistingTarget` add targets without
  looking at the limit (section 4), so the workers of `Recoverers` and `Batchers` are excepted; a lemma of its
  own (`IntrusionKeepsCapacity`) says that such a registration leaves all other workers alone. The
  argument for these is that a registration either goes through `Admits`, or takes the place of
  the reservation it gives up, and that every other step only loses targets.

`OwnershipRegistryProofs`, for any sessions, tabs, limits and bounds:

* `OwnershipImplementsTabLife`: `Spec => TabLifeSpec`, without hypotheses. `FInv` is the reason: a tab enters the registries at most once, except a
  user's tab, which enters when nobody has it. Whatever may still be registered (a window
  whose handler has not decided, a page whose creation is under way, a page of the pool)
  has no owner, no lease, no close under way and no worker, so no registration can meet
  another owner. Recovery is the exception, since `tryRecoverTarget` does not look at the owner again after
  its await. `Claimable` says what it may meet: a tab that is being recovered is nobody's or some
  recovering session's. Each action is a `Take`, a `LetGo` of a set of tabs, a
  `Recover` or a stutter.
* `NoTabChangesHands` (`NeverReassigned`, an action property) follows from that refinement for at most one
  session in `Recoverers`: the other owner can then only be itself. With two the property fails (section 4).
* `DefaultSessionIsExempt` (`SweepSparesDefault`), without hypotheses. `NotDefaults` says that no
  lease of the default session is idle and no tab is on the sweep's list in its name; the sweep acts on a tab
  only in the name of the owner whose lease it removed, so what the default session has got since is safe.
* `OnlyLateCreationsAreOrphaned` (`OrphansComeLate`), without recovery and under `[]OneDeletion`: the exact
  extent of the divergence `DeletedSessionOwnsNothing`. `Home` says that a tab with an owner is listed by some
  worker of its session: by the one the session has now, and then the deletion visits it, or by one of an
  earlier life, which `RInv` excludes for popups and loans (`PopupHome`, `Loans`).
* `RegistriesAlwaysAgree` and `PopupOwnersLive`, without recovery and under `[]OneDeletion` (no
  two deletions of one session at the same time). Both hypotheses are needed: a recovery
  registers a tab again, and the slower of two deletions removes a session without its
  tabs (section 4). The runs have one `Deleters`, where `OneDeletion` is trivial; the
  theorems allow any number of them on different sessions. `RInv` adds to the registries what each operation in flight may rely on: a
  worker's target and a target being closed are the session's or nobody's, a worker object
  not made yet is empty, a deletion works on the worker its session still has and what it
  has visited is out of the ownership map for good, a popup with an owner is listed by that
  owner's worker, so the deletion will visit it.
* `UserTabsAreKept`, under `[]OneDeletion`. `Loans` in `RInv` says that a user's tab has an owner
  exactly while it is on loan, is listed by that owner's worker and no other, and is never
  in a close. With user tabs enabled the code recovers nothing (`OwnershipAssumption`), so recovery needs no
  hypothesis here.
* `DeadPopupsForgotten`, without recovery, for overlapping deletions too. `DInv` says
  that the owner of a popup that is gone will still be told: Chrome's event is to
  come, or the handler is still to look at the tab.

`CrawlJobProofs`, for any site, limits, calls, processes and deaths (`CrawlAssumption`):

* `LimitHolds` (`PagesWithinLimit`), `PagesFetchedOnce`, `NoLinkIsLost` and the action
  property `EndIsFinal` (`EndedIsFinal`).
* `JInv` adds the meaning of the lock (`Locked`: who fetches a page holds it, found the job open and
  below its limit when it took it, and has an entry whose key was not visited), that a job past
  its seed has a page or a queue entry (`Started`), that only the seed has no key
  (`Entries`), and the count behind "fetched once" (`Tally`: a URL was fetched at most as
  often as it is in the visited set by key or by URL).

`TaskLedgerProofs`, for any tasks, servers, pids and tool calls (`LedgerAssumption`):

* `LedgerTypeCorrect`, `NoCallIsLost` (`CallsCounted`), `CancelIsHonoured`, `SweepsAreExact`.
* `LedgerImplementsLife`: `Spec => LifeSpec`, the refinement of `TaskLife`, one step per
  action: a write of a draft is a step of the task's life, everything else a stutter.
* `TInv` rests on the lock: between the read and the write of an update the row does not
  change (`Drafted` relates the draft to the row as it is now, and two holders of one lock
  are the same actor by `LockOK`). A runner and its row move together (`RunnerOK`), while
  a runner lives its row carries the pid of a server that lives (`HomeOK`), which is what keeps
  sweeps away from it, and what a sweep has found is ended or still on its list (`SweepOK`).
  `CallsCounted` needs the number of recordings under way, hence finitely many `Calls`.

`WorkflowEngineProofs`, for any workers, requests, stale updates and restarts
(`WorkflowAssumption`: finitely many workers, at least one):

* `CountersAlwaysMatch` (`Consistent`), `NobodyForcedTwice` (`ForcedOnce`),
  `FallbackLosesNothing` (`FallbackKept`), `NobodyIsStranded` (`NeverStranded`).
* `WInv`: memory, file and every snapshot still to be written count correctly (`Books`, which is
  why write-behinds may land in any order); the completion lock is held over an await only
  by the file fallback (`LockKept`); a timer is armed exactly while its worker is watched and
  was not forced (`Timers`); a worker without timer has ended or is being completed
  (`Watched`); what the fallback has read contains what the others reported (`Fallback`).

`CdpConnectionProofs`, for any number of overlapping operations, connections, attempts and
retries (`ConnectionAssumption`):

* `ConnectionTypeCorrect`, `OnlyOneConnection` (`OneConnection`), `AttemptsLeaveNothing`
  (`NothingLeftBehind`), `SomebodyIsInCharge` (`InCharge`), `ConnectionIsWatched` (`Watched`).
* `CInv`: at most one operation is current (`OneCurrent`), and while it makes its attempt there
  is no browser (`Vacant`), so that the browser a successful attempt installs replaces
  none; a client that says it is connecting has such an attempt (`Charge`); a `disconnect()`
  that met no operation leaves none behind (`QuietEnd`); a loop that may still succeed has
  left the heartbeat running (`LoopWatched`); a check is about the browser in use, or another
  attempt is under way (`CheckSeen`), so that its verdict never starts a second loop. `Aside` has what the
  others do not need: the range of the shared counter of attempts, and that the client's own
  browser is not a late one, which holds because a late connection has a number nobody uses.

The specifications that have a field that is a record or nothing assume that
`None` is none of those records (`NoneAssumption`), which a model value satisfies. `ReportsAssumption` says that
agents report end statuses with data or none. `OwnershipAssumption`
also says that tool tabs, popups and user tabs are different tabs, `LedgerAssumption` that tasks,
servers and calls are different names: each name is used for one kind of thing in the code.

Every safety property of the passing runs is thus also proved, with every inductive
invariant checked by TLC first. Only model-checked: the liveness properties
`WaitIsBounded`, `Decides`, `StuckOwnerReplaced`, `Returns` and `TaskEnds` (fairness and ENABLED
are out of the prover's reach), and the two counterexamples.

## 6. Not modelled

Every component not in section 2 is listed in `PROJECT.json` with its reason. The
connection pool is left out because every caller uses its default configuration, with
which it keeps no page. Most of the repository by size is tools, page analysis and
presentation: their correctness is about the content of pages. Inside the modelled
components: workers other than the default, tenants, named contexts, storage state,
human holds and `validateTargetsAfterReconnect` of the session manager; the ledger's
sequence numbers, queries and pruning; the target index, cookies, page creation and
connection budgets of the CDP client; `oc_task_update`, task budgets and the run harness;
several workflows that share worker names, a set-up that throws half-way and the 30 s
takeover of the completion lock in the workflow engine; robots rules, content cache and
redaction in crawl jobs.

What the modules merge or leave out of the lines they map, and why that is enough:

* `TargetCommandQueue.AdmissionCode`: a deadline that is no finite number is rejected before anything
  changes (`src/session/target-command-queue.ts:64`), so such a call is no step.
* `ControllerLock.BeatOpen` reads `cdp` when it opens the file; the code awaits a probe first
  (`src/chrome/controller-lock.ts:481`). The case that matters, a heartbeat written after Chrome stopped
  answering, is in the model all the same: `cdp` may change between `BeatOpen` and `BeatWrite`.
* `TargetOwnership.DeleteVisit` takes one target of the worker in one step, while `deleteWorkerInternal` awaits
  the close of each (`src/session/manager.ts:1124-1136`); other actions come between two targets, and what happens
  to a target during its own await is ordered before or after the visit.
* `TargetOwnership.CloseBegin`: no second close of a tab that is being closed by `closeTarget`
  (1949-1955). The code allows it; the second one repeats the same idempotent removals for the same session.
* `TargetOwnership.RecoverBegin`: no recovery of a tab that Chrome has closed or whose id no client has
  been told. `getPage` (1528-1540) asks for neither; for the first it finds no page and returns null
  without a change, the second is what clients can name.
* `WorkflowEngine.WriteBehind`: the file is written whole. `writeOrchestrationState` is a plain `writeFile`
  (`src/orchestration/state-manager.ts:421-426`), which a death of the process may leave torn; the reader then
  finds no state and the fallback does nothing, as when the file is missing.
* `WorkflowEngine.Update`: the hash of the data (its length and first 200 characters) is the data itself, so
  the breaker never confuses two data, and the awaits of one update (`src/orchestration/workflow-engine.ts:419-422`) are one step.
* `TaskEnds` assumes that a tool returns; a tool that hangs keeps its task RUNNING, in the code too.

## 7. Plan

Done: `TargetCommandQueue`, `ControllerLock`, `TargetOwnership`, `CrawlJob`, `TaskLife`/`TaskLedger`,
`WorkflowEngine` and `CdpConnection`, each with its runs and with proofs of its safety
properties. Still to come, in this order:

1. Proofs of what the models except today under narrower exceptions: the agreement of the
   registries for settled tabs with one recovering session.
2. Composition of the command queue with ownership: `runTargetExclusive` and
   `validateTargetsAfterReconnect` (drop, remap and reconcile across awaits).
3. `SessionRegistry`: `createSession` against `maxSessions`, `createWorker` called twice.
4. `RequestQueue`: a FIFO whose timed-out entry is still running.
5. `OwnerSelfRelease` and the broker's election on top of `ControllerLock`.
6. Chrome process watchdog; contexts; server drain; storage state.

Runs are kept to one per question; when a later module needs room, runs of a component
are merged.
