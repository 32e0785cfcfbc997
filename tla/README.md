# A formal model of Node Loop Lab

TLA+ models of Node Loop Lab (this repository: a Next.js server, its
laboratories under `src/src/`, its route handlers under `src/app/api/` and the
browser client under `src/client/`), TLC runs that check them on small
instances, and proofs, checked by TLAPS, of theorems about them for every value
of the constants.

    tlc -config memory_public.cfg MCMemoryLab     # any row of "The runs"
    tlapm MemoryLabProofs.tla                     # any module of section 5

`PROJECT.json` ties it together: `map` gives the source lines of every
definition, `runs` the properties of every configuration, `mutants` the wrong
variant of the code that each property catches, `hazards` the places in the
code the properties are aimed at, and `theorems` what is proved.

## 1. The system

One Node.js server process answers HTTP. It is single threaded, but almost
nothing in it is finished in one turn of the event loop: it forks child
processes, exchanges IPC messages with them, keeps timers, streams events to
clients that may leave at any moment, and shares counters between requests.

| Component | State | Operations | Talks to | Hard because | Right when |
|---|---|---|---|---|---|
| **Memory supervisor** `src/memory-lab.js` | `child`, `state`, `snapshotPath`, `stopTimer`, SSE `clients` | `start`, `action`, handlers of message / error / exit, stop timer, `stopForShutdown`, event streams | child by IPC, signals and files; browsers by SSE | state written by requests, IPC and timers in any order; the child may die at any step | one experiment at a time; timers, files and processes of two runs never mixed; clients see the current state |
| **Memory child** `src/memory-leak-child.js` | `status`, allocation interval, `deadlineTimer`, retained blocks | start, pause, resume, release, gc, snapshot, stop; allocation tick, deadline | supervisor by IPC; disk | a heap snapshot blocks the loop; deadline, limit and stop meet any state | never above its limit; interval active iff running; ends at the public deadline |
| **Disposable executor** `src/disposable-demo-executor.js` | `active`, `queue`; per run `settled`, `timeout`, `eventCount`, `receivedDone`; `activeChildren` | `run`, `drain`, abort, timeout, IPC, stdio, error and exit handlers | one forked child per run; the route by promises | six events may end a run, in any order; promise reactions free slots later | slots and queue are exact; no child outlives its run; outcomes are final and right |
| **Disposable child** `src/disposable-demo-child.js` | – | ready, event, done, error, exit | executor by IPC | may hang, crash or be killed anywhere | – |
| **Run route** `app/api/demos/[id]/run/route.js` | execution controller, permit, measurement | `POST`, `start`, `cancel`, request abort | guard, metrics, executor | answer, abort and cancel in any order | every permit and measurement is returned once |
| **Concurrency guard** `src/request-guard.js` | `active`, `activeByIp` | `enter`, `release` | run route | release from two places | counts are exact and within limits |
| **Rate limiter** `src/request-guard.js` | Map of windows | `check` with pruning | routes | time, rounding, pruning in the middle | bounded rate, sufficient Retry-After, live windows kept |
| **Runtime metrics** `src/runtime-state.js` | counters, gauges | begin / finish measurement, export | run route | finished from two places | gauge counts the runs under way |
| **Profiles** `src/lab-profile.js` | constants | lookup | all of the above | limits must fit each other | see the constants below |
| **Memory routes** `app/api/memory/*` | – | one call of the limiter and one of the supervisor each; `createEventStream` | supervisor, browser | streams closed by abort, cancel, failed write or heartbeat | a page sees the state a new stream or the last frame gave it |
| **Load comparison** `src/load-lab.js` and its two workers | pool slots, job queue, temporary server, generator | `run`, `dispatch`, `close`, worker and generator events | worker threads, HTTP | workers fail one by one; the server waits for connections that wait for the pool | no job lost, run twice or beside an idle worker; closing ends |
| **Caching** `src/cache-lab.js` | cache, `inFlight`, repository | `getById`, `updatePrice`, expiry | cache store | calls that miss together look at `inFlight` after an await; entries expire at any time | one load per burst, nothing stale after invalidation |
| **Databases** `src/database-lab.js` | pool, two clients, transactions, row lock, schema | the five scenarios, `rollbackQuietly`, cleanup | PostgreSQL | any statement may fail, also while a client waits for a lock | clients released, schema dropped, results as the isolation level promises |
| **Python** `src/python-lab.js`, `.py` | one process per attempt | spawn, timeout, output limit, next interpreter | child by stdio | a retry of what was half done, with output still in a pipe | done means a whole trace; traces not mixed |
| **Microservices** `src/microservices-lab.js` | reservations by id | `reserve`, events, timeouts | TCP transport | answers after the client's timeout, a command sent twice | one reservation per command |
| **Event Loop demos** `src/demos.js` | the queues of the runtime | scheduling, joins, emit | Node, the route | order of phases and microtasks, callbacks after a failure | results when all is done, in the order taught; one last event |
| **BullMQ round trip** `src/demos.js` | queue, worker, events | add, wait, cleanup | Redis | a timeout while the worker is busy, calls that fail | connections closed, keys removed |
| **Browser client** `client/App.jsx` | memory view, trace, streams, `runStatus` | fetch, SSE, chapter change | server | responses and frames race; runs let go of | the view is the newest, the trace is of one run, the button comes back |
| Infrastructure, NestJS demos | – | fixed scripts over libraries | – | – | *not modelled* (section 7) |
| Content, translations, deployment | – | – | – | – | *not modelled* (section 7) |

## 2. The modules

| Module | Models | About |
|---|---|---|
| `MemoryLab` | memory supervisor and child, both directions of their channel, the snapshot files | 14 variables; every handler of both programs is one action |
| `JobService` | what a bounded service promises its callers | the abstract specification of the next and of `WorkerPool` |
| `DemoExecutor` | disposable executor and child | a call of `run()` is a `Job` that goes `new` → `queued` → `running` → `settled` → `freeing` → `over`; `Service` is its refinement mapping |
| `DemoRuns` | run route, concurrency guard, measurement, composed with `DemoExecutor` (`INSTANCE`) | a request is also the executor's job if its demo is isolated |
| `WorkerPool` | the `worker` profile of the load comparison | pool, server, generator; `Board` is its refinement mapping to `JobService` |
| `CacheAside` | cache and repository of the caching demo, and its script | five callers at most, one key |
| `Reservations` | the microservices demo, both ends of its TCP transport | commands and answers in two queues |
| `PythonLab` | the interpreters of a Python scenario, their pipes and the loop over candidates | |
| `DatabaseLab` | the PostgreSQL scenarios with the sessions, row, lock and snapshots they use | scenarios are sequences of statements |
| `BullRoundtrip` | the BullMQ round trip with its worker and cleanup | |
| `EventLoop` | six Event Loop demos on Node's queues and phases, with the `emit` of the route | a demo is a function from callbacks to what they schedule |
| `Demos` | the catalogue: one of the demos above runs under the permit of the route | composes the seven (`EXTENDS`, `INSTANCE`) |
| `RateLimiter` | `createRateLimiter` over discrete time | with two history variables |
| `MemoryPage` | event streams, memory routes and the page that follows them | over an abstract supervisor: a version of its state |
| `RunPage` | the page's trace of demo runs | |
| `Routes` | the three modules above, one of them at a time | gives them a specification and a run |
| `MCMemoryLab`, `MCDemoExecutor`, `MCDemoRuns` | instances for TLC | constants and symmetry sets only |
| `MemoryLabProofs`, `DemoExecutorProofs`, `DemoExecutorRefinement`, `DemoRunsProofs`, `RateLimiterProofs`, `WorkerPoolProofs`, `RoutesProofs`, `DemosProofs` | theorems | see section 5 |

An operator whose comment begins with `mutant` is a wrong variant of the
definition below it, as a plausible bug would make it; no specification uses
it. With the variant in place of the definition TLC must find the property
violated, which shows that the property says something about the code.

**MemoryLab.** A state of `proc` is the child's module state plus what the
operating system knows of it. A callback of the child runs when `Turn` holds:
it is alive and not inside the synchronous `writeHeapSnapshot`.
`createHeapSnapshot` is the only function that spans several actions
(`CreateHeapSnapshot`, `HeapSnapshotWritten` or `HeapSnapshotFailed`, then
`StatDone` for the awaited `stat`). Between them the process may be killed or
crash, and after the write other messages are handled. The message queues
`outbox` and `inbox` are what IPC holds; `connected` is the parent's view of
the channel, which lags behind the death of the process, so `action` may send
to a dead child. `DrainBeforeExit` says whether `exit` waits for the last
messages; Node does not promise it, so both values are checked. When it is
FALSE, messages of an old run are handled in the next one, which is why `inbox`
is indexed by run. RSS is a reading `below`, `at` or `above` the hard limit;
two samples of one callback carry the same one. Memory is counted in blocks.
The fallback timer of `stop` is `stopTimer`, the run it was armed in, and
`stopDue`, whether its second has passed: every `RequestStop` arms it anew.
The `kind` and `intervalMs` of the configuration decide what is allocated and
how fast, which no property tells apart, and are left out, as is the log.
`stopForShutdown` is called by the server's tests only; it is modelled as a
request that may come once at any time. `fork()` may throw (`StartThrows`) or
fail with an `error` event.

**DemoExecutor.** Promise reactions matter here: the slot of a run is freed by
`.finally` two microtasks after its promise was settled. They are the actions
`SettleCaller`, `FreeSlot`, `DrainOne` and `DrainEnds`; while one is pending
(`Busy`) no other callback of the server runs, but the children do. `finish()`
is `Finish`, `child.kill()` sets `killed`, and the process dies some time later
(`ChildDies`, which also stands for a crash: the heap limit of V8 or the
kernel). Limits on stdio and IPC bytes are messages or events that may occur at
any time. `Fork` has three outcomes: a process, an `error` event to come, or an
exception out of `executeDemoChild`; in the last one a timer may stay armed in
the code, which finds nothing left to settle and is left out.

**DemoRuns.** `PostAdmitted` is the handler up to its `await`:
guard, measurement, listener, executor. `IsolatedRunEnds` is the rest of
`start()`, a microtask once the executor's promise is settled, so it precedes
any callback (`Idle`); `ServerRunEnds` is the same for a demo that runs in the
server. `StreamCancelled` and `RequestAborted` are the two ways a client
leaves. The module models the public profile; in the private one every guard is
infinite and nothing is isolated.

**WorkerPool.** A job is a `/cpu` request. `Run`, `OnResult` and
`OnWorkerError` are the callbacks that end in `dispatch()`; its loop is one
`Dispatch` per assigned job, and no other callback of the server runs until
`DispatchEnds`. A thread may break whenever it exists, so all of them may. The
HTTP side is kept as far as it decides when `server.close()` calls back: an
open request keeps it waiting, and a request is open until the pool answers it
or its client's thread is gone. `WorkerPool` closes with the pool what is
queued and forgets what is in a slot: `close()` does not reject it, which
nobody awaits by then.

**CacheAside.** One key, because the script uses one. `getById` is `Hit` or
`Miss`, then `Join` or `Load` in a later microtask, `Found` in a timer and
`Stored`. The TTL may end between any two of them.

**Reservations.** The queue in each direction keeps its order, as TCP does.
The client's timeout may come first in any state, so that an answer is late or
never comes, and the `emit` of the event may fail or be late. The script sends
the second command only after the first was answered; a retry of a command
whose answer was lost does not occur in it.

**PythonLab.** A line in a pipe is a line of the trace, garbage or the line
that passes the output limit. An interpreter may be missing, hang, print too
much, exit early or with an error. `Finish` settles an attempt and, in its
continuation, goes on to the next candidate.

**DatabaseLab.** The table is the one row the scenarios observe. `Visible` and
`Observe` are read committed and repeatable read, `Lock`, `LockLater` and
`LockFails` the row lock and `lock_timeout`, `CompareAndSet` the optimistic
version. Any statement may fail; the `finally` blocks follow. Statements that
only show a result are counted, the queries of one loop as one. SQLite demos and
EXPLAIN output are text to the model.

**BullRoundtrip.** Each call may fail, an `add` also after it reached Redis.
The worker takes the job when it likes.

**EventLoop.** `Schedules` gives for each demo what a callback adds to the
queues; `Joins` the promises that wait for several callbacks. Node runs all
`nextTick`s, then all promise reactions, between callbacks, and the phases in
their order. The demo is called from any phase, in a callback or in a promise
reaction, as the server calls it.

**Demos.** `permit` is the one of the route. A demo that runs in the server
returns it when its promise is settled and by nothing else.

**RateLimiter.** `Check` is one request, `Tick` the clock. `allowed` and
`retryAt` are history variables for the properties. The clock is assumed not to
be set back.

**MemoryPage.** The supervisor is a version number and whether a child runs;
`Change` is any broadcast `MemoryLab` makes, and `ClientsSeeCurrentState` of
that module justifies that every change is one. A request is handled and
answered in two steps, so that its answer may overtake frames or be overtaken.
`viewFrom` is "starting" while the page shows the status it gave itself in
`startMemory`. No chapter in `RUNTIME_LAB_DEMO_IDS` (`App.jsx:20-25`) is one of
the memory chapters, so that no page of this commit sends a start or an action;
the event stream is opened and the boot effect runs on every chapter in the
set. `StartMemory` and `MemoryAction` are modelled because the callbacks, their
routes and the buttons are there. What a page of this commit does meet is the
answer of the boot effect (`App.jsx:163`), which may set the view back.

**RunPage.** A stream is events and a last one, or it breaks. `letGo` is a
history variable: the runs during which `runStatus` left `"running"`.

## 3. The runs

| Run | Instance | Checks | Shows |
|---|---|---|---|
| `memory_public` | public profile, 2 runs, 2 snapshots, RSS below and above, failing spawns, inputs off the whitelist; 2.9 M states | `TypeOK`, `RetainedWithinLimits`, `SnapshotExclusive`, `ClientsSeeCurrentState`, `SupervisorCatchesUp` | both programs agree, through kills and crashes |
| `memory_private` | deadline pauses, 2 runs, 2 snapshots, `exit` may overtake messages; 2.6 M states | `TimerIffRunning`, `StopTimerOwnRun`, `OneExperiment`, `OfferedSnapshotOnDisk` | two runs are not confused |
| `memory_live` | one run, one block to the limit, fair event loops; 104 k states | `StopEndsProcess`, `DeadlineEndsProcess` | every process ends, by a stop once no further stop postpones it |
| `memory_snapshot_limit` | one run | `SnapshotWithinLimit` — **violated** | finding 1 |
| `memory_spawn_failure` | one run, failing spawn | `RefusedOnlyWhileRunning` — **violated** | finding 2 |
| `executor` | 3 calls, 1 slot, 1 waiting place; 2.2 M states | `TypeOK`, `SlotAccounting`, `QueueAccounting`, `WorkConserving`, `SuccessNeedsExit`, `NoOrphan`, `FinalOutcome`, `CompletedRunSucceeds`, `ImplementsJobService` | every way a run can end, against every other; the refinement |
| `runs` | 3 isolated requests of one client, 1 in-server of another; 250 k states | `TypeOK`, `ReturnedExactlyOnce`, `AdmittedNeverRefused`, `CancelledRunGone` | admission and return of permits and measurements |
| `runs_live` | 2 isolated requests, talking children, fair event loop; 120 k states | `IsolatedRunAnswered` | every isolated run is answered |
| `runs_gauge` | 1 in-server request, 1 isolated | `GaugeCountsExecuting` — **violated** | finding 4 |
| `labs` | every demo: 3 jobs on 2 workers, a burst of 3, 2 interpreters, 5 database scenarios, 6 Event Loop demos; 64 k states | `TypeOK`, `NoIdleWorker`, `PoolImplementsJobService`, `ReportsTrue`, `PythonTrace`, `PermitComesBack`, `LoopReports`, `EndsOnce`, `CleanupComplete` | what the demos report and leave behind, whatever fails |
| `database_cleanup` | the database scenarios | `CleanupReleasesClients` — **violated** | finding 3 |
| `routes` | limiter: 2 clients, windows of 3 ticks, 7 ticks, up to 4 requests per window, pruning above 1 bucket; 2 event streams for a limit of 1; 3 runs of a page; 390 k states | `RoutesTypeOK`, `AnyWindowBounded`, `RetryAfterSuffices`, `ViewUpToDate`, `TraceOfOneRun`, `RunButtonComesBack` | boundaries of windows, rounding, pruning; frames, answers and streams in any order |

`Demos` and `Routes` run one part at a time: their parts share no state in the
code either, so the interleavings of two of them would show nothing new.

**Why the bounds are enough.**

- *Two runs* (`MaxRuns`): the hazards of the supervisor concern a run and the
  next one; nothing it keeps reaches further back. One run is enough for
  liveness, which is about one process.
- *Two snapshots* (`MaxSnapshots`): a new file replaces an old one once.
- *Messages under way* (`MaxInbox` 2 or 3, `MaxOutbox` 1, in `memory_live` 2):
  the longest callback sends two messages; 3 lets a callback's two overlap an
  earlier one. A full inbox only delays the child, and a full outbox the
  request, except a stop behind a stop, which arms the timer again and leaves
  the outbox as it is: the bound does not hold back what a client can repeat
  without end.
- *Memory*: blocks of 2 do not divide the limit 3, so the last block is cut;
  the snapshot limit 2 of `memory_public` is reached after one block, and 1
  elsewhere before it.
- *Three calls, one slot, one place*: one runs, one waits, one is refused or
  takes a place that was just freed. The proofs of section 5 cover all other
  sizes.
- `MaxEvents` 0: the first event is the one over the limit; any later one goes
  through the same branch. `MaxChan` 1: the process pauses until a message is
  taken. In `runs` it is 0: children end, crash, hang or time out without a
  word, which is all that guard and route see of them except success, and
  success is in `runs_live`.
- `runs` allows a client two permits where the public profile allows one, so
  that both limits of the guard are reached by the same client.
- Two slots are not checked by TLC with the whole protocol of the children;
  that slots and queue stay exact for every number is proved.

- *`labs`*: 3 jobs for 2 workers, so that one waits; a burst of 3 has a loader,
  one that joins early and one that joins late (the demo's five are like them);
  2 interpreters, so that there is a retry and a last candidate; traces of 2
  lines, so that an attempt can end in the middle; pipes of 2 lines.
- *`routes`*: windows of 3 ticks over 7, so that periods across a boundary are
  seen, and 2 clients above a pruning threshold of 1, so that a request of one
  drops the window of the other; 3 runs of a page, so that two are let go of.

Deadlock checking is off in all runs: each model has a bounded number of
requests and stops when they are used up.

**Fairness.** `MemoryLab!LoopsTurn`: each event loop handles every pending
callback, timer and message (weak fairness on what nothing can postpone, strong
on what the other program's messages or a blocking write can postpone from time
to time), and a process that was sent SIGTERM, for which the child has no
handler, dies. The fallback timer of `stop` is owed its second and its turn
only while no further stop arms it anew. The disk is assumed to answer only in
`DeadlineEndsProcess`, which says so (`WritesEnd => ...`). `StopEndsProcess`
holds without it, which is what the fallback timer is for, but has a premise of
its own, that stops cease (`StopsCease`): without it TLC finds a child that is
blocked in `writeHeapSnapshot` and kept alive by stops less than a second apart
(`memory-lab.js:307`), which any client may send. `DemoRuns!LiveSpec`:
reactions run, and an armed timeout is handled in some turn of the loop.
Nothing is assumed of the children of the executor, of clients, or of demos
that run in the server, which no timeout bounds: nothing is claimed of them
there. `Demos!Fairness`: the event loop turns for the demo that runs, timers
fire and I/O ends, with an error perhaps; nothing is assumed of workers,
interpreters, services or Redis, whose silence ends in a timeout of the demo
(`PermitComesBack`); of the BullMQ worker's job, a wait of 35 ms, that it ends;
and of the loop, with strong fairness, that a timer set again and again does
not keep it in one phase, because a timer of at least 1 ms is not due in the
round that sets it. `RunPage!RunPageFairness`: a fetch is answered or fails,
and a stream ends or breaks, which `PermitComesBack` and `IsolatedRunAnswered`
show of the server.

## 4. Where the documentation and the code differ

1. *Snapshots above the limit* (`memory_snapshot_limit`). The README of the
   repository, lines 345-346, allows snapshots up to 128 MB or 64 MB retained.
   `action()` compares the limit with the last sample it handled; the child
   allocates on until it reads the command.
2. *An experiment that never was* (`memory_spawn_failure`). After a failed
   spawn `error` is emitted, which only logs, and no `exit`, which alone resets
   `this.child`. Every later start is refused as "already running".
3. *A client that is never released* (`database_cleanup`). The README of the
   repository, lines 516-517, promises cleanup in `finally` for all database
   runs. In `databaseTransactionsAndLocks` the second `pool.connect()` stands
   before the `try` whose `finally` releases both clients. When it fails, the
   first stays handed out and `pool.end()` waits for it; the promise of the
   demo is never settled and its permit never returned. It is the exception
   that `PermitComesBack` names.
4. *The gauge of executing demos* (`runs_gauge`). It is described as "Runtime
   demos currently executing", but `cancel()` ends the measurement of an
   in-server demo, which goes on.

Four behaviours contradict no text and are kept in the models as they are: an
event stream whose request was aborted before it was handled stays in the list
of clients (`MemoryPage!SubscribeTooLate`); an event of type `error` that a
demo reports in the middle of its trace sets the page's status to "error", so
that a second run may be started beside the first (`TraceOfOneRun` says what
the trace then shows); an answer that newer frames have overtaken sets the
page's view of the laboratory back (`ViewUpToDate` says that nothing else does,
but a refused start); and stops that are repeated within the second keep
postponing the kill (`StopsCease`).

## 5. What is proved

Eight modules of theorems. TLC checks each property below on an instance; the
theorem says it for every value of the constants that meets the assumption
named with it, that is for any number of runs, requests, clients, workers,
interpreters and messages, and for any limits. Every invariant that a passing
run checks is stated by one of them.

| Module | Theorem | States | From |
|---|---|---|---|
| `MemoryLabProofs` | `MemoryTyped` | `Spec => []TypeOK` | `ProfileAssumption`, `BoundAssumption` |
| | `AllocatesWhileRunning` | `Spec => []TimerIffRunning` | |
| | `WithinLimits` | `Spec => []RetainedWithinLimits` | |
| | `OneAtATime` | `Spec => []OneExperiment` | |
| | `StopTimerIsOwn` | `Spec => []StopTimerOwnRun` | |
| | `ClientsCurrent` | `Spec => []ClientsSeeCurrentState` | |
| | `OfferedOnDisk` | `Spec => []OfferedSnapshotOnDisk` | |
| | `CatchesUp` | `Spec => []SupervisorCatchesUp` | and `DrainBeforeExit` |
| | `SnapshotsExclude` | `Spec => []SnapshotExclusive` | and `DrainBeforeExit` |
| `DemoExecutorProofs` | `TypeCorrect`, `Invariant` | `Spec => []TypeOK`, `Spec => []IInv` | `ExecutorAssumption` |
| | `SlotsAccounted` | `Spec => []SlotAccounting` | |
| | `QueueAccounted` | `Spec => []QueueAccounting` | |
| | `NoIdleSlot` | `Spec => []WorkConserving` | |
| `DemoExecutorRefinement` | `SuccessAfterExit` | `Spec => []SuccessNeedsExit` | `ExecutorAssumption` |
| | `NoneOrphaned` | `Spec => []NoOrphan` | |
| | `OutcomesFinal` | `Spec => FinalOutcome` | |
| | `CompletedRunsSucceed` | `Spec => []CompletedRunSucceeds` | and `DrainBeforeExit` |
| | `ExecutorImplementsJobService` | `Spec => ImplementsJobService` | |
| `DemoRunsProofs` | `RunsUseExecutor` | `Spec => Executor!Spec` | `RunsAssumption` |
| | `RunsTyped` | `Spec => []TypeOK` | |
| | `EverythingReturned` | `Spec => []ReturnedExactlyOnce` | |
| | `AdmittedRunsFit` | `Spec => []AdmittedNeverRefused` | and `MaxConcurrentDemos <= MaxConcurrent + MaxQueue` |
| | `CancelledRunsEnd` | `Spec => []CancelledRunGone` | |
| `RateLimiterProofs` | `Invariant` | `Spec => []IInv` | `LimiterAssumption` |
| | `WindowsBounded` | `Spec => []AnyWindowBounded` | |
| | `RetryServed` | `Spec => RetryAfterSuffices` | |
| `WorkerPoolProofs` | `PoolInvariant` | `PoolSpec => []PoolInv` | `PoolAssumption` |
| | `NoneIdle` | `PoolSpec => []NoIdleWorker` | |
| | `PoolRefinesJobService` | `PoolSpec => PoolImplementsJobService` | |
| `RoutesProofs` | `PageShowsOneRun` | `RunPageSpec => []TraceOfOneRun` | – |
| | `ViewsUpToDate` | `PageSpec => []ViewUpToDate` | `PageAssumption` |
| | `RoutesTyped` | `RoutesSpec => []RoutesTypeOK` | and `LimiterAssumption` |
| | `RoutesKeepPromises` | the four promises of limiter, page and trace, of `RoutesSpec` | |
| `DemosProofs` | `DemosInvariant`, `DemosTyped` | `Spec => []DemosInv`, `Spec => []TypeOK` | `DemosAssumption`, `PoolAssumption` |
| | `TracesShown` | `Spec => []PythonTrace` | |
| | `ReportsAreTrue` | `Spec => []ReportsTrue` | |
| | `CleansUp` | `Spec => []CleanupComplete` | |
| | `OneEnd` | `Spec => []EndsOnce` | |
| | `ReportsOfTheLoop` | `Spec => []LoopReports` | |
| | `PoolInDemos` | `NoIdleWorker` and `PoolImplementsJobService`, of `Demos!Spec` | |

The premise of `AdmittedRunsFit` is the relation between the guard's and the
executor's limits that `test/isolation.test.js:33-37` asserts of the public
profile; without it the property is false. That of `CompletedRunsSucceed`,
`CatchesUp` and `SnapshotsExclude` is the order of `exit` and the last
messages, which Node does not promise. Without it a message of an old run is
handled in the next one, and TLC finds the supervisor's state behind the
child's; the instance `memory_public`, which checks the last two, has the
premise, and `memory_private`, whose properties need none, has its opposite.

Hardly any of these properties is inductive; each module strengthens them:

**MemoryLabProofs.** `LabInv` is `TypeOK`, `Owned` and `Steady`. `Owned`: the
child and the stop timer are those of the last run, no timer and no living
process remain once the child is forgotten, and only a process that is alive
has messages to receive. `Steady` is `Within` (an interval exactly while
running, and room for a block while it runs) and `Told`: "start" is only ever
the first message, and a child that has not read it has allocated nothing.
Without `Told`, a "start" after allocation could set a full child running.
`OfferedSnapshotOnDisk` needs `Kept`: a file being written, one whose `stat` is
awaited and one that a message on its way announces are on disk, are different
files, and none of them is on offer. The messages of *all* runs count, because
those of an old run may come after its `exit`. Lemmas `Sent` and `Handled` say
what sending and handling do to them; the rest is one lemma per handler
(`AllocateKeeps`, `DeadlineKeeps`, `MessageKeeps`, `CreateKept`, `StatKept`...).
The last two theorems rest on `OwnMessages`: only the present run has messages,
and none once its child is forgotten. `SupervisorCatchesUp` is then inductive;
its proof asks of each callback of the child that the last sample it sends is
what the child is in when the callback ends, and that it sends one whenever
that changed (`Tells`). For `SnapshotExclusive`, `OneStage` says that the
pending snapshot is at one of four stages: asked for, being written, being
measured, answered. `state.snapshot` is "creating" while it is at any of them
and, in a live process, only then; an answer is the last news of a snapshot.
That last clause is the one that is easy to overlook: a second "creating"
behind a "ready" would leave the state at "creating" with nothing to end it.

**DemoExecutorProofs.** `IInv` is the conjunction of

- `TypeOK`;
- `Slots`: `active` is the number of calls that hold a slot;
- `Waiting`: the queue lists the waiting calls, each once. Without "each once"
  removing an aborted call from the queue could leave a second copy;
- `Length`: the queue is within `MaxQueue`, or the drain is about to take a
  call out of it. `run()` adds before it drains, so the plain bound is broken
  for a moment;
- `Drained`: when the drain is not running, a queue that is not empty means that
  all slots are taken. It is stronger than `WorkConserving`: a call whose
  promise is settled still holds its slot until `.finally` has drained;
- `AbortsSeen`: a call that waits or runs was not aborted.

Lemma `PhaseMoves` says how the sets `Holding` and `Queued` change when one
call changes phase, `Counting` how their cardinalities do, and `RemoveAtFacts`
what taking an element out of the middle of a sequence does.

**DemoExecutorRefinement.** `RInv` adds `Consistent`: an outcome is there from
the moment a call is settled and never before, success means "done" and a child
that has exited, and a process that still runs is known to the exit hook and,
unless its run is under way, is being killed. `Reported` serves
`CompletedRunSucceeds`. The refinement maps the queue to itself and the calls
that hold a slot to the jobs being served; every action is a step of
`JobService` or a stutter (lemmas per kind of action, joined by the last).

**DemoRunsProofs.** `RunsUseExecutor` shows that every step of the composition
is a step of the executor or leaves it alone. The executor's invariant
therefore holds in it (`Relied`), and is used there without being proved again.
`RouteInv` says that a request agrees with itself (`Agrees`): permit and
measurement are out exactly while it is under way and not cancelled, and what
waits or runs in the executor is under way. `GuardCounts` and `MetricsCount`
are the counters. For `AdmittedRunsFit`: whatever occupies the executor when
the handler is idle holds a permit, so at most `MaxConcurrentDemos - 1` others
do when a request is admitted.

**RateLimiterProofs.** `KeyInv`, for each client: its allowed requests are in
order; the last window was opened by one of them (`Opened`) and its counter
bounds those since, also after the bucket was pruned; the window before it had
ended (`Spread`); and a client was told of the end of its window or later.

**WorkerPoolProofs.** `PoolInv`: a job is unsent, in the queue once, in one
slot, or settled (`Apart`, `QueuedOnce`), and a thread that computes has a job
(`Busy`).

**RoutesProofs.** `TraceInv`: while the page waits, what is under way is the
latest run or was let go of (`Alone`); otherwise everything under way was let
go of (`Released`). `PageInv`: the one stream that is open is the page's
(`Followed`), nothing on its way to the page is newer than the laboratory
(`NotNewer`), and the last frame on the stream is the present state or, when
no frame is left, the page was shown that state (`ShownOrComing`), and while the
page shows "starting" its request is under way (`StartPending`); `ListBounded`
is the limit on connections. `RoutesParts` shows that every step of `Routes` is
a step of one part and a stutter of the others.

**DemosProofs.** `DemosInv` is one invariant per demo; `StepOfOne` shows that a
step of the catalogue is a step of one of them, so each is proved by itself.

- *Python.* `OneAttempt`: attempts before the present one are settled and no
  longer read, those after it have not begun. The present one has shown the
  first `n` lines of its trace (`Shows`), and its pipe holds the rest of what it
  wrote, in order, among garbage (`Comes`). A trace is therefore shown whole or
  not as done.
- *Caching.* `Fresh` (nothing older than the present product is in the cache, in
  a loader or in an answer of this version) and `OneFlight` (a loader under way
  is the one in `inFlight`).
- *Microservices.* `InOrderHandled`: a repeated command is behind the first one
  in the queue, or the first one was handled.
- *Databases.* A table of the state of the server before each statement of each
  scenario (`LocksAt`, `PromiseAt`, `AcidAt`), against which each statement is
  checked; and, where a statement has failed, `OpenAmong`: transactions and
  locks are only those of clients that are still checked out and not rolled
  back.
- *BullMQ.* `QueueOwned`: what is in Redis is in the queue that was made and
  not yet removed.
- *Event Loop.* `LoopInv` for the last event. For `LoopReports`, the stages of
  each demo whose results or order are claimed: `RoundInv` follows
  `eventLoopOrder` through the promise that counts four of five callbacks, the
  timer that brings it back, and the callbacks inside I/O, where the check
  phase comes before the timers; `QueueInv` follows `callbackQueue` from timer
  to timer; `GatherInv` says of the thread pool and of the demultiplexer that
  "result" is scheduled only when all three were shown or the stream is closed.
  `LoopTurns` reduces every step to one callback whose turn it is, and
  `OrderStays` says when an order survives one more event.
- *Worker pool.* `PoolClosed`: once the server is told to close, no request is
  sent, and once it is closed no thread is left.

Only model-checked, because they are out of the prover's reach: all liveness
(`StopEndsProcess`, `DeadlineEndsProcess`, `IsolatedRunAnswered`,
`PermitComesBack`, `RunButtonComesBack`), which needs fairness and `ENABLED`.
The properties of the four runs that expect a violation are false, so there is
nothing to prove of them.

## 6. The plan

Done, in the order in which it was planned: the memory laboratory, the
executor, the route and its guards, the rate limiter; then `JobService` with
its two refinements, `WorkerPool`, `CacheAside`, `Reservations`, `PythonLab`,
`DatabaseLab`, `BullRoundtrip` and `EventLoop`, composed in `Demos`; and the
page, in `MemoryPage` and `RunPage`; the theorems of section 5.

What remains:

1. `MemoryLab` under `MemoryPage` as its supervisor, by an `INSTANCE`, in place
   of the version number that stands for it, with a proof that every broadcast
   of the one is a `Change` of the other.
2. The same for the answers of `DemoRuns` and the streams of `RunPage`, which
   meet today only in an assumption of `RunPageFairness`.
3. Abstract specifications of `CacheAside` (a register that is read once per
   burst) and `Reservations` (a set to which a command is added once), and the
   refinements, in the way of `JobService`.

## 7. Not modelled

- **`infrastructure-lab.js`, `nest-lab.js`**: scripts without inputs,
  concurrency of their own or failures to handle; what they show is the
  behaviour of NestJS or of data they write down.
- **`observabilitySignals`, `blockingComparison` and the measured numbers of the
  load comparison**: they measure durations, and the models have no clock that
  could disagree.
- **The download of a snapshot**: it streams a file that `OfferedSnapshotOnDisk`
  shows to exist when the request is handled.
- **The rest of the browser client**: search, settings, layout, health polling.
- **Content**: some 18,000 of the repository's 25,000 lines are chapters,
  glossary, translations and their lookup, the descriptions of the demos in
  `demos.js` among them. They have no state. The models cover a part of the
  remaining 7,000.
- **Deployment**: scripts of the build.
- **Crashes of the server**: nothing is kept across them; the children lose
  their channel and exit.
- **Time**: the duration of anything, a stopped clock or one that is set back.
- **Texts** of logs, traces and errors; the **private profile's route**, which
  has no guards.
