# DFPS 2.0 engine: TLA+ specifications

DFPS runs *plugins*, external programs, as child processes over the files of
jobs.  A **local coordinator** (`src/local-coordinator`) takes jobs, builds
their DAGs, plans and runs their tasks in a process pool and reports every state
change to a **main coordinator** (`src/main-coordinator`), which queues,
prioritises and leases jobs.  A **profiling service** (`src/profilePlugin`) runs
plugins over datasets with the same process pool, records metrics and analyses
them.  The coordinators are Node programs: one thread, handlers that run to
completion, and `await` as the only place where another handler may come in.

This directory holds TLA+ modules of that engine, the TLC configurations that
check them and TLAPS proofs about them.  The models follow the code, not the
design documents under `docs/`; where a document or a comment and the code
disagree, a run shows it (see *Findings*).

- [Inventory](#inventory)
- [Modules](#modules)
- [Runs](#runs)
- [Fairness](#fairness)
- [Proofs](#proofs)
- [Findings](#findings)
- [What is left out, and why](#what-is-left-out-and-why)
- [Plan](#plan)

## Inventory

For each part: the state it keeps, its operations, whom it talks to, what is
hard about it, and what makes it correct.

### Process pool (both services, `core/pool-manager`)

| part | state | operations |
|---|---|---|
| `slotManager` | slot maps for worker and warm slots, two free sets, reverse index, four counters | `add`, `freeSlots`, `replaceOccupant` |
| `workerRegister` | record per worker; indexes by plugin, state and slot id | `createWorkerRecord`, `updateState`, look-ups |
| `workerActions` | entry per child process, init timer, SIGKILL timer | `create`, `kill`, `killAll`, `writeToStdin`, child events |
| `memoryController` | nothing | admission arithmetic |
| `processPoolOrchestrator` | the four above, `#tempClaims`, `#workerTempKeyMap` | `ensurePluginReady`, `bindWorkerToSlot`, `runTask`, `completeTask`, `drainWorker`, `evictWorker`, `killAll`, `send` |

*Interaction.*  The orchestrator calls the other parts and hands every event to
its client, the task dispatcher, synchronously; the dispatcher calls back into
the pool from inside the event.  *Hard:* one worker is described by a slot, a
record, a process entry and perhaps a claim, and each timer or child event
clears some of these; timers race `spawn`, `close` and each other; warm and worker
slots share their id space.  *Correct when:* the four descriptions agree, no
slot or process is forgotten, no record survives its process, a client hears
of the end of every worker it waits for.

### Task dispatcher (both services, `runtime/taskDispatcher.mjs`)

State: `#activeTasks`, `#workerTaskMap`.  Operations: `dispatchJob`,
`resolveTask`, `abortTask`, the event router, two interval timers.  Called by the
plugin manager or the local runtime; calls the pool and is called back by it.
*Hard:* a capacity broadcast offers waiting tasks again in the middle of other
handlers, while sends are in flight and while a finished task is being resolved.
*Correct when:* every task is answered, none is answered and still offered, and
no worker belongs to two tasks.

### Profiling service (`src/profilePlugin/core`)

| part | state | operations |
|---|---|---|
| `pluginManager` | `pendingDispatches`, `metricsBuffer`, session flag, timers | `startSession`, `executeJob`, task answers, flushes, report |
| `profileRepository` | SQLite tables: registry, profiles, metrics, jobs | CRUD |
| `app` | gRPC server | start-up, `SubmitProfilingJob`, shutdown |
| dataset registry, plugin federation map | maps loaded from JSON | look-ups |
| `analysisOrchestrator`, `analysis/` | one run per plugin version; a Python pipeline of 13 stages | sequential |

*Hard:* several `executeJob` calls share one throttle and one buffer; flushes
overlap and fail; tasks may be answered twice.  *Correct when:* the throttle
holds, no metric row is lost or doubled, a profile marked COMPLETED has had all its
answers, reports are complete, calls return.

### Local coordinator (`src/local-coordinator`)

| part | state | operations | hard |
|---|---|---|---|
| `jobStateRegistry` | jobs, tasks, dependency counts, ready queue, change log with sequence numbers | create, mark running/completed/failed, retry, poll and acknowledge, import/export | repeated and illegal calls, unknown dependencies, counts |
| `stateInterface`, profile stores | a model per plugin and context, for times, sizes, memory and CPU | record, predict with fall-backs, prune, evict, snapshot | which model answers, after evictions and restores |
| `wal` | log files, current file, last sequence | append, rotate, replay, compact | crashes between steps, torn records, compaction |
| `workerBatcher` | queue, in-flight batch, `lastAckedSeq` | poll, persist, send, retry, acknowledge | lost answers, overlap of poll and send |
| `lcQueue` | queue, history for duplicates | add, drain, clear | bounds |
| `runtimeOchestrator`, `runtimeTaskManger`, `lifecycleMonitor` | windowed execution map | pull, dispatch, answers | ordering of results |
| normalisation, extractors, DAG builder | none | validate a batch of payloads, lay out its graphs | one bad job in a batch; cycles, depths |
| planner (`core/planner`, Python) | none | a pipeline around CP-SAT | numeric |
| worker threads | requests by id | post, answer | lost answers |

*Correct when:* each dependent becomes ready exactly once, after its last
dependency; the indexes follow the jobs and the log tells every task's state; every
state change reaches the main coordinator at least once, across crashes and lost
answers; a prediction falls back to a model that knows more.

### Main coordinator (`src/main-coordinator`)

| part | state | operations | hard |
|---|---|---|---|
| `mc-queue` | three priority levels, job map, write queue | ingest, extract, transition, promote | a job ingested twice; status codes of two systems |
| `agingEngine` | nothing | sweep | starvation |
| `queueOrchestrator` | timers of fetch, dispatch, persistence and ageing cycles | cycles | state read before an `await` and cleared after it |
| `persistenceManager` | fall-back flag, WAL | persist, retry, replay | partial failure, replay order |
| `db` | job rows with leases | fetch with lease, acknowledge | two coordinators, leases that run out |

*Correct when:* no job is handed out twice for one row or acknowledged under a lease that
is gone, jobs only move forward, every status that is set is persisted, and a write that
was answered from the log survives there until the database has it.  The code does not
keep all of this: see *Findings*.

## Modules

| module | models | source |
|---|---|---|
| `SlotManager` | the slot table, with all its redundant representations | `slotManager.mjs` |
| `WorkerRegister` | records and their transitions | `workerRegister.mjs` |
| `WorkerActions` | process entries, timers, kill | `workerActions.mjs` |
| `ProcessPool` | the orchestrator; composes the three above | `processPoolOrchestrator.mjs` |
| `WorkerPool` | abstract: the life cycle of a worker, as clients may rely on it | what `ProcessPool` implements |
| `PluginManager` | `executeJob`, `startSession`, flushes, reports, with the tables they use | `pluginManager.mjs`, `profileRepository.mjs` |
| `TaskDispatch` | the dispatcher's ledger against the pool's events | `taskDispatcher.mjs`, `send` and event handlers of the orchestrator |
| `ChangeLog` | the batches read from a change log, pure operators | `jobStateRegistry.mjs` (`getChangeBatch`), `runtimeOchestrator.mjs` (`fetchBatchFn`) |
| `WAL` | the write-ahead log as a value, with its operations | `wal.mjs` |
| `WorkerBatcher` | polling, logging, sending, stopping, crashing; composes the two above | `workerBatcher.mjs` |
| `JobTable` | the rows of the jobs table and their leases, for several coordinators | `db.mjs` |
| `QueueManager` | priority levels, registry, write-back Map, as operators on them | `mc-queue.mjs` |
| `PersistenceManager` | one `execute()` per writer, fall-back mode, the log and its replay | `persistenceManager.mjs` |
| `QueueOrchestrator` | the cycles of one main coordinator; instantiates the three above | `queueOrchestrator.mjs`, `agingEngine.mjs`, `queueMetrics.mjs` |
| `JobRegistry` | jobs, tasks, counts, tags, groups, log, export and import | `jobStateRegistry.mjs` |
| `ExternalJobQueue` | queue, duplicate protection, history | `lcQueue.mjs` |
| `JobIntake` | which payloads and contexts pass, and where others fail | `normalization.mjs`, the extractors, `stateInterface.mjs` (`completeContext`) |
| `DagBuilder` | the builder's queue of tasks and their depths, step by step | `dagBuild.mjs` |
| `ProfileStores` | the four profile stores: keys, fall-backs, counts and ages of samples | `timeProfile.mjs`, `ioProfile.mjs`, `memoryProfileStore.mjs`, `cpuProfile.mjs` |
| `LocalCoordinator` | composes the five above under the calls they may get | `runtimeOchestrator.mjs`, `runtimeTaskManger.mjs`, `stateInterface.mjs` |
| `Selection` | the elements of a sequence that are in a set | `filter()` |
| `MC*` | instances for TLC | |
| `Induction` | induction over sets of numbers, and folds; lemmas for the proofs | |
| `*Proofs` | proofs | |

Definitions named "a slip" are plausible mistakes in the code, kept beside the
definition they would replace; each property is known to fail under one of them.

### Process pool

The two copies of the orchestrator, slot manager and register are identical.
`workerActions.mjs` differs in one respect: the profiling service turns an
exception of `spawn()` into a returned error; the local coordinator lets it reach
the outer `catch` of `bindWorkerToSlot`, which only forgets the temporary key.
`SpawnOutcomes` says which copy is meant ({"ok","fails"} or with "throws").

One operation or handler is one action, with the calls it makes: `SlotManager`,
`WorkerRegister` and `WorkerActions` give the effect of each method on a value, and
`ProcessPool`'s actions compose them.  `assigned` is the client's side: workers
with a task that has not been answered.  Correspondence: `slots` is `#slots`,
`register` `#register`, `tempClaims` `#tempClaims` (the slot id of a claim whose
timer runs), `workerTempKey` `#workerTempKeyMap`, `procs` the process entries of
`#actions` with the operating system's view of the child.

Simplifications: the free slot taken first is any free slot; ids are fresh when
nothing refers to them; a spawn timeout before `spawn` and an OS error after
it may both come at any time, which the code permits more rarely.  `promoteWarm`
has no caller; a worker never turns WARM, because the test for it reads
`slotMeta.meta`, which the slot manager does not provide.  A spawn that fails with
`ENOENT` emits `error` on a child without listener and ends the program; that
is not modelled.

### Plugin manager

A step is what `executeJob()` does between two awaits, except that the dispatch
loop is cut after every file, which allows more interleavings than the code has.
A metric row is named by its task, a table is a set of rows.  `batch` holds the
rows that a flush has taken out of the buffer; a flush belongs to the timer, the
session's end or a report.  The dispatcher is the environment: it may answer a
pending task at any time, either way.

### Task dispatcher

The pool is what the dispatcher can see of it: `d.state` (the register),
`d.inbox` (messages a worker has not answered), `d.sends` (attempts of each
`send()` under way).  The pool emits its events before its calls return, so a
handler and the broadcasts it sets off are one step: `Broadcast(e)` is the set of
states a broadcast may lead to from `e`.  Slots and memory are free choices.  A
task's number is its place in the ledger's insertion order, in which broadcasts
go through it.  `LOST` is a worker the register gave up at a spawn timeout
whose `close` is still to come.

`SEND_SUCCESS` and `SEND_FAILED` carry no task, so the dispatcher looks it up by
worker; the model does too, and that is where wrong tasks can be hit.  A second
snapshot of one task finds no entry and does nothing, so snapshots are a set.
Telemetry and log events change nothing.  One plugin: the ledger treats each
plugin's tasks alike.  A spawn that fails synchronously recurses through
broadcasts without bound; that is not modelled.

### Worker batcher

`WorkerBatcher` has two processes: the loop, and the `flush()` that `stop()`
runs.  A step is what runs between two awaits; `pc` names the await, `cur` the
batch that a process has taken off the queue.  The constants `MaxEvents` and
`Coalesce` choose between the two change logs that are read: the registry's, which
merges the events of a task, and the runtime orchestrator's, which does not.  An
event is a pair of incarnation and sequence number, because a crash loses the
registry and its numbers start again, while the WAL keeps batches of the run before.
`delivered` is what the main coordinator has got, whether or not its answer arrived.

The WAL is a value: records by position, with the number of their file.  A write
that fails or is cut by a crash may leave a torn record, at which `replay()` stops
for good.  Compaction is one step with the acknowledgement it follows, though its file
operations have awaits of their own.  Writes of the two processes do not
tear each other: the file is opened for appending and a record is one write.

`start()` is called when nothing of an earlier `stop()` is left running.  The
coordinator's answer is `toSeq` of the batch, as the mock server and the database
adapter give it.  `storageMode` is `both`, the only one in use.

### Main coordinator

`QueueOrchestrator` is one coordinator; others (`Coordinators`) only lease rows of the
table (`RivalFetches`) and acknowledge them.  Every `await` of a cycle ends a step:
a fetch (`FetchCycle`, `FetchAnswered`, `FetchLost`), a persistence cycle with one write after
another (`BeginSync`, `SyncNext`, `SyncEnds`), an ageing sweep that awaits the metric
write of every job it promotes (`Sweep...`), a metrics snapshot.  `Fetches`, `SyncCycles`,
`Sweeps` and `Snapshots` name those that may be under way at once, for the timers do not
wait for them.  A sweep keeps the entry object it saw: `Held` says whether that is still
the queue's.  `flight` is, for each caller of `execute()`, whether it awaits the
database or the log.

`log` is the sequence of the files of the WAL, the last of which is appended to.  A process
that starts opens the last file again (`#ensureOpen`), so a file may have records of several
processes, and the records a replay has just handed over stay in it.  An append may fill the
file, also while a replay runs; then the next one is opened (`Rotate`), and the compaction at
the end of that replay takes the filled file as well.  A failing write or a crash may leave
a torn record: what is appended behind it in its file is `hidden`, and `replay()` ends there
for all files that follow (`Readable`).  A compaction leaves the current file alone, unlinks
every other that it can read to its end, and of a torn one keeps the readable records above
the sequence number it is given, or unlinks it when there are none (`Compactions`).  Which
records are above that number is a free choice: sequence numbers are times with a
random part of ten seconds, and the number is that of the last record by priority.
`owed`, `refused` and `damaged` are history: the writes that `execute()` answered with
success from the log and that are not in the database, those of them that a replay handed
to a handler in vain, and whether a record was torn or a file filled during a replay.

Left open: time and the ages of jobs, so any job may be old and a lease may run out at
any step; the order of the entries within a level.  The retries of one write are one
outcome.  The handlers behind `persistToDb` are stubs in the code, so nothing of what
they write is modelled.  `RowStatus` is a row's status as `ingestFromDatabase()`
receives it: with the number 1 that the database adapter selects, the
transition to `assigned` is refused and the job is never dispatched; the instance
uses the word "pending", as the tests of the queue do.  Two replays at a time, that of
`start()` and one on recovery, count as one with the records of the later one.  A tear
shorter than a record's header, at which `replay()` goes on with the next file, is left
out.  Once in fall-back mode no write but those already in flight tries the database again,
as in the code.  The clean-up of tombstones, and batches of metrics, are not modelled.

### Local coordinator

The registry, queue, intake, builder and stores are not wired to each other in the
code as they are meant to be: `#handleJob` destructures what `completeContext` returns as
if it were an object, so `buildBatch` gets `undefined`; `registerJobs` calls a method
that does not exist; the executable DAG is never filled; `dispatchJob` throws for
want of a policy once its task is marked RUNNING; `updateRuntimePhase`
throws on every task.  `LocalCoordinator` therefore lets the calls come in any order,
as their tests do, and composes what is composed: `HandleJob` is `#handleJob` with its logged
error; `Build` is `completeContext` over the stores, then `buildBatch`; the marks are
those that the task manager and `stateInterface` make.

A job is its rows of tasks, `status`, `completedTasks`, `failedTasks`, tags and group.
A *ghost* is a task in the task index whose job does not exist, because `createJob`
threw on an unknown dependency; marks find it, and once the job is created with other
stages they change its counts.  `irregular` is history: a job with such a mark, with a task
completed twice, or with dependencies named twice or set after a completion;
its counts are off, and `CountsAgree` says nothing of it.  Time stamps, worker ids and
retry counts are left out.  A call that is refused changes nothing; what
refuses it is the action's guard.

The builder's `TakeTask` is one round of the loop in `#computeDepths`; `build.end` tells
how `buildBatch` ended.  `costNode` reads an undeclared `duration_ms`, so no batch of
one task or more is ever costed; `BuildIsRight` is about the depths before that.

In `ProfileStores` a model is the number of its samples and the time of the last one; for
memory and output sizes also the version of its contract, for times whether it has
learned a cold start.  The statistics themselves, their
weights and the arithmetic of predictions are data.  `contexts` of a slice limits
the contexts for which calls come.  A prediction for a context without model makes one
and may evict another, also the global one; `adrift` is history:
the global model of sizes was evicted, pruned or seeded.  `updateProfilesSynchronous` hands the
stores a task's id where they take a context, so each refuses it or throws: no store
learns from the runtime, and the calls of the model are those of tests and seeds.

## Runs

| run | instance | states | shows |
|---|---|---|---|
| `pool` | 2 workers, 2 keys, 1 worker slot, 2 warm slots | 29,266 | eight invariants, the refinement of `WorkerPool`, two liveness properties |
| `pool_slot_leak` | same | - | violated: `NoSlotLeak` |
| `profiling` | session call (1 file), report (2 files, same target), forced report (1 file), throttle 2 | 112,299 | four invariants, calls return |
| `dispatch` | 2 tasks, 2 workers, 2 send attempts | 88,605 | two invariants, mapped tasks are answered |
| `dispatch_lookup` | same | - | violated: `ReverseLookup` |
| `batcher` | 1 task with 2 events, fetch below 2 batches, 1 retry, 2 failures, 1 crash, 1 stop | 254,005 | three invariants, what the WAL holds is delivered, `stop()` returns |
| `wal_compaction` | 2 tasks, files of 2 records | - | violated: `CompactionKeepsUnacked` |
| `batcher_cut` | 2 tasks, 3 events, batches of 1 event | - | violated: `AckedDelivered` |
| `queue` | 2 jobs, 2 coordinators, 2 levels of 2 entries, 2 fetches, 2 persistence cycles, 1 sweep, 1 snapshot, 7 slices | 451,897 | five invariants, two action properties |
| `queue_flush` | 1 job, 1 caller's update | - | violated: `WriteBacksAreFlushed` |
| `queue_log` | 1 write of a snapshot, 1 rotation, 1 crash, 2 failures | - | violated: `OwedIsLogged` |
| `jobs` | 3 jobs, 3 stages, all graphs of 3 stages, stores of 3 models, 18 slices | 472,569 | six invariants of registry, log, queue, builder and stores |

**Why these bounds.**  *Pool:* with one worker slot and two warm slots, warm id 0
has a worker slot of the same id and warm id 1 has not, so both branches of
`replaceOccupant`, a bind that falls back to a worker slot and one that finds
none all happen; two workers are enough for one to hold what the other is offered.
*Profiling:* four files and room for two make the throttle bite; two calls for one
target meet the `getCompletedExecution` race; a timer's, a session's and two
reports' flushes overlap.  *Dispatch:* two tasks and two workers give every way
for the two maps to disagree, and two attempts one retry.  *Batcher:* with
two events, {1}, {1, 2} and {2} are batches, so queued batches overlap and the loop and
`flush()` answer them in either order; two failures use up the one retry, or tear a
record and lose an answer; a crash and a restart replay into a new run.  In `batcher`
the WAL does not rotate: once it does, compaction deletes what it should
keep, which is what `wal_compaction` shows; and every task fits in a batch, without
which `batcher_cut` applies.

*Queue* and *Jobs:* the events that come from outside have a budget, chosen in `Init` from a
set of *slices* (`Budgets`, `Slices`); what the coordinator itself does is never bounded.
Each slice lets one group of events interact as far as it goes, and together they stand for
a product no run could explore. Those of the queue: a job leased again while its first entry
has aged, beside a rival; two jobs of which one lease runs out, with a quota of one entry
per dispatch; a failure between the writes of one cycle; a job's whole life; overlapping
persistence cycles in and out of fall-back mode, with a file that fills; the log over a
crash, a stop and restarts, with a rotation and two failures, each of which may tear a
record or be a handler's; the lease of a process that crashed. Two jobs are enough for one
to be ahead of the other, two cycles for one to clear what the other reads, two fetches for
the later to be answered first. The two runs that refute something have one slice each, no
larger than their counterexample needs. The slices of the local coordinator: one job through
up to six marks, with its creation again after a failed one or a prune, with export, import
and reset; two jobs side by side; tags and groups; six offers to a queue that remembers two
jobs; the intake with batches that fail in each phase; each store with samples, contracts,
predictions, prunes, seeds and restores, for up to three contexts where three models fit.

**What the properties say.**

- `SlotAccounting`: slot maps, free sets, reverse index, counters agree.
- `RegisterSlotAgrees`: a record names the slot its worker holds.
- `ClaimHoldsWarmSlot`: a claim's timer frees its own slot only.
- `NoSlotCollision`: the shared id space never makes the register refuse a slot.
- `WorkersHaveProcesses`, `NoOrphanProcess`: no slot or record without a process
  that will clear it, no process without a record unless it was told to die.
- `AssignedAreBusy`, `WorkerLifeCycle`: no second task, no task left with a dead
  worker.
- `KilledWorkerReleasesSlot`, `SpawnResolves`: the clean-up completes.
- `PendingWithinLimit`, `OneRowPerTask`, `CompletedIsAnswered`, `CallsReturn`: the
  throttle, the metric rows, the meaning of COMPLETED, no hanging call.
- `LedgerIsUnanswered`: the ledger holds a task exactly until it is answered.
- `OwnersDistinct`: whatever became of the reverse lookup, no two tasks share a
  worker and a worker that can be handed out belongs to nobody.
- `MappedTaskAnswered`: reconciliation answers what nothing else does.
- `AckedDelivered`: an acknowledged number hides no event that was not delivered.
- `SentIsLogged`, `WalDelivered`: a batch is in the WAL as long as it is being sent,
  and what is in the WAL is sent until it arrives.  The first is stated until `stop()`,
  and after it for a WAL of one file: with several, the loop and `flush()` may both be
  sending, and the answer to one compacts the other's record away.
- `StopReturns`: the two processes never keep each other from ending.
- `RegistryAgrees`: the registry's level of a job is where its entry is.
- `DispatchedOncePerRow`: a job leased twice, with entries at two levels, is dispatched
  no more often than it was ingested.
- `WriteBackIsCurrent`: for a job of one row the write-back Map has its status now, its
  final one, a bare promotion or nothing; and what a persistence cycle took from the Map
  before its awaits may be out of date when it is written, but is never ahead of the job.
  It does not say that a status is written at all: that is `WriteBacksAreFlushed`, which
  the code violates.
- `MovesForward`: no sweep, dispatch or caller takes a job back in status or level, and a
  job leaves the queue only by a step of the transition table into a final status, which
  the Map then holds.
- `UnhandedIsLogged`: a write that was answered with success from the log can be read from
  it until a replay has handed it to its handler, even in vain, through rotations, crashes, restarts into
  the same file and compactions; unless a record was torn or a file filled during a
  replay.  In both of these cases the code does lose it: a record behind a torn one is
  never read, and a file filled during a replay is unlinked at its end, by the line that
  `wal_compaction` is about.  `OwedIsLogged` is the promise without exceptions.
- `AckedByHolder`: among several coordinators only the last holder acknowledges a job,
  for good.
- Of the runs expected to fail, on the same module: `WriteBacksAreFlushed`, a status in the
  Map is written or replaced as long as the coordinator runs; `OwedIsLogged`, a write that
  was answered from the log stays on the disk until a replay has brought it into the
  database.
- `CountsAgree`: completed tasks and open dependencies are counted right, so that a task is
  ready exactly when its dependencies are completed.
- `IndexesAgree`: tags, groups and statuses follow the jobs through prunes and imports.
- `LogTellsStatus`: the last event of a task says its status.
- `HandedOverOnce`: a drained job is not accepted again too soon.
- `BuildIsRight`: a graph is refused exactly if it has a cycle, and depths are
  longest paths, for every graph of three stages.
- `FallbacksKnowMore`: the model a prediction falls back to has at least as many samples.

`CHECK_DEADLOCK FALSE` stands where the program really stops: when all calls have
ended, or all tasks are answered and no worker does anything.

## Fairness

- *Pool:* timers fire, a process that got SIGKILL ends, and Node delivers its
  `close`.  Clients need not call; plugins need not exit, start or answer.
- *Profiling:* the event loop goes on (calls take their next step), and the
  dispatcher answers every task; that is what `MappedTaskAnswered` and
  `LedgerIsUnanswered` are about on the dispatcher's side.
- *Batcher:* the event loop goes on with the loop and with `flush()`, and a send
  ends, with an answer or without.  Nobody need call `start()` or `stop()`, the
  registry need not record; failures and crashes may happen, a bounded number of
  times: a coordinator that fails for ever rightly keeps `stop()` from returning.
- *Dispatch:* only the reconciliation timer, an interval.  Workers may be silent.
- *Queue:* the timers of the dispatch and persistence cycles fire while the coordinator
  runs, the event loop goes on with fetches, cycles, sweeps, snapshots and the replay, the
  database and the log answer, in either way.  Only `WriteBacksAreFlushed` needs this: its
  counterexample is a coordinator that goes on and has nothing left to write.
  Nothing is assumed of starts, stops, crashes, callers, leases or rivals; failures come a bounded number of times.
- *Jobs:* none; the parts make no step of their own.

## Proofs

TLAPS checks, for every value of the constants:

| theorem | property | assumes |
|---|---|---|
| `PoolTypeOK`, `PoolSlotAccounting`, `PoolRegisterSlotAgrees`, `PoolClaimHoldsWarmSlot`, `PoolNoSlotCollision` | as named | - |
| `PoolWorkersHaveProcesses`, `PoolNoOrphanProcess`, `PoolAssignedAreBusy` | as named | `"throws" \notin SpawnOutcomes` |
| `PoolImplementsWorkerPool` | `WorkerLifeCycle` (refinement of `WorkerPool!Spec`) | same |
| `ManagerTypeOK`, `ManagerPendingWithinLimit`, `ManagerOneRowPerTask`, `ManagerCompletedIsAnswered` | as named | - |
| `DispatchLedgerIsUnanswered`, `DispatchOwnersDistinct` | as named (and `DispatchTypeOK`) | - |
| `BatcherTypeOK`, `BatcherSentIsLogged` | as named | - |
| `BatcherAckedDelivered` | `AckedDelivered` | `NoCut`: nothing is merged, or every key fits in a batch |
| `SpecUnhandedIsLogged`, `SpecAckedByHolder` (main coordinator) | as named | - |
| `SpecTypeOK`, `SpecRegistryAgrees`, `SpecDispatchedOncePerRow`, `SpecWriteBackIsCurrent`, `SpecMovesForward` (main coordinator) | as named | - |
| `SpecCountsAgree`, `SpecIndexesAgree`, `SpecLogTellsStatus`, `SpecHandedOverOnce`, `SpecBuildIsRight`, `SpecFallbacksKnowMore`, `SpecTypeOK` (local coordinator) | as named | - |

So every safety invariant, every action property and the refinement that a passing
run checks is a theorem for all values of the constants, or for those of the last column.

Beside these only the named ASSUMEs of the modules are used (disjoint ids,
natural numbers for capacities, and that the batches offered to the local coordinator
are sequences of payloads), which TLC evaluates in the runs.

*Slots* (`ProcessPoolProofs`).  `SlotInv` holds types, the
coherent table, the agreement of record and slot, the claims, and
`SlotIdsUnambiguous`: a worker holds a warm slot only where no worker slot has
that id.  This last part is what makes the rest inductive: `replaceOccupant` looks
an id up among the worker slots first, so a worker takes over a warm slot only if
the id is beyond the worker slots, and hence the id alone identifies the slot.
From it follows that the register never meets an id twice.

*Processes* (same module).  `ProcInv` relates records, slots, process
entries and clients.  It is preserved only if `spawn()` reports its failure: after an
exception a worker has a slot and a record and no process, which is what the local
coordinator's copy can produce.

*Refinement* (same module).  Each action of the pool maps to a life-cycle
action of one worker, to `Clear`, or to a stutter, under both invariants.

*Metric rows* (`PluginManagerProofs`).  The properties are nearly inductive
together; added are that `pending` is finite, that only flushes that exist hold
rows, and that a call with a COMPLETED profile is past its drain loop.

*Ledger* (`TaskDispatchProofs`).  Added: a task past INITIATING or with a
worker mapped to it has a worker; a task with a snapshot under way is past
INITIATING, so that the broadcast inside `resolveTask` does not offer it; nothing is
known of tasks not dispatched yet.  Inside `resolveTask` the worker is free before
the task is forgotten, so ownership is stated for a set of tasks and proved through
the broadcast for all tasks but that one.

*Acknowledgements* (`WorkerBatcherProofs`).  A batch is good if each event up to its
`toSeq` is in the batch or delivered already.  Added to the property: every batch in
the queue, in a process or in the WAL is good.  So an answer may come in any
order: it raises `lastAcked` to the `toSeq` of a good batch just delivered.  A batch that
is fetched is good because `getChangeBatch` leaves nothing out below `toSeq`, which
takes the lemmas on `Chosen` and `Carried`, and `NoCut`: without it `batcher_cut` is
the counterexample.

*What is sent is logged* (same module).  Added is `Alone`: while the batcher runs,
`flush()` does not, so only the answer to the one batch being sent can compact the log;
and a log of one file loses nothing to a compaction.  A torn record or a failed write
extends the log, and what is in a log is in one that extends it.

*The log of the main coordinator* (`QueueOrchestratorProofs`). Every step is one of a few
for the persistence manager (`PersistenceStep`). The property is not inductive, for the end
of a replay unlinks the older files. `LogInv` adds, as long as nothing is `damaged`, that no
file has a torn record (`Whole`), so all of the log can be read, and `ReplayCovers`: while a
replay runs, what is owed and not handed over is still to be handed over, or in the current
file, which no compaction touches. An append goes to the current file; a rotation makes
another file the current one, which harms nothing when no replay runs, and sets `damaged`
when one does; a replay that starts reads the whole log; a crash ends the replay before it
compacts.

*Leases* (same module).  An action property from three facts about single steps: a claim
takes open rows only, an acknowledgement changes rows of its holder only, and every
other step leaves acknowledged rows alone.

*The queue of the main coordinator* (same module).  Every step of the coordinator is one
of a few for the queue (`QueueStep`), which its properties are proved for.  Five parts are
added to make them inductive.  `Sound` is `RegistryAgrees` of any queues and registry,
because an ingest is a loop over rows and what holds between two of its turns has to be
said of values.  `Covered`: dispatches and levels with a pending entry are together no more
than the ingests, so a job leased again, with pending entries at two levels, is still
dispatched once for each row.  `NewJobs` and `OncePlaced`: a job without a row is
nowhere, and one of a single row has no entry but the registry's, so a change of "its"
status is the status written back.  For these the number of ingests is a history variable.
`FlushReached` says the same of what the cycles took from the Map: no status of a job
without a row, and of a job of one row none ahead of its own (`Stage`), which stays true
because its status only rises while the cycle awaits.  `MovesForward` follows step by step
from them.

*Loops* (`Induction`).  Where the code loops over a sequence, the model folds over it with a
function on `0 .. n`.  `FoldExists` gives its equations, `FoldStays` that its values stay in
a set which each turn keeps; both rest on the least element of a set of numbers, which the
well-foundedness of `<` gives, so they need no induction principle with an operator as
parameter.  In this way the invariants are kept by the loops of `ingestFromDatabase()`,
of `predict` and `seedFromCluster` and of `filter()`.

*Registry* (`LocalCoordinatorProofs`).  `IInv` says of every job, in the registry and in
an exported state, that its status is the one its tasks have (`StatusTrue`), that
dependencies and dependents are inverse to each other (`LinksTrue`) and, unless it is
irregular, that its counts are right (`CountsTrue`); and of the indexes, that they list
exactly the jobs that carry a tag or are in a group.  The exported state is
in the invariant because an import brings it back.  `LinksTrue` is what makes a
completion right: it lowers the count of exactly the tasks that wait for the
completed one, each once, since no dependency is named twice.  As long as a
ghost's job does not exist, a mark of it changes the task index only.

*The registry's log* (same module).  `Tells` states the property without naming a last
event: the status is that of any update that no later update follows.  An event that is
appended is the greatest position, so it replaces what was said of its task and leaves
other tasks alone; a flush or an import, which empties the log, leaves nothing to say.
That there is a last one (`Greatest`) is needed once, to come back to the property.

*The coordinator's queue* (same module).  What is remembered is the end of what was handed
over, all of it or at least `MaxRecentHistory` of it (`RememberedEnd`), and nothing
remembered waits in the buffer.  A job that is drained is therefore none of the last
`MaxRecentHistory` handed over.

*The builder* (`DagBuilderProofs`).  The tasks taken so far are those with in-degree 0 that
are not in the queue (`Taken`).  `GraphInv` says that the in-degree of a task counts the
dependencies that are not taken, that its depth is one more than the greatest of those
that are, and that `processed` is their number.  When the queue is empty, either all are
taken and the depths bound every path by the number of tasks, or each of the others
depends on another of them, so that paths of every length end there: this is what the
definition of a cycle by paths says.  `AtWork` adds for a batch of several jobs that those
before the one at work have no cycle.

*The stores* (same module as the registry). With a context's time model there is the plain
one, with no fewer samples and a last one no older (`TimeTrue`). In the bounded Map, order
and keys are the same set, each once, and no more than `LRU_MAX` and one for each contract
(`MapsUpTo`); `adrift` says whether the global model was evicted, pruned or seeded, and as
long as it was not, it has the most samples. A prediction may create models and evict
others, but keeps the counts of those that stay (`Sparing`). The saved state is in the
invariant of each store because a restore brings it back.

*Only model-checked:* the liveness properties (`KilledWorkerReleasesSlot`, `SpawnResolves`,
`CallsReturn`, `MappedTaskAnswered`, `WalDelivered`, `StopReturns`), since liveness under
fairness and `ENABLED` are out of the prover's reach. The conditions in the table are
needed: `batcher_cut` shows `AckedDelivered` violated without the one, and an exception of
`spawn()` breaks `WorkersHaveProcesses` without the other.

## Findings

| run | source | disagreement |
|---|---|---|
| `pool_slot_leak` | `processPoolOrchestrator.mjs:215` | a bind that finds no worker slot returns the key to a warm slot without the timer the document promises: the slot is lost |
| `dispatch_lookup` | `taskDispatcher.mjs:381` | a task whose send is in flight is offered to a second worker, and the reverse lookup is no inverse any more |
| `wal_compaction` | `wal.mjs:261` | compaction deletes every older file it can read, acknowledged or not |
| `queue_flush` | `queueOrchestrator.mjs:279` | a persistence cycle clears the whole Map after its awaits: a status set meanwhile is never written, where the comments speak of a flush |
| `queue_log` | `persistenceManager.mjs:305` | "Compact WAL after successful replay" happens after a failed one too: a write that was answered with success is gone |
| `batcher_cut` | `jobStateRegistry.mjs:698` | a batch cut before a merged event hides that event's earlier updates below `toSeq` |

A run is kept for what takes several steps to go wrong.  The models also follow the code
where it departs from its comments and tests in a single statement, which needs no
counterexample to be seen:

- `pluginManager.mjs:87` says "Ensure metrics are flushed before reading"; the rows pushed at
  198-207 carry `execution_id`, `saveMetricsBulk` (`profileRepository.mjs:361`) binds
  `executionId`, so the insert throws, the rows go back into the buffer, and the report is
  written without them.  A flush of another caller that has taken the rows has the same
  effect.  `SaveOutcomes` lets a save succeed as well.
- `taskDispatcher.mjs:304` reads `this.#ppo.register`, which the pool keeps private, so
  reconciliation takes every worker for MISSING and fails the task of a BUSY one too,
  against "If the PPO doesn't know about it, or it's not BUSY" (306).
- `mc-queue.mjs:130` says "proportional across priority levels"; the quotas of the levels
  (136-143) are read into `levelQuota` (150) and never used, so the only limit is the
  total, and a level starves while those above it fill the total again and again.  For this
  reason there is no property that every pending job is dispatched.
- `STATUS_TRANSITIONS` (`mc-queue.mjs:26`) lets an assigned job only be acknowledged or
  fail.  The test "should track memory and trigger compaction" takes a hundred jobs from
  `assigned` to `completed` (`src/__tests__/queue.integration.test.mjs:124`) and expects a
  hundred tombstones (128); `updateJobStatus` refuses each of these steps.  `MovesForward`
  is stated of the table, not of the test.

## What is left out, and why

- *Dispatcher:* `abortTask` has no caller, `#reapZombies` returns at once because
  the pool exposes no register, `shutdown` ends the process.  The local
  coordinator's copy differs by having no pending queue and relaying results.
- *Pool:* `send()` is modelled in `TaskDispatch`, where its outcome matters; the
  content of stdin and stdout is data.
- *Batcher and WAL:* an error of `replay()` in `start()`, after which the batcher starts
  without the batches not read; throttle answers, which only delay; metrics; the modes `db` and
  `disk`; names of files opened within a millisecond, which sort at random; a
  single event above `maxBytes`, which stops the log for good.
- *Main coordinator:* see its section above; also what a rival does with the jobs it
  leased, which its own queue decides.
- *Local coordinator:* a builder with `strict = false`, which nothing constructs and which
  only gives a missing context another error; the execution window, which
  nothing fills; `updateRuntimePhase`;
  time stamps; the logs of the runtime.
- *Memory controller:* admission arithmetic without state; the pool takes its answer as a
  free choice.
- *Planner, analysis pipeline:* sequential numeric computations; nothing interleaves, and
  what they promise is in their numbers.
- *Analysis orchestrator:* one run after the other, and it cannot get past the first
  step: `createRun` inserts `stage_reached = 0`, which a `CHECK` of the schema refuses.
- *Worker threads:* a wrapper that nothing imports, around an operations file that does
  not parse.
- *Batch sender and mock server:* one call turned into a promise; the batcher takes the
  answer as a free choice.
- *Federation map, dataset registry:* loaded once and read only.
- *`scraps--v1`:* imported by nothing.

## Plan

Done, in this order: process pool, plugin manager, task dispatcher, change log, WAL
and worker batcher; the main coordinator with table, queue, persistence and cycles; the
local coordinator with registry, queue, intake, builder and stores.  What has no
model yet either keeps no state or cannot run (see above).  Next:

1. When a finding is mended, its run becomes one that passes, and its property a theorem:
   with a clear of only what was written, that a status is in the Map or held by a cycle
   until it is written; with a compaction up to what was handed over, `OwedIsLogged`.
2. When the local runtime is wired: the execution window over registry, queue and
   dispatcher, composed with `LocalCoordinator`.
3. When the handlers of `persistToDb` are written: what a replayed status update does to
   a row that has moved on, which today nothing can go wrong with.
