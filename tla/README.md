# A formal model of taskturbine

taskturbine runs durable tasks on PostgreSQL: a task is a row with one run per
attempt, workers claim runs for a limited time, executions suspend (to sleep or
to wait for an event) and resume from checkpoints, and an upkeep loop takes runs
from workers that went away. This directory holds TLA+ models of that protocol,
the TLC configurations that check them, and proofs that TLAPS checks.

To check a run: `tlc -config TaskStoreSafety.cfg TaskStoreMC.tla`. To check
proofs: `tlapm TaskStoreProofs.tla`. `PROJECT.json` maps each definition to the
lines it stands for and lists runs, mutants, findings, hazards and theorems.

## The system

| part | state | operations | how it meets the others |
|---|---|---|---|
| Storage: tasks and runs (`taskturbine-core/src/storage.rs`) | tables `tasks`, `runs` | spawn, claim, extend, complete, fail, schedule, cancel | all other parts call it; everything shared is in its tables |
| Storage: events | table `events`, `runs.wait_event_name` | `await_event`, `emit_event`, `cleanup_events` | suspends and wakes runs |
| Storage: checkpoints | table `checkpoints` | get, set | read and written by the context of an execution |
| Upkeep (`Storage::run_upkeep`, `app.rs` `run_upkeep`) | none of its own: a read set inside a transaction | expired claims, maximum age | races with workers on their runs |
| Garbage collection (command line) | none | `cleanup_tasks`, `cleanup_events` | deletes rows others may be about to use |
| Task context (`taskturbine-app/src/context.rs`) | checkpoint cache, counters of step names | `step`, `await_event`, `sleep_for`, `spawn_task` | one per execution, over Storage |
| Rust worker (`taskturbine-app/src/app.rs`) | a bounded channel, a batch being queued, idle counter | claim loop, executors, shutdown | claims and settles runs |
| Python worker (`taskturbine-python/python`, `worker.py`) | two bounded queues, a process pool, in-flight list | claim thread, main loop, result thread, shutdown | claims and settles runs |
| asyncio worker (`asynclib.py` there) | a set of pending tasks, a shutdown flag | one loop that claims, awaits and settles | claims and settles runs |
| Scheduler (`taskturbine-cli/src/scheduler.rs`) | sorted entries, table `scheduler_state` | tick | spawns tasks |
| Applications (`App`, `taskturbine-core/src/config.rs`) | usecase, channels, registered names; rows carry them and an idempotency key | spawn, emit, create workers | many share one database; a usecase keeps them apart |
| Python bindings (`taskturbine-python/src`) | the configuration, an idle counter | the same operations for `App`, `AsyncApp` and contexts | each method is one call of Storage |
| Command line (`taskturbine-cli`) | none | spawn, cancel, emit, clean up, upkeep, list, get | a client of Storage with a configuration of its own; `get-task` reads in pieces |

What is hard here: several processes act on the same rows, with operations that
take their locks in different places (some before they look, some after, some
never); a worker can be slow rather than dead, so that its claim lapses and
somebody else acts on its run; a process can stop between any two commits; an
event can come before, during and after the wait for it; an attempt is counted
in two places. What makes each part correct:

- lifecycle: a task is executed by one worker at a time, not more often than
  `max_attempts` allows, and ends settled; what is over stays over;
- upkeep: an abandoned run is taken from its worker, once;
- events: no event is missed, whatever the order of emission and wait;
- context: a committed step is not executed again; a sleep is slept once;
- workers: a claimed run is executed or given up, and shutdown ends;
- scheduler: an entry that is due is spawned once per interval;
- applications: usecases do not reach into each other, a key is executed once at
  a time, a worker executes only what its configuration lets it claim;
- command line: what is shown as completed is complete.

## Modules

| module | what it is |
|---|---|
| `TaskStore` | the tables and every operation of Storage that changes them, one action per committed transaction, or two where rows are read without a lock; events only while deadlines are met |
| `TaskStoreProperties` | what TaskStore promises, with the inductive invariant of the prompt case, and what the repository says that does not hold |
| `TaskLifecycle` | the life of a task in the abstract: it waits, one worker executes it, it is done |
| `TaskStoreLifecycle` | the refinement mapping from `TaskStore` to `TaskLifecycle` |
| `Usecases` | `TaskStore` under the configurations of applications that share a database: usecases, channels, names, idempotency keys; Rust, Python, asyncio and the command line |
| `TaskStoreMC` | symmetries for TLC |
| `UsecasesMC` | four configurations for TLC |
| `TaskStoreProofs` | type correctness, the bound on runs per task; while deadlines are met: one active run, exclusive execution, workers own what they execute, a waiting task has a run, `TaskStore` implements `TaskLifecycle`, what is over stays over |
| `UsecasesProofs` | applications take steps of `TaskStore`; usecases are apart, keys execute once |
| `EventTransactions` | `await_event` and `emit_event` statement by statement, with row locks, whatever the deadlines; while they are met it implements `TaskStore` |
| `EventTransactionsMC` | symmetries for TLC |
| `EventTransactionsProofs` | type correctness, that the locks suffice for no event to be missed, the bound on runs per task with events at any time, and that the statements implement `TaskStore` while deadlines are met |
| `DurableSteps` | the execution of a task function over its checkpoints, composed with `TaskStore` |
| `AdminQueries` | `get-task` of the command line, which reads three tables in three statements, over `DurableSteps` |
| `DurableStepsMC` | a program for TLC, for both |
| `DurableStepsProofs` | `DurableSteps` takes steps of `TaskStore`; every step of a completed task was executed; while deadlines are met, committed steps are not repeated, a sleep is slept once, and what `get-task` shows as completed is complete |
| `WorkerPromise` | what a worker does to the runs it has claimed, in the abstract and the same for all three workers |
| `WorkerPipeline` | one Rust worker process: claim loop, bounded channel, executors, idle check, shutdown |
| `WorkerPipelineProofs` | every claim in one place, none lost, nothing left in the channel; it implements `WorkerPromise` |
| `PythonWorker` | one Python worker: claim thread, main loop, process pool, result thread, shutdown |
| `PythonWorkerProofs` | no claim handed out twice, no result committed twice, none dropped; it implements `WorkerPromise` |
| `AsyncWorker` | one asyncio worker: its loop, the tasks it awaits, shutdown |
| `AsyncWorkerProofs` | no claim is lost, tasks at work are bounded, it returns with everything settled; it implements `WorkerPromise` |
| `Scheduler` | the scheduler's loop over its sorted entries, its clock, and the table it restarts from |
| `SchedulerProofs` | the table is not ahead of the spawns, no interval is spawned twice, no entry is three turns late |
| `WorkerPipelineMC`, `PythonWorkerMC`, `AsyncWorkerMC`, `SchedulerMC` | these four for TLC |

### TaskStore

| variable | in the system |
|---|---|
| `tasks[t]` | a row of `tasks`: `state`, `attempts` |
| `runs[r]` | a row of `runs`: `state`, `attempt`, `owner` (`claimed_by`), `claim` (`claim_expires_at` compared with NOW), `due` (`available_at <= NOW()`), `wait` (`wait_event_name`) |
| `payload[e]` | a row of `events`: no row, the NULL sentinel of `await_event`, or a payload |
| `ckpts` | the rows of `checkpoints` that `await_event` writes |
| `held[w]` | the runs that worker process `w` has claimed and still executes or queues (`execute_task`) |
| `picked[u]` | the expired claim that upkeep transaction `u` has read and not yet failed |
| `aged[u]` | the candidates that max-age cancellation has read in upkeep loop `u` and not yet cancelled |

Each action is a method of Storage; its guard is the method's conditions, and
where the method returns an error after a rollback, the caller still moves on
(`CompleteRun`, `FailRun` and `ScheduleRun` have that outcome as a disjunct,
because the worker drops the run either way, `app.rs:454`). None of them but
`ExtendClaim` compares `claimed_by`, as in the code.

Abstractions, and why they are sound for the properties:

- *A transaction is a step.* Every operation locks the row it decides on
  (`FOR UPDATE`) before it looks at it, or is one SQL statement whose conditions
  are looked at again for the rows it updates. There are three exceptions, which
  read without a lock and then go by id alone:
  - `handle_expired_claims` is the two actions `PickExpired` and `FailPicked`.
  - `handle_cancellation_max_age`, one statement of which the subquery has the
    conditions and the updates have ids, is the two actions `ReadAged` and
    `CancelRead`, between which a run can be claimed. `CancelAged` is the case in
    which nothing happens in between; with `PromptCancels`, one of the deadlines
    below, it is the only one.
  - `await_event` and `emit_event` are several statements. They are steps of
    `TaskStore` only while `Deadlines` hold, where `EventTransactions` shows that
    they are atomic. In every other execution `TaskStore` speaks of tasks without
    events, and `EventTransactions` of those with events.

  The DELETE of `cleanup_events`, which also goes by name alone, is one step here,
  and a step between the statements of others in `EventTransactions`.
- *Time is two comparisons.* Durations never matter, only whether NOW has passed
  `available_at` or `claim_expires_at`; `RunBecomesDue` and `ClaimLapses` let it
  pass at any moment. Ages and retry delays are free choices (`delayed`,
  `tooOld`, the batches of the clean-ups).
- *One expired claim per upkeep transaction* (`cleanup_limit` = 1). With more, a
  transaction picks several and fails them one after the other while it holds the
  locks of those it has failed; that is the same as several upkeepers each
  failing one, except that an error rolls all of them back.
- *Ids are used once* (`Uuid::now_v7`); a deleted row keeps its id in the model.
- *Usecases, channels, names and idempotency keys* are not here but in
  `Usecases`, which says who may take which of these steps.
- *`set_checkpoint` with `extend_claim`* is left out: no caller in the
  repository passes one.

### TaskLifecycle, TaskStoreLifecycle

`TaskLifecycle` knows neither rows nor runs: a task has a phase and, while it is
executed, a holder. The mapping reads the phase from the row of the task
(`PhaseOf`) and the holder from `held` (`HolderOf`). A row that is `running` is
either being executed, or its last attempt failed and nothing is left to happen
to it (finding 1): the mapping tells them apart by whether an active run is
there, and `exhausted` is a phase of the abstract life because the code has it.
So is `Revive`, an event that brings back a cancelled task (finding 2).
`ImplementsLifecycle` says that, while deadlines are met, each transaction of
Storage is one such step or changes nothing: only the holder of a task, or its
loss, ends an execution. Without `PromptCancels` this is not so: an upkeep loop
that read its candidates before a claim ends the execution that the claim began,
a step that `TaskLifecycle` does not have.

### Usecases

`home[t]` has the columns `usecase`, `channel`, `task_name` and `idempotency_key`
of a task; they never change. The constants are what each process was started
with: `Kind` (a Rust application, one in Python or on asyncio, the command line),
`UsecaseOf`, `DefaultChannel`, `AddedChannels`, `Registered`, and for workers and
upkeep loops `AppOf` and `Consumes`. An event is a pair of a usecase and a name,
the primary key of its table. Each action is a step of `TaskStore` with the
conditions under which that process can take it:

- `Spawns`: Rust and both kinds of Python look for the name among the registered
  ones; only Rust looks for the channel among the declared ones; the command line
  looks for neither. `Taken` is UNIQUE (task_name, idempotency_key), which is
  across usecases and lasts as long as the row.
- `Claims`: the candidates of `claim_task`, by usecase and, if the worker names
  any, by channel (`Visible`). `Handles`: a run whose name is not registered can
  only fail.
- `Emits`, `Awaits`: in the usecase of the application.
- `Picks`, `CancelsAged`, `Cancels`, `CleansTasks`: the conditions on the usecase
  of these statements. `ReadAged` and `CancelRead` are left out, since everything
  that is said of `Usecases` is said of executions with `PromptCancels`.
  `CleansEvents` has none in its outer DELETE, which goes by name alone; see
  Findings.

`ListTask`, `ListRun` and `UpkeepMetric` are what the command line and the
metrics show in a usecase, and `UsecasesApart` compares that, which is what an
operator would see.

Seen on the way: `set_channels` of the binding clears a copy of the set and so
adds to the channels (`taskturbine-python/src/lib.rs`); `list-run` ignores its
`--channel`; `claim_task` has no ORDER BY, so that no order of tasks is promised
and none is modelled; `spawn-task --repeat` reports a failure without saying which
copies it has spawned. `clear` says "in a usecase" (`commands/clear.rs:1`) and
truncates the tables of all usecases (storage.rs:266-277).

### EventTransactions

`await[w]` and `emit[m]` are the transactions under way, with the locks they hold
on the row of the event and on runs; the variables of TaskStore hold what is
committed. Statements of `await_event`: `AwaitInsert` (checkpoint looked up,
sentinel inserted if there is no row), `AwaitRead` (`FOR SHARE`), `AwaitLock` (the
run, `FOR UPDATE`, and its state), `AwaitCommit`. Statements of `emit_event`:
`EmitUpsert`, then `EmitMatch` (the snapshot of `matching_waits`) and an `EmitLock`
for each of its runs, in any order: the UPDATE takes the locks one after the other
and keeps those it has while it waits for the next. `EmitCommit` wakes what is
locked, which is all of the snapshot that was not deleted. Either can roll back
at any point. The rules of PostgreSQL that this uses are in the head of the
module. The other operations of TaskStore go on in between, as long as they leave
locked rows alone; their own locks are folded into the moment of their commit.

`EventsCleaned` is `cleanup_events` on one event, which waits for locks on its
row. It can come between `AwaitInsert` and `AwaitRead` when the first has found a
row and so locks nothing (`AboutToRead`); then the sentinel is gone, `await_event`
suspends the run without one, and an event emitted meanwhile is missed. The
constant `CleanupRaces` admits that. The properties are about `CleanupRaces` =
FALSE: an application that only cleans up events for which no wait begins any more
is in that case.

### DurableSteps

| variable | in the system |
|---|---|
| `saved[t]` | the rows of `checkpoints` that steps and sleeps of task `t` write (`ckpts` of TaskStore has the others) |
| `exec[w][r]` | the execution of `r` by worker `w`: the call it is at, and its context (`loaded`, `cache`: `Checkpoints` in models.rs) |
| `ran`, `slept` | history: which steps were executed for a task, and which sleeps it was put to sleep for |

A task function is `Program`, a sequence of calls of `step`, `sleep_for` and
`await_event`. Each call is split where it meets the database: `LoadCheckpoints`,
then `StepCached`, or `StepExecuted` (the function of the step has returned) and
`StepStored` (its checkpoint is committed); `SleepPassed`, or `SleepNotFound`,
`SleepRecorded` and `SleepScheduled`; `EventAwaited` is `AwaitEvent` of
TaskStore. An execution ends with `TaskCompleted`, `TaskFailed` (at any point,
since a step, the function or a statement can fail) or `ExecutionsLost`, and
`ExecuteTask` starts the function again for every later claim. `KeyOf` is the
name that `generate_name` makes: the counters of a context are a function of the
position, because a context lives for one execution of a fixed program. It is a
name, not a pair: `FormatName` leaves the first call its name and gives the others
a suffix, the string `name#count`, which the constant `Suffixed` stands for. So two
calls can come out with one name. The doc says "unique checkpoint name"
(models.rs:343), and the code does not deliver it: of the steps `x`, `x`, `x#2` the
third finds the checkpoint of the second and is never executed. `NamesApart` says
of a program that this does not happen; `EveryStepRan` is about such programs. The
checkpoints of events, `$awaitEvent:...`, are kept apart in `ckpts`; a step with
such a name is not in the model.

`Python` is the set of workers that execute with `context.py`, and `Asyncio`, a
subset, those whose context is that of `asynclib.py`; the others use
`context.rs`, and all kinds may work on one task in turn. In Python `sleep_for`
looks in the cache; a false result (`Falsy`) is stored as no bytes (`Empty`); and
with `LoadFails` the error of a failed load reads as a missing checkpoint. On
asyncio nothing is loaded: each lookup asks the cache, which has what this
execution wrote, and then the table for one checkpoint (`Lookup`).

`Elsewhere` is everything else in TaskStore except `ExtendClaim`, which nothing
but tests calls. What is left out: the disposable context that a step function
is given (its steps count their names from one again), and task functions whose
calls are not the same when they start again.

### AdminQueries

`task_get` of `admin_storage.rs` sends three statements that share no
transaction. `view` is its `TaskDetails` as far as it has been read, reduced to
what `ShownComplete` asks: `ReadsTask`, `ReadsRuns`, `ReadsCheckpoints`, in the
order of `Tables`, between which workers and clean-up go on.

### WorkerPromise

`TaskStore` knows of a worker what it has claimed, `held[w]`, and the next three
modules where in the process that is. `WorkerPromise` is the interface between
them: `held`, what was `settled`, and `trouble`, whether something went wrong that
may cost a worker its claims. Its actions are what a worker does to `held[w]`:

| here | in TaskStore |
|---|---|
| `ClaimsMore` | `ClaimTask`, which may find nothing |
| `SettlesOne` | `CompleteRun`, `FailRun`, `ScheduleRun` and an `AwaitEvent` that suspends, whatever the storage answers |
| `LosesSome` | `WorkerLoses`: a reply that is not waited for, a batch that is dropped, a panic, a killed process, an exception |

`KeepsPromise` of the three workers is that they implement it, with a mapping of
their own: in `WorkerPipeline` `Held` is the batch, the channel and what executors
execute, and trouble is a runtime of several threads, a claim loop that has ended
or a panic; in `PythonWorker` it is the queues and the futures, without those that
were taken or whose process died; in `AsyncWorker` what is pending or to be
settled. What a process holds when it exits is lost with it, which is `WorkerLoses`
once more. The three are not composed with `TaskStore` beyond this: claims are
numbers here, in the order of claiming, and a number is a run at most once, as a
run that is claimed again is another claim.

In one point the Python worker does more than `WorkerPromise` tells: after an
exception in the middle of a poll a result can be taken twice (`AppliedOnce`
excludes that case), which changes neither `held` nor `settled`. The storage
refuses the second, unless the run is running again by then; `TaskStore` has no
such step.

### WorkerPipeline

Where in the process the claims of a Rust worker are.

| variable | in the system |
|---|---|
| `claimer`, `batch`, `idle` | the task `claim_tasks`: where it is, its `claimed`, and `idle_count` |
| `chan`, `closed` | the async channel of twice `worker_concurrency` places |
| `exec[x]`, `doing[x]` | the `process_task` tasks of the JoinSet |
| `shutdown`, `checker` | the guards of elegant_departure, and whether `check_idle_shutdown` runs |
| `parallel` | whether the runtime has several threads; an application chooses it |
| `claimed`, `finished` | history: how many runs were claimed, and whose execution returned |

A step goes from one await to the next. A claim is two steps, the statement
(`ClaimExecuted`) and its rows (`ClaimReturned`), since shutdown can come between
them, and `ClaimerStops` then drops the claim; `ClaimFailed` is the error, after
which the `select!` has no branch left that claims. `Push` is one `try_send`;
when the channel is full nothing happens until there is room, whatever shutdown
says. `Receive` is a turn of an executor. Its second `recv` discards what it
receives; on one thread nothing can arrive between the two, so `NothingLost` and
the properties about the channel speak of one thread (`~parallel`), and
`ExecutedOnce` and `ShutdownEnds` of both. `Panics` ends an executor for good.

### PythonWorker

| variable | in the system |
|---|---|
| `claimer`, `batch`, `idle` | `run_claim_thread`, its `claimed_tasks`, `idle_count` of the binding |
| `claimedTasks`, `taskResults` | the two bounded queues |
| `main`, `got`, `look`, `keep`, `inflight` | the main thread in `run`, `_poll_inflight` and `shutdown`, and the futures in flight |
| `pool`, `ready`, `gone` | the process pool, futures that are ready, and those whose process was killed and that never will be |
| `resulter`, `taken` | `run_result_thread`, and the results it has taken |
| `shutdown` | `_shutdown` |

The main thread polls one future a step (`PollsOne`), because putting a result
can block. Storage calls are one step: the binding holds the interpreter lock
meanwhile. Upkeep is left out but for its error (`Raises`). Two things are taken
from timing: a claim thread that waits for the clock (`last_fetch`) may go on at
any moment, and the result thread gets from `queue.Empty` to its look at
`shutdown` within the sleep, or the idle fetches, that precede the decision to
stop (`Decides`).

`ReadyIsTaken` and `ShutdownReturns` are conditional, and the conditions are
where the code is weak, on purpose visible in the model: an exception of
`complete_run` (a claim that was lost) ends the result thread for ever, so that
results pile up until `put` blocks the main thread; a claim that fails ends the
claim thread; a killed process leaves a future that is never ready, and the
worker never idle; after an exception has left `run` the pool is terminated, and
`shutdown`, called at exit as in `examples/python-demo`, waits for futures
that are never ready. And when a task was claimed and `worker_shutdown_idle_max`
fetches found nothing while the main thread was kept in a poll, it stops with the
task in the queue, and the claim thread may wait for ever to put another.

### AsyncWorker

| variable | in the system |
|---|---|
| `stopOnIdle` | the argument `stop_on_idle` of `run` |
| `main` | what the loop does or awaits |
| `claimed`, `got`, `missed` | how many runs were claimed; whether this turn claimed any; whether `last_claim_miss` is less than a second ago |
| `pending`, `finished` | `_pending_tasks`, and those of them whose coroutine has ended |
| `done`, `settled` | the tasks that `asyncio.wait` gave back and are still to be settled; those whose result was processed |
| `shutdown` | `_shutdown` |

Everything runs on one event loop, so tasks return and the signal handler runs
only where the loop awaits (`Awaits`). `Raises` stands for every exception that
leaves `run`, whichever statement it comes from; the tasks that are pending are
cancelled with the loop, and their claims lapse.

Seen on the way, and visible in the model: with one place free the loop asks for
`worker_concurrency` more runs, so that up to 2C - 1 are at work, where
`taskturbine-python/README.md:155` speaks of up to `worker_concurrency` tasks
(`InFlightBound` is the bound that does hold). `stop_on_idle` looks at whether
this turn claimed something, not at whether it tried: when the last tasks end in
a turn that was full at its start, or less than a second after a miss, the worker
returns with tasks in the queue (`asynclib.py:511`). And for up to a second after
a miss with nothing pending the loop comes round without awaiting anything, so
that a signal has to wait for the next claim.

### Scheduler

| variable | in the system |
|---|---|
| `at`, `order`, `pos`, `nap` | `run_scheduler` and `tick`: the point reached, the sorted entries, the entry under way, what is left of the sleep |
| `age[e]`, `lag` | how long ago are `last_run` of the entry and the `now` of this turn |
| `stored[e]` | how long ago is its `last_run` in `scheduler_state` |
| `phase` | the clock, modulo a multiple of the crontabs' periods |
| `spawnAge`, `excused`, `forgotten` | history: for when an entry was last spawned; entries late for a reason outside the loop; spawns a restart cannot know of |

Time is relative, so that the model is finite and time never ends: `ClockTicks`
ages everything by a second, up to `AgeBound`. A turn of the loop takes at most
`LagBound` seconds. `Spawn` and `Record` are two steps because the process can
stop between them. A timedelta of zero seconds, which the configuration accepts,
would be due in every tick; `PeriodAssumption` leaves it out.

Seen on the way: the loop sleeps for what remained at `now`, which it read at the
start of the turn, so it sleeps too long by as much as the turn took, and an entry
can be late by that on top of the turns before and after the sleep
(`SpawnedInTime`). An entry without a row in `scheduler_state` counts from the
start of the process, so one whose period is longer than the time between
restarts is never spawned; and when the table cannot be read at the start, the
task panics while the process waits for a signal (`StartFails`).

## What is checked

| run | configuration | what it shows | states |
|---|---|---|---|
| `store_safety` | 1 task, 3 runs, 2 workers, 2 upkeepers, no events, no deadline is met, with fairness | typing and `RetryBound` in every execution; an abandoned run is recovered | 132 thousand |
| `usecases` | 2 tasks, 4 runs, 3 workers, 1 upkeeper, 2 usecases with an event each, 2 channels, 1 key, 4 configurations, batches of two, deadlines met | one active run, exclusive execution, a worker owns what it executes, a waiting task has a run, each transaction is a step of `TaskLifecycle`, what is over stays over; a key is executed once, a step touches one usecase | 114 thousand |
| `event_atomic` | 2 tasks, 3 runs, 2 workers, 1 event, 1 emitter, deadlines met | the statements implement TaskStore | 46 thousand |
| `event_promise` | 1 task, 2 runs, 2 workers, 2 events, 1 emitter, one attempt, waits time out and claims lapse | no missed event, no run too many, every transaction ends | 197 thousand |
| `durable_steps` | 1 task with four calls (step x, sleep, event, step x), 3 runs, a worker in Rust, one in Python and one on asyncio, results that are false in Python among them, 4 attempts, deadlines met | caches are current, every step is executed, no committed step again, results stay, no sleep twice, `get-task` shows no completed task with something missing | 706 thousand |
| `worker_pipeline` | 2 executors (4 places in the channel), batches up to 2, 5 claims, idle after 2, with fairness | every step one of `WorkerPromise`, every claim executed once and none lost, the channel drained, shutdown ends, what is queued is executed | 239 thousand |
| `python_worker` | 2 processes, queues of 2, 3 claims, idle after 2, with fairness | nothing lost or doubled between the threads, results taken, shutdown returns | 208 thousand |
| `async_worker` | concurrency 2, 7 claims, with fairness | every step one of `WorkerPromise`, every claim in one place, fewer than twice the concurrency at work, returns settled, shutdown ends, claims again and again | 12 thousand |
| `scheduler` | a crontab of period 3, a timedelta of 2 seconds, a crontab that cannot be parsed, turns up to two seconds late | no interval twice, the table not ahead of the spawns, no entry late by three turns | 817 thousand |
| `spent_task` | as `store_safety`, smaller | see Findings | |
| `cancelled_task` | 1 task, 3 runs, 1 event, deadlines met | see Findings | |
| `worker_claims` | as `worker_pipeline`, with 3 claims | see Findings | |

CHECK_DEADLOCK is FALSE in all of them: with one-shot ids and bounded attempts a
model run ends when all tasks are settled and cleaned up, and a worker ends when
it is told to. (The scheduler never ends: its clock goes on.)

Four runs check a refinement: `event_atomic`, that the statements of events
implement the atomic operations (`AtomicEvents`), `usecases`, that these
implement the life of a task (`ImplementsLifecycle`), and `worker_pipeline` and
`async_worker`, that a worker does nothing to its claims but what `WorkerPromise`
says (`KeepsPromise`; for `PythonWorker` it is proved and has no run). The type
invariant of `TaskStore` is checked by `store_safety`, and proved; `TxTypeOK`,
`DTypeOK`, `UTypeOK`, `PTypeOK`, `ATypeOK`, `WTypeOK` and `STypeOK` are proved and
have no run.

**Bounds.** `MaxAttempts` = 2 gives a task a retry, and with the third run id a
retry too many would show. `AttemptBound` = 3 ends the claims of a run that
sleeps and wakes again and again (each claim counts an attempt); the proofs do
not depend on it. Two workers are a worker and the one that takes over; two
upkeepers pick the same claim. `event_promise` has two events because a run that
waited for one can be in `await_event` for the other when the first is emitted:
only then does `emit_event` wait for a run that `await_event` has locked. One event
is enough for `event_atomic`, where no wait times out, so that this cannot be.
One task is enough outside the prompt case, where no property relates two
and only `claim_task` and the clean-ups act on several. With one attempt in
`event_promise` a second run would be one too many. `usecases` has two
tasks since its properties compare workers' runs, and `ClaimQty` = 2 so that one
statement claims two runs. Its four applications are one of each kind; the first,
the asyncio one and the command line share usecase A, so that two workers of one
usecase compete, one of them for a single channel; the same key is spawned in
both usecases, and one task has a name that no worker knows. `durable_steps` has two steps of one name around a
sleep and an event, so that names collide if they can and every call is resumed
over; four attempts and three runs interrupt an execution at each point, twice.
Two results tell a repeated step's result from the first. Symmetry is used on
safety runs only. In `worker_pipeline` five claims of at most two fill the
channel of four and leave one in a batch that waits, with both executors
possibly gone; in `python_worker` three claims fill one queue and leave one in
hand, and as results they fill the other. In `async_worker` seven claims are one
more than an off-by-one in `HasRoom` needs to show. Idleness after two fetches is the least
that a claim in between can undo. In `scheduler` the entry that
can never be spawned may come first, before an entry of each kind; their periods
meet in every combination. `LagBound` = 2 makes a turn as long as a period, which
it takes for an entry to become due while the loop still sleeps too long for
another: with 1 a bound of two turns seems to hold. `AgeBound` = 10 is above what a
property asks about. Any number of entries, periods and turns is in the proofs.

**Deadlines.** Four assumptions on timing, which the code does not enforce:

- `PromptWorkers`: no claim lapses while its worker executes the run
  (`worker_claim_timeout_secs` is documented as something tasks must stay below,
  `taskturbine-app/src/config.rs:66`);
- `PromptEvents`: no wait reaches its timeout;
- `PromptCancels`: nothing changes between the snapshot of
  `handle_cancellation_max_age` and its updates. It is one statement, so that the
  window is short, but a worker that claims one of its candidates just then, or
  one candidate while the UPDATE waits for the lock of another, has its run
  cancelled under it: with only this flag FALSE TLC finds `HeldIsRunning` violated
  by a spawn, `ReadAged`, a claim and `CancelRead`;
- one upkeep process (two of them pick without locks, so that they can fail one
  run twice).

`Deadlines` is all four. In `TaskStoreProperties` the first section needs none of
them and the second needs all. `WorkerLoses` stays possible in all: a worker may
die, or give up some of what it has claimed and go on with the rest, at any time.

**Fairness.** `ClaimLapses` is weakly fair because the clock advances.
`PickExpired` is fair because `run_upkeep` ticks for ever and only logs an
error (`app.rs:664-694`), strongly so because each tick does everything in turn: it
cancels by age, with `CancelRead` weakly fair, and then looks for expired claims.
`UpkeepFails` is strongly fair: an aborted tick is
followed by another, and a transaction that is started again and again commits
in the end. Workers and clients have no fairness at all. In `TxFairSpec` a
transaction proceeds, and a row lock is handed out in the order of arrival, so
that a waiting statement is not overtaken for ever: strong fairness.
`TransactionsEnd` is about that and nothing else, so it does not follow from
rollbacks, which have no fairness.

In `WorkerPipeline`, `PythonWorker` and `AsyncWorker` every task or thread is weakly fair, as
the runtime and the operating system schedule them, and task functions return;
a claim that fails, a panic, a killed process, an exception and a signal have no
fairness, so nothing rests on their happening. The scheduler's timing is a guard
of `ClockTicks`: it has no liveness property, only bounds on lateness.

**Mutants.** Each property of a passing run has a mutant in `PROJECT.json`: a
definition changed the way a bug would (a dropped guard, a lock not taken), for
which TLC finds the property violated.

## Findings

1. `spent_task`: when the last attempt fails, `do_fail_run` fails the run and
   writes the task back as it was, `running`: it can neither be cancelled nor
   cleaned up, and keeps its idempotency key (storage.rs:901, against
   storage.rs:49 and migrations/0001:28).
2. `cancelled_task`: cancelling, by `cancel_task` or by age, leaves `wait_event_name` in place, and
   `emit_event` wakes whatever names the event: a cancelled task runs
   (storage.rs:1293, against storage.rs:790).
3. `worker_claims`: the pattern `Ok(mut claimed)` of the `select!` in
   `claim_tasks` disables the branch when a claim fails: the worker stays up and
   never claims again (app.rs:716, against taskturbine-app/README.md:210).

The models have more behaviours that a reader of the code should know of. They
have no run of their own; the constants that exclude them are their record.

- A wait that timed out is not cleared by the next claim, and the late event
  takes the run from its worker, whose claim has not lapsed (storage.rs:1297,
  1293; `PromptEvents`: with FALSE, `ExclusiveExecution` fails).
- Upkeep fails a run that completed after upkeep read its claim, and the
  completed task runs again (storage.rs:651; `PromptWorkers`, one upkeeper).
- `cleanup_events` deletes by name alone, so that cleaning up in one usecase
  deletes the events of the same name of all others, recent ones included
  (storage.rs:198, against the doc at storage.rs:188; `CleansEvents`).
- `cleanup_events` can delete the sentinel between the two statements of
  `await_event` that rely on it, and the event is missed until the timeout
  (storage.rs:198, 1111; `CleanupRaces` in `EventPromise.cfg`: with TRUE,
  `NoMissedEvent` fails).
- A run that is claimed while `handle_cancellation_max_age` acts on what it has
  read is cancelled under its worker, and its task with it (storage.rs:667-690;
  `PromptCancels`). `KeyExecutedOnce` rests on that flag too: a clean-up that falls
  into the same execution would free the key.
- Steps `x`, `x`, `x#2`: the third is skipped (models.rs:313, against "unique
  checkpoint name" at models.rs:343; `NamesApart`: with that program `EveryStepRan`
  fails).
- Two calls of `emit_event` for two events can lock the same two runs in opposite
  orders (a run that stopped waiting for one event and waits for the other by the
  time of the second); PostgreSQL aborts one of them, which the caller sees as an
  error. `TransactionsEnd` is checked with one emitter.
- `sleep_for` records that it has slept before the run is scheduled, in another
  transaction: when the worker stops in between, the retry goes on at once
  (context.rs:305). `SleptOnce` is what the order buys.
- Outside the prompt case a task can have two active runs, or wait with none, and
  `emit_event` is not atomic: the snapshot of `matching_waits` goes stale, and a run
  that timed out, ran and completed in between is set back to pending
  (storage.rs:1289).
- A step of the Python contexts that returns a false value (`0`, `""`, `[]`) is
  stored as no bytes and read back as `None`: the first attempt goes on with the
  value and later ones with `None` (context.py:177; `Falsy`, `Empty`). The step
  itself is not repeated: table and cache agree.
- With `LoadFails`, an error of the load is taken in Python for the lack of a
  checkpoint, and a committed step is executed again (context.py:119; with TRUE,
  `CommittedStepNotRepeated` fails).
- What the sections on `WorkerPipeline`, `PythonWorker`, `AsyncWorker` and
  `Scheduler` say of over-claiming, early idleness, dropped claims, dead threads and restarts.

## What is proved

All theorems hold for every value of the constants under the assumptions that
`TaskStore`, `Usecases`, `EventTransactions`, `DurableSteps`, `Scheduler` and the
three workers name (`MaxAttempts`, `AttemptBound` and `ClaimQty` natural numbers,
NULL not an id, the flags Boolean, the events of the program events,
configurations that name usecases and channels there are, workers with at least
one executor, schedules with a period). Those said to need it below assume `Deadlines`
(the three flags, one upkeeper at most), and those about checkpoints also `ReadsBack`:
no worker is written in Python, or no load fails.

- `TypeCorrect`. `TypeOK` is inductive. It is more than types: a row that was
  inserted names its task, and what workers hold and upkeep has picked was
  inserted; the others rest on that.
- `RetryBoundHolds`. The invariant `RetryInv` counts: a task has at most
  `attempts` runs, or one if it was never claimed, and `attempts` only reaches
  a new run through `AttemptsRemain`. Needed because `RetryBound` itself says
  nothing of `attempts`, which the claim raises too. `TxRetryBoundHolds` is the same
  for `TxSpec`, where events come statement by statement and whenever they like:
  each commit is shown to keep `RetryInv`.
- `OneActiveRunHolds`, `ExclusiveExecutionHolds`, `HeldIsRunningHolds` (under
  `Deadlines`). The invariant `PromptInv` has *live* runs in place of active
  ones: a run that still names an event can be woken, so that a bound on active
  runs alone is not inductive. With it: rows agree with their task (`RowAgrees`),
  what a worker holds is running, its own and not lapsed (`HeldAgrees`), what
  upkeep has picked is running and lapsed, so held by nobody (`PickedAgrees`), and
  with `PromptCancels` nothing is kept that cancellation by age has read.
- `WaitingTaskHasRunHolds`, `LifecycleHolds` (under `Deadlines`). The invariant
  `LifeInv` adds to `PromptInv` that a run which still names an event belongs to
  a task that waits or was cancelled (`WaitersAgree`): without it, an emitted event
  could put a task in the queue that is being executed, which is no step of the
  abstract life. Each action is shown to be one step of `TaskLifecycle` by what it
  does to the runs of one task; claims, clean-up and events do that to several
  tasks at once.
- `TasksOverHolds`, `OverStaysOverHolds` (under `Deadlines`). A task is *over*
  (`OverTask`) when its row says so and none of its runs is live. That a completed
  task is over rests on `PromptInv` (its one live run is the one that was
  completed), and that it stays so is shown step by step; the abstract life has a
  `done` that ends a task, but says nothing of runs.
- `UsecasesAreStore`, and from it `HeldIsOwnHolds`, `KeyExecutedOnceHolds` and
  `UsecasesApartHolds` (under `Deadlines`). The first needs nothing but the
  assumption on the configurations, and carries every theorem about `TaskStore`
  over to applications that share a database. The invariant `UInv` has `LifeInv`,
  that keys are unique among the rows (`KeysUnique`), that a worker holds what it
  may see (`HeldIsOwn`) and that a run waits for an event of the usecase of its
  task (`WaitsAtHome`): an event, which finds runs by its name, then reaches tasks
  of one usecase. Every step is shown to reach the tasks of one usecase only.
- `TxTypeCorrect`, `LocksSuffice`. The invariant `LocksAgree` says what the locks
  of a transaction guarantee about the committed row: while `await_event` has
  inserted or share-locked it nobody is emitting, what it saw is still so, and
  what `emit_event` matched covers all that sleep by now. It needs
  `~CleanupRaces`: with `CleanupRaces`, TLC finds an event missed.
- `AtomicEventsHolds` (under `Deadlines`, with `~CleanupRaces`). The invariant
  `AtomInv` adds `PromptInv`, which holds of the committed tables as each step
  maps to one of `TaskStore`; that nobody records the event under an
  `await_event` that found no checkpoint (`NotRecorded`, by exclusive execution);
  and that what `matching_waits` has seen does not go stale (`SeenAgrees`): since
  no wait reaches its timeout, only an event or the deletion of the row ends it
  (`LeavesWaits`). Each commit is then exactly `AwaitEvent` or `EmitEvent`.
- `EveryStepRanHolds` (under `NamesApart`). The invariant `StepsInv` follows the
  evidence: whatever is behind the point an execution has reached, in its cache or
  in the table was executed for the task. It holds even when two workers execute a
  task at once, because it rests on names alone: an entry under the name of a step
  was written by that step (`StepsApart`). Without `NamesApart` the theorem would
  be false.
- `DurableStepsAreStore`: every step of `DurableSteps` is a step of `TaskStore` or
  changes no table (`StepRefines`), so that what is proved there holds here.
- `DurableTypes`: `DTypeOK` is inductive, with what a worker executes among what
  it holds.
- `CacheCurrentHolds`, `CommittedStepHolds`, `ResultsStableHolds` (under
  `Deadlines` and `ReadsBack`). The invariant `FreshInv` says that a cache agrees
  with the table and that what an execution is about to write is not there. It
  needs `PromptInv`: the one execution of a task is the only one that writes its
  checkpoints, by `StepRefines`. Workers in Rust, in Python and on asyncio
  are covered, and work on one task in turn.
- `SleptOnceHolds` (under the same). The invariant `ProgressInv` says that every
  call behind the point an execution has reached is recorded in the table
  (`BehindInv`), that a sleep slept is recorded until the task is deleted
  (`SleptSaved`), and that a completed task has everything (`CompletedHasAll`). An
  execution that is about to record a sleep has found no checkpoint, hence, as its
  cache is current (`FreshInv`), there is none, hence it has not been slept.
- `ShownCompleteHolds` (under the same). `get-task` reads a completed task, which
  is over and has everything; it stays so, or is deleted as a whole, while the
  runs and the checkpoints are read (`AdminInv`, from `TasksOver` and
  `ProgressInv`).
- `AsyncTypeCorrect`, `AsyncClaimsHold`, `InFlightBoundHolds`, `ReturnsSettledHolds`.
  The invariant `AsyncInv` adds that nothing is in hand outside `settling`, that nothing is
  pending when `run` has returned, and that a claim, during which tasks only
  return, starts with room for one: a batch then fits below 2C (`BatchFits`, by
  counting).
- `PipelineTypeCorrect`, `ExecutedOnceHolds`, `PipelineLosesNothing`,
  `ChannelDrainedHolds`. The invariant `PipelineInv` says `ExecutedOnce` of the
  batch and the channel apart (`OnePlace`), since a claim passes from one queue to
  the other, and that an executor has only stopped on a closed channel
  (`StoppedCloses`), into which nothing is put.
- `PythonTypeCorrect`, `AppliedOnceHolds`, `PythonLosesNothing`. The properties
  speak of moments between polls too, when the main thread has put some results
  and still has their futures in flight. The invariant `PythonInv` therefore says
  of a poll that what it has looked at and does not keep was put (`PolledOnce`),
  that what is on its way is there once and has no result (`QueuedOnce`), that
  all of these together are everything that was claimed (`Lossless`), and that
  `run` goes on until it is told to stop (`RunsOn`).
- `PipelineKeepsPromise`, `AsyncKeepsPromise`, `PythonKeepsPromise`. Each action is
  shown to be one step of `WorkerPromise` or to leave the claims of the worker
  as they are, from the invariants above: that a claim is in one place is what
  makes settling it remove it, and in Python that `PolledOnce` holds is what lets
  a future be given up. Trouble is for good (`TroubleStays`), and no process both
  returns a task and dies under it (`DeadAreNotReady`).
- `SchedulerTypeCorrect`, `StoredWasSpawnedHolds`, `NoIntervalTwiceHolds`,
  `SpawnedInTimeHolds`. The invariant `SchedInv` says that the entries the loop has
  still to look at are sorted, however long the turn has taken (`AheadSorted`), that those
  it has passed are not due at `now`, unless their spawn failed (`BehindDone`), that
  memory and table differ from what was spawned only where a record is missing
  (`MemoryAgrees`, `LoopAgrees`), and how late an entry can be at each point of the
  turn and of the sleep (`LateBound`). It rests on two groups of lemmas: that
  counting places sorts (`Sorted`), and that remainders count the times of a
  crontab, whatever the clock shows. The bound of three turns was found here: a
  bound of two failed in the step from `TickEnds` to the sleep.

Every safety invariant and every action property of a passing run is proved. What
is only model-checked is liveness, since fairness and ENABLED are out of the
prover's reach: `AbandonedRunRecovered`, `TransactionsEnd`, `ShutdownEnds` (of two
workers), `QueuedIsExecuted`, `ReadyIsTaken`, `ShutdownReturns` and
`KeepsClaiming`. The runs are also what shows that the assumptions of the theorems
(`Deadlines`, `ReadsBack`, `NamesApart`, `~CleanupRaces`) leave the interesting behaviours in.

## Plan

Done: the store and the abstract life it implements, its events statement by
statement, durable steps in the three kinds of context, the three workers, the
scheduler, applications that share a database, what the command line reads; and
proofs of the safety of all of these. Next, in order:

1. `StatementRaces`: the locks of `cancel_task`, `handle_cancellation_max_age` and
   the settling calls one by one, and the orders in which they take them.
2. `WorkerPipeline` composed with `TaskStore`: `WorkerPromise` says which steps of
   TaskStore a worker takes, and the composition would say on which runs, and what
   a worker that is late with its queue does to runs whose claims have lapsed.

Not modelled, and not planned:

- `get-run` of the command line, which shows checkpoints by their `owner_run_id`,
  a column that `DurableSteps` does not keep because nothing else reads it;
- `clear` (truncates the tables, for development), `migrate` and `update_schema`;
- the parsing of arguments and configuration, and conversions between Rust and
  Python values or database rows; among them `TryFrom` for the Python
  `ClaimedTask`, which makes its run id from the task id and is called by nothing
  (`taskturbine-python/src/models.rs`);
- the arithmetic of the retry schedule (`next_retry_in`), which is pure and has
  unit tests. Two copies of it count attempts differently: `Task` from `attempts`,
  `ClaimedTask` from `attempt + 1`;
- formatting and metrics, test helpers and examples.
