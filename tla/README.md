# TLA+ verification of the distributed asynchronous job scheduler

This directory holds TLA+ models of the scheduler in `src/`, TLC configurations
that check them on small instances, and TLAPS proofs of the central results for
instances of any size. Each definition is translated from the Python source;
`PROJECT.json` maps it to the lines it stands for.

## 1. The system

**Processes.** A FastAPI service, several scheduler replicas, several worker
processes. They share PostgreSQL (READ COMMITTED, the truth) and Redis (delivery).

| Part | Source | State | Operations that change it |
|---|---|---|---|
| Run store | `worker/store.py`, `common/dispatch.py`, `common/models.py` | table `job_runs` | `create_run`, `claim_run`, `finish_run`, `cancel_run`, `create_retry_run`, `create_dependency_run` |
| Queue | `common/redis_queue.py` | stream `jobs:stream` with consumer group and pending entries (PEL), set `jobs:delayed`, channel `jobs:cancel` | XADD, XREADGROUP, XAUTOCLAIM, XACK, XDEL, ZADD, promotion, publish |
| Worker | `worker/main.py`, `worker/runner.py` | asyncio tasks, semaphore, `inflight_by_run`, log buffer | `run` (reclaim, read, drain), `handle`, `process_run`, cancel listener, `LogBuffer` |
| Executors | `worker/executors/` | a subprocess, pumps, a poll loop | `shell`, `http_async`, `http` |
| Leader election | `scheduler/leader.py` | advisory lock, sessions, connection pool, `is_leader` | `acquire`, `_reset`, `release` |
| Scheduler | `scheduler/main.py`, `scheduler/cron.py` | `last_scheduled_for`, the runs of one tick | `tick`: promote, `schedule_due_jobs`, `requeue_orphans`, enqueue |
| Jobs and dependencies | `api/routers/jobs.py`, `api/crud.py` | `job_dependencies`, pending runs | `trigger_job`, `update_job`, `delete_job` |
| Run routes | `api/routers/runs.py` | | `retry_run`, `cancel_run` |
| Users, auth, health, metrics | `api/`, `common/` | users, tokens | not modelled |

**How they interact.** The API commits a row and then XADDs its id. A worker
reads the id, claims the row with a conditional UPDATE, executes, writes the
outcome, starts dependents or schedules a retry, and acks. Messages of dead
workers are reclaimed by XAUTOCLAIM with `allow_running=True`. The leading
scheduler creates the runs that are due, promotes delayed retries and enqueues
old queued rows again. Cancellation is an UPDATE plus a pub/sub message.

**What makes it hard.** Every `await` of a worker lets other processes run. A row
and its message are written in two steps, with a crash possible in between.
Delivery is at least once, pub/sub at most once. Idleness of a message stands for
the death of its worker, and is not the same. The leader checks its lock before a
tick and not during it. Select and write are separate statements in the fan-out
and in the trigger. A worker that gets SIGTERM has tasks in every stage. Two pumps
share a log buffer that threads empty. `PROJECT.json` lists these hazards with their lines.

**What should be true.** No run is lost; no run is executed twice; an outcome is
final; one retry per failure; one run per tick; one leader; a dependent runs after
its dependencies and is always woken; executors return; a worker drains; no log
line is lost.

## 2. Modules

| Module | Models | Lines of thought |
|---|---|---|
| `RunStore` | `job_runs` and its transactions | one operator per transaction; rows are a sequence indexed by run id |
| `RedisQueue` | stream, group, delayed set | one operator per Redis command as the code uses it |
| `RunLifecycle` | what a run's row promises | abstract specification: claim, finish, cancel, retry |
| `Dispatch` | API routes, workers and scheduler around one run | a task's `pc` names the `await` it stands at |
| `DispatchLifecycle` | `Dispatch` as an implementation of `RunLifecycle` | the refinement mapping |
| `WorkerLoop` | `run` of one worker, from start to end | the loop's `pc` names its `await`; a message is its stream id, a task a message and the number of its delivery |
| `LeaderLock` | what the election promises | abstract specification: one holder, ticks start under the lock |
| `Leader` | election | sessions are separate from the processes that use them; the pool is explicit |
| `Cron` | `next_run_time`, `due_tick` | time is `0..Horizon`; past it datetime overflows |
| `Scheduler` | `tick` in each replica, on top of `Leader` | read, commit and enqueue are separate steps |
| `SchedulerClock` | one leader against time | the catch-up loop step by step, changes of a schedule, backoff, delayed set, orphans |
| `Dependencies` | trigger walk, dependency updates, deletion, scheduled runs, fan-out | the walk is an explicit stack inside one transaction; the fan-out is a chain of transactions |
| `HttpAsync` | submit and poll executor | discrete clock, remote task, slow replies |
| `Shell` | shell executor and log buffer | command, background process, two pumps, threads that insert lines, timeout, cancellation, the last flush |
| `MCDispatch`, `MCScheduler`, `MCDependencies` | instances | constants and symmetry sets |
| `DispatchProofs` | theorems about `Dispatch` | see section 5 |
| `LeaderProofs` | theorems about `Leader` and `Scheduler` | see section 5 |
| `CronProofs`, `ClockProofs` | theorems about `Cron` and `SchedulerClock` | see section 5 |
| `WorkerProofs` | theorems about `WorkerLoop` | see section 5 |
| `DependencyProofs`, `FanOutProofs` | theorems about `Dependencies` | see section 5 |
| `ExecutorProofs` | theorems about `Shell` and `HttpAsync` | see section 5 |

`Dispatch` composes `RunStore`, `RedisQueue` and the workers; `Scheduler` composes
`Leader`, `Cron` and the tick; `Dependencies` reuses `RunStore` with a queue
reduced to what a dependent can see. The slices are deliberate: `Dispatch` has
jobs without dependents, `Dependencies` has no automatic retries, `Scheduler`
ends where the id is on the stream, and `WorkerLoop` has one worker, with the calls
of `process_run` reduced to claim, execute and settle. In each, the part left out
is the subject of another module.

**Abstraction.** Control is kept in full: guards, early returns, error paths,
their order, and every point where others may run. Payloads, results and the text
of log lines are dropped. A crashed process is replaced at once by one with empty
memory. Definitions named `X_something` with a comment "Mutant of X" are changed
versions of `X`. They are used by no specification; putting one in place of `X`
must break the property named for it in `PROJECT.json`.

**Read a few constants with care.**
- `Prompt` (`Dispatch`): TRUE means that a message is idle for
  `claim_min_idle_ms` only once the tasks it was delivered to are gone, so runs
  are shorter than that setting. FALSE lets live deliveries be reclaimed.
- `MaxFaults` (`Dispatch`): awaited database or Redis calls that raise.
- `MaxLosses` (`Leader`): sessions that end under a live process, or checks that
  fail without a disconnect; `MaxStops`: crashes and shutdowns.
- `MaxIdle` (`WorkerLoop`): messages of live tasks of this worker that become
  idle, so that it reclaims them from itself; `MaxFaults`: calls of the loop, of
  the listener and of `handle` that raise, with the command executed or not, and
  cancel messages that are not published or get lost.
- `FlushEvery` (`Shell`): `_FLUSH_EVERY`, 25 in the code.
- `Budget` (`Dependencies`): triggers, scheduled runs, retries, cancels, updates,
  deletions, crashes; and `any`, how many of these there are together, triggers
  aside.
- `Phases` (`HttpAsync`): how often one request may use up `request_timeout`,
  which httpx applies to each phase of a request.

## 3. Runs that pass

| Run | Shows | States |
|---|---|---|
| `DispatchStalls` | types, first claims, stream, refinement of `RunLifecycle`, with live messages reclaimed, two triggers or a user's retry, and two cancels | 535k |
| `DispatchFailover` | a call raises and a worker crashes: a running run can be recovered; one execution, one retry, final outcome while nothing fails | 1195k |
| `DispatchRetryLiveness` | every run settles, with a crash or a lost enqueue and a retry | 200k |
| `Scheduler` | refinement of `LeaderLock`; one leader with a live session; one run per tick although two replicas tick; bookkeeping matches; a due job gets its run, and the run its message, through a stop and a loss | 328k |
| `SchedulerClock` | the catch-up loop ends, finds the latest due tick and equals the operator used by `Scheduler`; ticks do not drift; backoff doubles; a retry starts, and not before its time | 260k |
| `WorkerLoop` | tasks in flight are bounded; SIGTERM leaves behind no run, and no message but those with a lost reply or ack; the drain ends; a cancel message finds its task; the loop never runs out of capacity | 337k |
| `Dependencies` | the walk is a path and makes one row per job; the last dependency wakes the join, and only then | 1149k |
| `HttpAsync` | the poll loop ends, at most one request late, no false timeout | 73k |
| `Shell` | a command is killed with its group; every line it wrote is stored once; the executor returns and leaves no command | 1074k |

Each module has a type invariant `TypeOK` (`HttpTypeOK` in `HttpAsync`). It holds in all these instances; only
`DispatchStalls` lists it, where it is the statement of a theorem.

**Conditions.** Some promises hold only until something happens. Their properties
say so with the counters of the models, and one run covers the behaviours with
and without it. Each condition is needed: TLC finds the trace beside it when the
property is stated without the condition. (For `EveryDueJobRuns` it is an
assumption of `Scheduler`; `SchedulerClock` has the schedules that raise.)

| Property | Holds until | Otherwise |
|---|---|---|
| `OneExecution` | a crash or failing call; needs `Prompt` | a duplicate message reclaimed from a dead worker starts a second execution beside the live one |
| `OneRetryPerRun` | the same | a worker dies between `create_retry_run` and `finish_run`; the takeover retries again |
| `OutcomeIsFinal` | the same | a second execution ends later, and `finish_run` only spares canceled rows |
| `RecoverableWithoutFaults` | a failing call; needs `Prompt` | `handle` acks after an exception too; or a stalled first delivery acks the message under which another worker runs |
| `SingleActiveLeader`, `TicksInOrder` | a lost session | the lock goes with the session, which the leader looks at only between ticks |
| `EveryDueJobRuns` | a schedule that raises | `due_tick` is outside the `try`, so one interval past the end of datetime rolls back the tick of all jobs, every time, and no orphan is looked for |
| `TicksDoNotDrift` | a change of the schedule | the new period counts from the last tick of the old one |
| `RetryNotEarly` | (the backoff or the orphan threshold) | `requeue_orphans` sends a retry that waits in the delayed set |
| `NoRunStranded` | `run()` raises (calls of `process_run` that raise are in `Dispatch`, see `ViolLostByFault`) | `asyncio.run` cancels the tasks, and each acks the message of a run that stays `running` |
| `GracefulStop` | (messages with a lost reply or ack, section 4) | XREADGROUP or XAUTOCLAIM is executed and its reply lost, or XACK raises, and the worker stops before it has reclaimed the message from itself |
| `CancelIsHeard` | the cancel message is missed: it is not published after the commit, comes before `subscribe`, gets lost, or the listener ends before it reads it (a call raises, or SIGTERM); or the run's message is delivered twice to one worker | pub/sub keeps nothing, and nobody watches the listener; the drain is without it; `inflight_by_run` knows only the later task. The run goes on although its row says canceled |
| `DrainEnds`, `ReadsGoOn` | an executor that hangs | the drain awaits every task, without a timeout |
| `RunsAfterDependencies` (a success that was, not one that is; of runs that a trigger or a fan-out makes: see section 4) | a graph change | a run that was dispatched may now have more dependencies |
| `NoLostWakeup` | a second trigger, a scheduled run, a crash, a graph change, a deletion | a worker dies after `finish_run` or in the middle of the fan-out; a dependency that a second trigger or the scheduler has started ends while a trigger that saw it active has not committed its pending run; the dependency that was waited for is deleted, or a deleted dependent ends the fan-out before the others |
| `UpstreamFirst` | a second trigger, a scheduled run, a retry, a graph change; about dependencies that have none themselves | a success of an earlier round counts for this one (`_all_dependencies_succeeded` takes any success there is); a job with dependencies may get another run after its first (section 4) |
| `NoCommandLeft`, `CancelTerminates` | a second cancellation, or an INSERT of log lines that raises in the branch for a cancellation | either leaves the `CancelledError` branch before `_terminate` |
| `ShellReturns` | the same, or a background process that stays | the pumps are awaited without a timeout, and the process holds their pipe |
| `LinesKept` | a pump that raises or is canceled, an INSERT that raises | the rest of the stream is not read; the batch is gone from the buffer already |
| `OverrunBounded` | (one request late) | a poll sent before the deadline may be answered after it |
| `PollingEnds`, `OverrunBounded` | a server that answers in drips | httpx applies its read timeout to each read, so a reply that comes a few bytes at a time has no bound; the model lets a request last at most `Phases` times `request_timeout` |

"One trigger" means one run request of any origin: a second trigger and a scheduled
run both start a round of their own, and the conditions of `NoLostWakeup` and
`UpstreamFirst` exclude both. Where a job of a graph has a schedule as well, these
two promise nothing once the scheduler has made its first run.

`LinesKept` promises the order of a stream's lines only if nobody else logs at the
same time. If the other pump does, or the branch for a cancellation, two flushes
are in their threads together, and the later batch may get the earlier timestamps.

**Bounds.** Two workers, two tasks and two messages are the least in which one
delivery stalls while another runs the same run, and a duplicate message exists.
Two runs are a run and its retry, by the policy or by a user, or two triggers; the
third is a second retry. One crash and one fault suffice to separate any two
adjacent steps of a task; `DispatchStalls` has neither, for a task that stalls for
ever is as good as crashed, and leaves them to the two runs after it. Two replicas are a
leader and a standby, with one stop and one loss; four sessions are needed, for
what both use at once and the ones the server has yet to end (with three the
election can run out of them). `SchedulerClock` starts with cron and interval jobs
of two periods and creation times, changes a schedule once, polls at all times up
to 6 and overflows after 7, so that `due_tick` raises; a chain of two retries
reaches the cap of the backoff. `WorkerLoop` has a message of a dead worker and
two new ones, one malformed, a concurrency of two and a read batch of one: enough
to exceed the concurrency and to redeliver a message to the worker that has it;
with one fault, one cancel and one live message that becomes idle. The graph of `Dependencies` is a join of two jobs, one `update_job` of which
makes every other graph on three jobs that differs in the dependencies of one job,
cycles and triangles included; besides the trigger there is one disturbance of any
kind, at any moment. The poll loop covers all timeouts up to 6 and intervals from
0 to 4 with replies of up to 4. `Shell` has four lines on two streams and a buffer
of two: enough for two flushes, of the pumps or of a cancellation, to overtake
each other; two cancellations and one INSERT that raises. Symmetry is used only in
runs without liveness properties.

**Deadlock** is checked for `Scheduler`, whose replicas never stop. The others may
stop: all budgets spent, all runs settled, time at its end, or a worker or an
executor that returned.

**Fairness.**
- `Dispatch`: the worker loops poll for ever, asyncio resumes a task whose
  `await` is done, the semaphore serves in order, executors return, some scheduler
  replica ticks. Nothing is assumed of users, cancel messages or failures. That
  executors return is shown in `HttpAsync` (if requests end) and `Shell` (if the command
  leaves no process that holds its pipe).
- `WorkerLoop`: the event loop runs the loop and the tasks when they can go on, and
  time passes for a message that nobody works on. Executors may take any time; the
  properties that need them to return say so. Nothing is assumed of the listener.
- `Scheduler`: the main loop polls, a tick returns or raises, the server ends
  sessions nobody holds any more (TCP keepalive), time passes.
- `SchedulerClock`: the leader polls, workers read the stream, time passes.
- `HttpAsync`: strong fairness of the clock, because with a poll interval of 0
  time passes between instants at which it could tick; nothing of the remote task.
  Requests end within `Phases` timeouts, which httpx guarantees only of a server
  that does not spread one reply over many reads.
- `Shell`: timer, event loop and threads only; no process is assumed to end.

## 4. Runs that end in a violation

Each checks one statement of a comment in the code and ends in a trace of the code
doing otherwise. `PROJECT.json` quotes the statement.

| Run | The code |
|---|---|
| `ViolDoubleExecution` | reclaims a live worker's message and executes the run twice, with no failure at all |
| `ViolLostByFault` | acks after any exception, so the run stays `running` for ever |
| `ViolDoubleFanOut` | creates two dependent runs when two upstream runs end together |

More observations made with the models, beside the conditions above:
- A backoff longer than `orphan_requeue_after_sec` is cut short by
  `requeue_orphans`. `RetryNotEarly` says by how much at most.
- While one enabled job's schedule raises, no other job gets runs and no orphan a
  message. Delayed retries still start, because they are promoted first.
- After a check that fails without a disconnect, `_reset` returns a session that
  still holds the lock to the pool. The replica that has it gets the lock again
  when it takes that session.
- A job may have both a schedule and dependencies (`JobBase` allows it), and
  `schedule_due_jobs` queues its run without a look at them. `retry_run` does the
  same, for instance with a pending run that was canceled. So `models.py:96`,
  "`job_id` runs only after `depends_on_job_id` has succeeded", is not true of these
  runs. `RunsAfterDependencies` says it of the others, those that a trigger or a
  fan-out makes, and holds while scheduled runs and retries come and go beside
  them.
- A scheduled run, or a run of a second trigger, that ends at the moment at which a
  trigger decides that its job is pending leaves that run pending until the next
  fan-out to it.
- The commit and the message are two steps in `trigger_job`, `retry_run` and
  `cancel_run`. A run whose XADD is lost is found by `requeue_orphans`; a cancel
  whose publish is lost is not sent again, because the second request finds the run
  terminal.
- A message whose reply or ack was lost has no task. The worker, or another, gets it
  when it has been idle (`ReadsGoOn`); a worker that stops leaves it to the others.
- `create_dependency_run` updates the pending run by its key only and queues it
  again if it was canceled in between. The same UPDATE queues it again if it has
  succeeded in between: of two fan-outs that both selected the pending run, one may
  stall until the run of the other has ended. So a success may vanish from
  `job_runs`, and a job two levels down be promoted while its dependency is queued
  again. `Dependencies` keeps the successes there have been in a history variable
  `hadSuccess`, and `RunsAfterDependencies` is about these.
- A timeout that meets a command just reaped cannot find its group, so a background
  process lives on. `NoCommandLeft` speaks of what a killed command has left.
- `capacity` is used for the reclaim and again for the read. Up to one batch over
  `worker_concurrency` is in flight and waits at the semaphore.

## 5. Proofs

TLAPS checks the theorems below for all values of the constants, from the named
assumptions of the modules (constants have their types, null values are no
members, graphs are over the jobs). Every safety property of a passing run has a
theorem. Each rests on an inductive invariant; the properties themselves are
seldom inductive, and the text says what had to be added. In each proof there is
one step per action, over lemmas on what each primitive changes.

**`Dispatch`** (`DispatchProofs`), for all sets of jobs, workers, tasks, messages.
- `IInv` adds what links the parts: a task points to existing rows and messages and
  its message's run is its own (`TaskRefs`, `QueueRefs`), `inflight_by_run` points
  to tasks of that worker and run (`Registered`), a message a task holds is not
  queued again (`HeldMessages`), a run under execution is not queued
  (`ExecutedWasClaimed`), cancel messages are about canceled runs
  (`SignalsAreTrue`). From it: `TypeCorrect`, `FirstClaims`, `StreamKept`, through
  all crashes, stalls and failing calls.
- `Refinement`: `Spec => LifecycleSpec`. Needs also that the attempt a task is
  about to retry is below `max_retries` (`RetryWithinLimit`).
- `Failover`: with `Prompt`, `RecoverableWithoutFaults`. The strengthening is that,
  while no call has raised, a message has at most one task (`OneTaskPerMessage`).
- `ExecutedOnce`, `RetriedOncePerRun`, `OutcomesAreFinal`: with `Prompt`, until a
  crash or fault. `UInv` says that then each unacked message has its task, no task
  stems from a reclaim, a run under execution is running or canceled, and a run
  that has a retry is not executed again.

**`Leader` and `Scheduler`** (`LeaderProofs`), for all replicas, sessions, jobs.
- `EInv` adds that the sessions of different replicas, pooled ones included, are
  disjoint (`OwnSessions`), that a leader whose connection is alive has the lock
  (`LeadersHoldLock`), and that before the first loss every replica in a tick has
  it (`TickersHoldLock`). From it `SoleLeader` and `SingleLeader`.
- `LockImplemented`: `Spec => LockSpec`; the holder of the abstract lock is the
  replica that believes to lead and whose session has the advisory lock.
- `OneRunPerTick`: `TickRunsOnce`, from the unique constraint alone.
- `LastTickHasRun`, `TicksAreOrdered`: the first for any number of leaders at the
  same time; the second adds that the ticks a replica is about to write are later
  than `last_scheduled_for` (`Ordered`).

**`Cron` and `SchedulerClock`** (`CronProofs`, `ClockProofs`), for all periods,
creation times, polls and horizons.
- `DueTickIsLatest`: what `due_tick` returns and when it raises. The loop is a
  recursive function; that it exists and what it computes are both proved by a
  least counterexample on the distance to the end of datetime.
- `CatchUpCorrect`, `NoDrift`: the loop step by step. `TickInv` says that the tick
  in hand is a fire time that is due and that the rest of the loop computes the
  value of `due_tick` (`LoopAtDueTick`).
- `RetriesWait`, `RetriesBackOff`: `RetryInv` says that a tick has one attempt at a
  time, that messages are not of later attempts, that the delayed set agrees with
  the rows, and that a queued run has a message only when it is ready or old.

**`WorkerLoop`** (`WorkerProofs`), for all messages, concurrencies, batch sizes.
- `WorkerTypes`, and `InflightIsBounded`: `CountInv` says what the one `capacity`
  of a turn still allows at each `await` of the loop.
- `RunsAreNotStranded`: while `run()` has not raised, a task acks only a run that is
  settled or that another task executes (`AckInv`), a task belongs to a delivery
  that was made (`DeliveryInv`, `TaskInv`), and the listener cancels only
  registered tasks of canceled runs (`RegisteredInv`).
- `StopIsGraceful`: what was delivered to this worker and is not `forgotten` (reply
  or ack lost) is in the batch or has a task in flight (`MineInv`), and the loop ends
  with neither.
- `CancelsAreHeard`: inductive together with the fact that the only task of a run
  is registered from before its claim on (`OnlyInv`).

**`Dependencies`** (`DependencyProofs`, `FanOutProofs`), for all graphs, cyclic ones
included, and all numbers of requests, workers and disturbances.
- `WalksArePaths`, `RowsAreUnique`: `BaseInv` has the types, the references between
  rows, messages, tasks and requests, and both properties.
- `DependenciesFirst`: rows about to be inserted, the jobs a fan-out aims at and the
  runs of triggers and fan-outs that are dispatched all have dependencies with a
  success (`AfterInv`). Scheduled runs and retries are exempt: a fan-out promotes
  pending runs only, and neither of these is ever pending.
- `WakeupsKept`: not inductive, because it is silent about a run one of whose
  dependencies has yet to succeed. `Woken` is stronger: a pending run has a
  dependency such that each task that made a success of it is yet to look for that
  run. For this a pending run must be the only run of its job (`Alone`).
- `UpstreamIsFirst`: a run of a job without dependencies is in one place at a time
  (outbox, stream, dead worker, task), has a status that fits, and is the only one
  of its job (`RootInv`); so once it has succeeded it stays so.

**`Shell` and `HttpAsync`** (`ExecutorProofs`, which extends both; for this
`HttpAsync` has names of its own: `HttpSpec`, `HttpNext`, `HttpTypeOK`).
- `ShellTypes`, `CommandsEnd`: after one cancellation `execute()` passes
  `_terminate` before anything that follows (`ResultInv`).
- `LinesAreKept`, for all buffer sizes and numbers of lines: a line that was read is
  in one place, once (`UniqueInv`: buffer, an INSERT under way, table), and in one at
  all while no INSERT has raised (`ReadInv`). The order needs that, while one stream
  logs alone, at most one INSERT is under way and its caller waits for it
  (`OrderInv`). The end needs that a pump that ended has read all, and that nobody
  logs after the last flush (`PumpInv`).
- `OverrunIsBounded`, `TimeoutIsTrue`: `LoopInTime` bounds the clock at each `await`
  by the last request's start; a final state not seen is younger than the last poll
  (`UnseenIsYoung`).

**Only model-checked.** All liveness: the provers do neither fairness nor ENABLED.
That the catch-up loop ends, drains end, executors return, and runs and retries
start is shown on the instances of section 3.

## 6. Not modelled

- Users, tokens, ownership, listing and reading, health and metrics: no state
  shared with runs.
- Creation of jobs: a new job has no runs and nothing depends on it; two of one
  name are kept apart by a constraint of the database.
- `http`: one request and a comparison.
- croniter, time zones and daylight saving: cron expressions are periods.
- The length of the stream: messages are bounded, so its growth with a backlog
  that `requeue_orphans` sends again at every poll cannot be stated.
- The size of a pipe, and what a command does when it is full: no process is
  assumed to end, which covers one that blocks.
- Results, the text of log lines, migrations and deployment.

## 7. Plan

Done: dispatch path and its abstraction; election and its abstraction; tick,
catch-up and backoff in time; worker loop; dependencies with deletion; the two
executors with state; the log buffer; proofs of all their safety properties. Next:

1. Dependents with automatic retries, and a second trigger or scheduled run in the
   same run as the other disturbances of `Dependencies`.
2. Several workers of `WorkerLoop` on one stream.
3. Proofs of the safety half of the liveness properties: a measure that no step
   increases and every fair step decreases, for the drain and the catch-up loop.
