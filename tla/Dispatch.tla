------------------------------ MODULE Dispatch ------------------------------
(***************************************************************************)
(* How a run travels from the API through PostgreSQL and Redis to a worker *)
(* and back: backend/worker/main.py (handle, spawn, the cancel listener,   *)
(* reclaim), backend/worker/runner.py (process_run), the trigger, retry    *)
(* and cancel routes of the API, and the scheduler's promotion of delayed  *)
(* retries and requeue of orphans.                                         *)
(*                                                                         *)
(* Every await of the worker is a point where the other processes may run: *)
(* a task's pc names the await it stands at.                               *)
(*                                                                         *)
(*   sem     async with sem             check   store.is_run_canceled      *)
(*   claim   store.claim_run            retry   store.create_retry_run     *)
(*   exec    the executor, log flush    delay   schedule_delayed_async     *)
(*   finish  store.finish_run           ack     aredis.xack                *)
(*   idle    no task                    del     aredis.xdel                *)
(*                                                                         *)
(* The jobs of this module have no dependents, so the loop over dependents *)
(* at the end of _on_success has no turns.                                 *)
(***************************************************************************)
EXTENDS RunStore, RedisQueue, FiniteSets

CONSTANTS
    Worker,         \* worker processes; a crashed one is replaced at once
    Task,           \* bound: asyncio tasks alive at once in all workers
    None,           \* no worker, no task
    Outcomes,       \* what an executor may return
    Concurrency,    \* settings.worker_concurrency
    Prompt,         \* TRUE: a message is idle for claim_min_idle_ms only
                    \* once the tasks it was delivered to are gone
    MaxTriggers,    \* bound: rows after which the API creates no more
    MaxCancels,     \* bound: runs that users cancel
    MaxCrashes,     \* bound: process crashes
    MaxFaults       \* bound: awaited calls that raise

ASSUME DispatchAssumption ==
    /\ Outcomes \subseteq {"succeeded", "failed", "timed_out"}
    /\ None \notin Worker
    /\ None \notin Task
    /\ Concurrency \in Nat \ {0}
    /\ Prompt \in BOOLEAN
    /\ MaxTriggers \in Nat
    /\ MaxCancels \in Nat
    /\ MaxCrashes \in Nat
    /\ MaxFaults \in Nat

VARIABLES
    task,               \* the worker's handle() tasks
    inflight_by_run,    \* per worker: run id -> task to cancel
    outbox,             \* runs an API or scheduler process is about to XADD
    signals,            \* cancel messages under way to a worker's listener
    crashes, faults     \* how many there have been

dispatchVars == <<task, inflight_by_run, outbox, signals>>
vars == <<runs, redisVars, dispatchVars, crashes, faults>>

Pc == {"idle", "sem", "claim", "exec", "check", "retry", "delay", "finish", "ack", "del"}

TaskRec == [pc : Pc, worker : Worker \union {None}, msg : Msg \union {NoMsg},
            run : RunId \union {0}, allow_running : BOOLEAN,
            result : Outcomes \union {"none"}, new_id : RunId \union {0}]

Idle == [pc |-> "idle", worker |-> None, msg |-> NoMsg, run |-> 0,
         allow_running |-> FALSE, result |-> "none", new_id |-> 0]

TypeOK ==
    /\ RunStoreTypeOK
    /\ RedisTypeOK(RunId)
    /\ task \in [Task -> TaskRec]
    /\ inflight_by_run \in [Worker -> [RunId -> Task \union {None}]]
    /\ outbox \in SUBSET RunId
    /\ signals \in SUBSET (Worker \X RunId)
    /\ crashes \in 0..MaxCrashes
    /\ faults \in 0..MaxFaults

Init ==
    /\ runs = <<>>
    /\ RedisInit
    /\ task = [t \in Task |-> Idle]
    /\ inflight_by_run = [w \in Worker |-> [r \in RunId |-> None]]
    /\ outbox = {}
    /\ signals = {}
    /\ crashes = 0
    /\ faults = 0

Live(t) == task[t].pc # "idle"

(* The tasks that hold the claim of their run. *)
ExecPc == {"exec", "check", "retry", "delay", "finish"}
Executing(t) == task[t].pc \in ExecPc

inflight(w) == {t \in Task : Live(t) /\ task[t].worker = w}

(* Ids nothing refers to stand for the ids Redis has not generated yet. *)
FreshMsg == Msg \ (stream \union {task[t].msg : t \in Task})

-----------------------------------------------------------------------------
(* The API and the scheduler.                                              *)

(* POST /jobs/{id}/trigger up to its commit; publish comes after it. *)
trigger_job(j) ==
    /\ Len(runs) < MaxTriggers
    /\ create_run(j, 1, 0)
    /\ outbox' = outbox \union {Len(runs')}
    /\ UNCHANGED <<redisVars, task, inflight_by_run, signals, crashes, faults>>

(* POST /runs/{id}/retry up to its commit. *)
retry_run(r) ==
    /\ Len(runs) < MaxTriggers
    /\ Status(r) \in TERMINAL
    /\ create_run(runs[r].job, runs[r].attempt + 1, 0)
    /\ outbox' = outbox \union {Len(runs')}
    /\ UNCHANGED <<redisVars, task, inflight_by_run, signals, crashes, faults>>

(* POST /runs/{id}/cancel: the conditional UPDATE, then PUBLISH.  Pub/sub  *)
(* delivers at most once and keeps nothing for a listener that is not      *)
(* subscribed, so any set of workers may get the message, each later.      *)
cancel(r) ==
    /\ Status(r) \in ACTIVE
    /\ Cardinality({q \in DOMAIN runs : is_run_canceled(q)}) < MaxCancels
    /\ cancel_run(r)
    /\ \E W \in SUBSET Worker : signals' = signals \union (W \X {r})
    /\ UNCHANGED <<redisVars, task, inflight_by_run, outbox, crashes, faults>>

(* Mutant of requeue_orphans: the wrong status is selected. *)
requeue_orphans_pending(r) ==
    /\ Status(r) = "pending"
    /\ r \notin outbox
    /\ outbox' = outbox \union {r}
    /\ UNCHANGED <<runs, redisVars, task, inflight_by_run, signals, crashes, faults>>

(* scheduler requeue_orphans: a run that is still queued after             *)
(* orphan_requeue_after_sec is selected, and enqueued after the commit.    *)
requeue_orphans(r) ==
    /\ Status(r) = "queued"
    /\ r \notin outbox
    /\ outbox' = outbox \union {r}
    /\ UNCHANGED <<runs, redisVars, task, inflight_by_run, signals, crashes, faults>>

(* The XADD that follows a commit of the API or of the scheduler's tick. *)
enqueue_run(r) ==
    /\ r \in outbox
    /\ outbox' = outbox \ {r}
    /\ \E m \in FreshMsg : xadd(m, r)
    /\ UNCHANGED <<runs, pel, delayed, task, inflight_by_run, signals, crashes, faults>>

(* The process dies, or the XADD raises, between the commit and the XADD. *)
LoseEnqueue(r) ==
    /\ r \in outbox
    /\ crashes < MaxCrashes
    /\ crashes' = crashes + 1
    /\ outbox' = outbox \ {r}
    /\ UNCHANGED <<runs, redisVars, task, inflight_by_run, signals, faults>>

(* scheduler tick: the Lua script, for a member whose time has come. *)
Promote(r) ==
    /\ \E m \in FreshMsg : promote_due_delayed(m, r)
    /\ UNCHANGED <<runs, pel, dispatchVars, crashes, faults>>

-----------------------------------------------------------------------------
(* The worker: main loop and reclaim.                                      *)

spawn(t, w, m, allow) ==
    /\ task[t] = Idle
    /\ task' = [task EXCEPT ![t] = [Idle EXCEPT !.pc = "sem", !.worker = w, !.msg = m,
                                        !.run = run_of[m], !.allow_running = allow]]

(* The main loop reads new messages.  capacity is computed once per turn   *)
(* and spent twice, by the reclaim and then by the read, so the read may   *)
(* take inflight up to twice the concurrency.                              *)
ReadGroup(w, t, m) ==
    /\ Cardinality(inflight(w)) < 2 * Concurrency
    /\ xreadgroup(m)
    /\ spawn(t, w, m, FALSE)
    /\ UNCHANGED <<runs, stream, run_of, delayed, inflight_by_run, outbox, signals,
                   crashes, faults>>

(* XAUTOCLAIM takes over any entry that has been idle long enough.  Idle   *)
(* time counts from the delivery and nothing refreshes it, so an entry     *)
(* whose task is alive qualifies too, the worker's own ones included.      *)
reclaim_stale(w, t, m) ==
    /\ Cardinality(inflight(w)) < Concurrency
    /\ m \in pel
    /\ Prompt => \A u \in Task : task[u].msg # m
    /\ spawn(t, w, m, TRUE)
    /\ UNCHANGED <<runs, redisVars, inflight_by_run, outbox, signals, crashes, faults>>

-----------------------------------------------------------------------------
(* The worker: handle() and process_run().                                 *)

(* A task moves on to its next await. *)
Goto(t, pc) == task' = [task EXCEPT ![t].pc = pc]

(* process_run is left, normally or by an exception, and the finally block *)
(* of handle runs to its first await.  Only the message id is used after.  *)
Finally(t) ==
    LET w == task[t].worker
        r == task[t].run
    IN /\ task' = [task EXCEPT ![t] = [Idle EXCEPT !.pc = "ack", !.worker = w,
                                           !.msg = task[t].msg]]
       /\ inflight_by_run' = [inflight_by_run EXCEPT ![w][r] = IF @ = t THEN None ELSE @]

(* async with sem; the task registers itself as the run's task. *)
Enter(t) ==
    LET w == task[t].worker
        r == task[t].run
    IN /\ task[t].pc = "sem"
       /\ Cardinality({u \in inflight(w) : task[u].pc # "sem"}) < Concurrency
       /\ Goto(t, "claim")
       /\ inflight_by_run' = [inflight_by_run EXCEPT ![w][r] = t]
       /\ UNCHANGED <<runs, redisVars, outbox, signals, crashes, faults>>

Claim(t) ==
    LET r == task[t].run
        allow == task[t].allow_running
    IN /\ task[t].pc = "claim"
       /\ claim_run(r, allow)
       /\ \/ /\ Status(r) \in Claimable(allow)
             /\ Goto(t, "exec")
             /\ UNCHANGED inflight_by_run
          \/ /\ Status(r) \notin Claimable(allow)
             /\ Finally(t)
       /\ UNCHANGED <<redisVars, outbox, signals, crashes, faults>>

(* The executor returns; an executor that raises counts as failed. *)
Execute(t, s) ==
    /\ task[t].pc = "exec"
    /\ task' = [task EXCEPT ![t].pc = "check", ![t].result = s]
    /\ UNCHANGED <<runs, redisVars, inflight_by_run, outbox, signals, crashes, faults>>

(* The first call of _on_success and _on_failure, and the choice after it. *)
CheckCanceled(t) ==
    LET r == task[t].run
        retryable == task[t].result # "succeeded" /\ should_retry(r)
    IN /\ task[t].pc = "check"
       /\ \/ is_run_canceled(r) /\ Finally(t)
          \/ /\ ~is_run_canceled(r)
             /\ Goto(t, IF retryable THEN "retry" ELSE "finish")
             /\ UNCHANGED inflight_by_run
       /\ UNCHANGED <<runs, redisVars, outbox, signals, crashes, faults>>

create_retry_run(t) ==
    LET r == task[t].run
    IN /\ task[t].pc = "retry"
       /\ create_run(runs[r].job, runs[r].attempt + 1, r)
       /\ task' = [task EXCEPT ![t].pc = "delay", ![t].new_id = Len(runs')]
       /\ UNCHANGED <<redisVars, inflight_by_run, outbox, signals, crashes, faults>>

ScheduleDelayed(t) ==
    /\ task[t].pc = "delay"
    /\ schedule_delayed(task[t].new_id)
    /\ task' = [task EXCEPT ![t].pc = "finish", ![t].new_id = 0]
    /\ UNCHANGED <<runs, stream, queue, pel, run_of, inflight_by_run, outbox, signals,
                   crashes, faults>>

FinishRun(t) ==
    /\ task[t].pc = "finish"
    /\ finish_run(task[t].run, task[t].result)
    /\ Finally(t)
    /\ UNCHANGED <<redisVars, outbox, signals, crashes, faults>>

(* Mutant of Ack: the message is dropped before it is acked. *)
Ack_drops_first(t) ==
    /\ task[t].pc = "ack"
    /\ xdel(task[t].msg)
    /\ Goto(t, "del")
    /\ UNCHANGED <<runs, queue, pel, delayed, inflight_by_run, outbox, signals,
                   crashes, faults>>

Ack(t) ==
    /\ task[t].pc = "ack"
    /\ xack(task[t].msg)
    /\ Goto(t, "del")
    /\ UNCHANGED <<runs, stream, queue, run_of, delayed, inflight_by_run, outbox, signals,
                   crashes, faults>>

Del(t) ==
    /\ task[t].pc = "del"
    /\ xdel(task[t].msg)
    /\ task' = [task EXCEPT ![t] = Idle]
    /\ UNCHANGED <<runs, queue, pel, delayed, inflight_by_run, outbox, signals,
                   crashes, faults>>

-----------------------------------------------------------------------------
(* The worker: cancellation, failing calls and crashes.                    *)

(* The listener gets a cancel message; the CancelledError takes the task   *)
(* registered for the run, if any, out of process_run at its await.  A     *)
(* store call that is already in its thread still commits; that is the     *)
(* behaviour in which the call comes before this step.                     *)
cancel_listener(w, r) ==
    LET t == inflight_by_run[w][r]
    IN /\ <<w, r>> \in signals
       /\ signals' = signals \ {<<w, r>>}
       /\ \/ t # None /\ Finally(t)
          \/ t = None /\ UNCHANGED <<task, inflight_by_run>>
       /\ UNCHANGED <<runs, redisVars, outbox, crashes, faults>>

(* A database or Redis call of process_run raises: handle logs it.         *)
CallFails(t) ==
    /\ task[t].pc \in {"claim"} \union ExecPc
    /\ faults < MaxFaults
    /\ faults' = faults + 1
    /\ Finally(t)
    /\ UNCHANGED <<runs, redisVars, outbox, signals, crashes>>

(* The XACK or the XDEL of the finally block raises: the task ends. *)
AckFails(t) ==
    /\ task[t].pc \in {"ack", "del"}
    /\ faults < MaxFaults
    /\ faults' = faults + 1
    /\ task' = [task EXCEPT ![t] = Idle]
    /\ UNCHANGED <<runs, redisVars, inflight_by_run, outbox, signals, crashes>>

(* The process is killed; its replacement starts with no task.  What it    *)
(* was delivered stays in the pending list.                                *)
Crash(w) ==
    /\ inflight(w) # {}
    /\ crashes < MaxCrashes
    /\ crashes' = crashes + 1
    /\ task' = [t \in Task |-> IF task[t].worker = w THEN Idle ELSE task[t]]
    /\ inflight_by_run' = [inflight_by_run EXCEPT ![w] = [r \in RunId |-> None]]
    /\ UNCHANGED <<runs, redisVars, outbox, signals, faults>>

-----------------------------------------------------------------------------
RunNext(r) ==
    \/ retry_run(r)
    \/ cancel(r)
    \/ requeue_orphans(r)
    \/ enqueue_run(r)
    \/ LoseEnqueue(r)
    \/ Promote(r)
    \/ \E w \in Worker : cancel_listener(w, r)

(* The next step of a task that meets no failure. *)
TaskStep(t) ==
    \/ Enter(t)
    \/ Claim(t)
    \/ \E s \in Outcomes : Execute(t, s)
    \/ CheckCanceled(t)
    \/ create_retry_run(t)
    \/ ScheduleDelayed(t)
    \/ FinishRun(t)
    \/ Ack(t)
    \/ Del(t)

Read(w) == \E t \in Task, m \in Msg : ReadGroup(w, t, m)
Reclaim(w) == \E t \in Task, m \in Msg : reclaim_stale(w, t, m)

Next ==
    \/ \E j \in Jobs : trigger_job(j)
    \/ \E r \in DOMAIN runs : RunNext(r)
    \/ \E w \in Worker : Read(w) \/ Reclaim(w) \/ Crash(w)
    \/ \E t \in Task : TaskStep(t) \/ CallFails(t) \/ AckFails(t)

Spec == Init /\ [][Next]_vars

(* The worker loops poll for ever, asyncio resumes a task whose await is   *)
(* done and its semaphore serves waiters in order, an executor returns     *)
(* (modules HttpAsync and Shell say when), and some scheduler replica      *)
(* ticks every few seconds.  Nothing is assumed of users, of the cancel    *)
(* channel or of failures.                                                 *)
Fairness ==
    /\ \A w \in Worker : WF_vars(Read(w)) /\ WF_vars(Reclaim(w))
    /\ \A t \in Task : WF_vars(TaskStep(t))
    /\ \A r \in RunId : WF_vars(r \in DOMAIN runs /\ requeue_orphans(r))
                        /\ WF_vars(enqueue_run(r)) /\ WF_vars(Promote(r))

FairSpec == Spec /\ Fairness

-----------------------------------------------------------------------------
(* Properties.                                                             *)

(* The conditional UPDATE of claim_run lets one delivery of a run through: *)
(* whatever crashes, stalls and duplicate messages there are, two tasks    *)
(* that both got the run on a first delivery (allow_running = False) never *)
(* execute it at the same time.                                            *)
FirstClaimOnce ==
    \A t, u \in Task :
        (/\ Executing(t) /\ Executing(u) /\ task[t].run = task[u].run
         /\ ~task[t].allow_running /\ ~task[u].allow_running) => t = u

(* worker/main.py: "No double execution".  No run is executed by two tasks *)
(* at once.                                                                *)
NoDoubleExecution ==
    \A t, u \in Task :
        (Executing(t) /\ Executing(u) /\ task[t].run = task[u].run) => t = u

(* handle acks and only then drops a message: an entry that is still to be *)
(* delivered or acked is never deleted from the stream, by any of the      *)
(* tasks it was delivered to, and no entry is handed out twice as new.     *)
StreamIntegrity ==
    /\ pel \subseteq stream
    /\ \A i \in 1..Len(queue) : queue[i] \in stream \ pel
    /\ \A i, j \in 1..Len(queue) : queue[i] = queue[j] => i = j

(* Will task t, if nothing kills it, leave its run in a terminal state?    *)
WillSettle(t) ==
    \/ Executing(t)
    \/ task[t].allow_running /\ task[t].pc \in {"sem", "claim"}

(* worker/main.py: "so no run is lost".  Behind every running run there is *)
(* an unacked message that failover can take over, and no live task will   *)
(* ack that message while the run is still running.                        *)
RunningIsRecoverable ==
    \A r \in DOMAIN runs :
        Status(r) = "running" =>
            \E m \in pel :
                /\ run_of[m] = r
                /\ \A t \in Task : task[t].msg = m => WillSettle(t)

(* The same where no call of a worker raises; RunningIsRecoverable itself  *)
(* does not survive one, for handle acks after an exception as well.       *)
RecoverableWithoutFaults == faults = 0 => RunningIsRecoverable

(* So far no process has crashed and no call has raised. *)
Undisturbed == crashes = 0 /\ faults = 0

(* "duplicate deliveries are no-ops": while nothing has failed and         *)
(* messages are reclaimed in time, no run is executed by two tasks at      *)
(* once, whatever requeue_orphans put on the stream a second time.         *)
OneExecution == Undisturbed => NoDoubleExecution

(* A failed run makes the worker schedule one retry: while nothing has     *)
(* failed, create_retry_run is never called twice for the same run.        *)
OneRetryPerRun ==
    Undisturbed =>
        \A a, b \in DOMAIN runs :
            runs[a].retry_of = runs[b].retry_of => runs[a].retry_of = 0 \/ a = b

(* A terminal status is the last status of a run: while nothing has        *)
(* failed, no later claim_run, finish_run or cancel_run changes it.        *)
OutcomeIsFinal ==
    [][\A r \in DOMAIN runs :
        (Undisturbed /\ Status(r) \in TERMINAL) => runs'[r].status = Status(r)]_vars

(* No run is lost: every run that was created reaches a terminal state,    *)
(* through crashes of its worker, of the API and of the scheduler.         *)
EveryRunSettles ==
    \A r \in RunId :
        (r \in DOMAIN runs) ~> (r \in DOMAIN runs /\ Status(r) \in TERMINAL)
=============================================================================
