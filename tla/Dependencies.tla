---------------------------- MODULE Dependencies ----------------------------
(***************************************************************************)
(* Jobs that depend on jobs: the walk of POST /jobs/{id}/trigger over the  *)
(* dependencies (backend/api/routers/jobs.py), and the fan-out of a worker *)
(* after a success (_on_success of backend/worker/runner.py, with          *)
(* dependents_ready and create_dependency_run of backend/worker/store.py). *)
(* Beside them the scheduler queues runs of any enabled job with a cron or *)
(* interval schedule, and asks for no dependencies; nothing keeps a job    *)
(* from having both.                                                       *)
(*                                                                         *)
(* PostgreSQL runs at READ COMMITTED: each SELECT sees what is committed   *)
(* when it starts, plus the session's own rows.  So each SELECT of the     *)
(* walk and of create_dependency_run is a step of its own; the SELECTs of  *)
(* one dependents_ready call are taken together, for create_dependency_run *)
(* repeats the one that guards the write.                                  *)
(*                                                                         *)
(* What happens between a message and its claim is in Dispatch; here a     *)
(* message is delivered and claimed in one step.  No job retries on        *)
(* failure.                                                                *)
(***************************************************************************)
EXTENDS RunStore, FiniteSets

CONSTANTS
    depends_on,     \* the dependencies that the jobs are created with
    Enabled,        \* the jobs that are enabled
    Task,           \* bound: handle() tasks alive at once in all workers
    Request,        \* bound: trigger requests served at once
    Outcomes,       \* what an executor may return
    NoJob,          \* not a job
    Budget          \* bound: how often users, the scheduler and failures do
                    \* what; and any of it but triggers

ASSUME DependenciesAssumption ==
    /\ depends_on \in [Jobs -> SUBSET Jobs]
    /\ Enabled \subseteq Jobs
    /\ max_retries = [j \in Jobs |-> 0]
    /\ Outcomes \subseteq {"succeeded", "failed", "timed_out"}
    /\ NoJob \notin Jobs
    /\ Budget \in [{"trigger", "schedule", "retry", "cancel", "update", "delete", "crash", "any"} -> Nat]

VARIABLES
    jobs,           \* the jobs that were not deleted
    deps,           \* the rows of JobDependency: job -> what it depends on
    hadSuccess,     \* history: the jobs, but for deleted ones, that have had a success
    scheduled,      \* the runs with trigger_type "scheduled"
    stream,         \* runs whose message is yet to be delivered, in order
    stale,          \* runs whose message was delivered to a dead worker
    outbox,         \* runs that were committed and are yet to be enqueued
    request,        \* trigger requests being served
    task,           \* the worker's tasks that hold a claim
    budget

vars == <<runs, jobs, deps, hadSuccess, scheduled, stream, stale, outbox, request, task, budget>>

Row(j, s, n) == [job |-> j, status |-> s, attempt |-> n, retry_of |-> 0]

(* A request's call stack: a job per call of _prepare_trigger_run, with    *)
(* the dependencies its loop has yet to visit; and its uncommitted rows.   *)
RequestRec == [pc : {"idle", "walk", "commit"},
               stack : Seq([job : Jobs, todo : SUBSET Jobs]), rows : Seq(JobRun)]
NoRequest == [pc |-> "idle", stack |-> <<>>, rows |-> <<>>]

TaskRec == [pc : {"idle", "exec", "finish", "ready", "loop", "pending", "write", "send"},
            run : RunId \union {0}, result : Outcomes \union {"none"},
            todo : SUBSET Jobs, dep : Jobs \union {NoJob}, id : RunId \union {0}]
Idle == [pc |-> "idle", run |-> 0, result |-> "none", todo |-> {}, dep |-> NoJob, id |-> 0]

TypeOK ==
    /\ RunStoreTypeOK
    /\ jobs \subseteq Jobs
    /\ deps \in [Jobs -> SUBSET Jobs]
    /\ hadSuccess \subseteq Jobs
    /\ scheduled \in SUBSET RunId
    /\ stream \in Seq(RunId)
    /\ stale \in SUBSET RunId
    /\ outbox \in SUBSET RunId
    /\ request \in [Request -> RequestRec]
    /\ task \in [Task -> TaskRec]
    /\ budget \in [DOMAIN Budget -> Nat]

Init ==
    /\ runs = <<>>
    /\ jobs = Jobs
    /\ deps = depends_on
    /\ hadSuccess = {}
    /\ scheduled = {}
    /\ stream = <<>>
    /\ stale = {}
    /\ outbox = {}
    /\ request = [a \in Request |-> NoRequest]
    /\ task = [t \in Task |-> Idle]
    /\ budget = Budget

Spend(what) ==
    LET spent == IF what = "trigger" THEN {what} ELSE {what, "any"}
    IN /\ \A k \in spent : budget[k] > 0
       /\ budget' = [k \in DOMAIN budget |-> IF k \in spent THEN budget[k] - 1 ELSE budget[k]]

(* The runs of a deleted job are deleted with it. *)
Exists(r) == runs[r].job \in jobs

RunsOf(j, S) == {r \in DOMAIN runs : runs[r].job = j /\ Exists(r) /\ Status(r) \in S}

Succeeded == {j \in Jobs : RunsOf(j, {"succeeded"}) # {}}

-----------------------------------------------------------------------------
(* POST /jobs/{id}/trigger.                                                *)

RowsOf(a) == request[a].rows

(* Mutant of active_run: the rows of the walk itself are not seen. *)
active_run_committed(a, j) == RunsOf(j, ACTIVE) # {}

(* SELECT of an active run in the session of the request, whose own rows   *)
(* were flushed.                                                           *)
active_run(a, j) ==
    \/ RunsOf(j, ACTIVE) # {}
    \/ \E i \in DOMAIN RowsOf(a) : RowsOf(a)[i].job = j

(* Mutant of OnStack: no check for cycles. *)
OnStack_never(a, j) == FALSE

OnStack(a, j) == \E i \in DOMAIN request[a].stack : request[a].stack[i].job = j

Step(a, stack, rows) ==
    request' = [request EXCEPT ![a] =
        [pc |-> IF stack = <<>> THEN "commit" ELSE "walk", stack |-> stack, rows |-> rows]]

Rollback(a) == request' = [request EXCEPT ![a] = NoRequest]

(* create_run in the session of the request.  The INSERT raises if the job *)
(* is gone.                                                                *)
Flush(a, stack, row) ==
    IF row.job \in jobs THEN Step(a, stack, Append(RowsOf(a), row)) ELSE Rollback(a)

(* A call of _prepare_trigger_run up to its loop: a job without            *)
(* dependencies gets its run at once.                                      *)
Visit(a, stack, j) ==
    IF deps[j] = {}
    THEN Flush(a, stack, Row(j, "queued", 1))
    ELSE Step(a, <<[job |-> j, todo |-> deps[j]]>> \o stack, RowsOf(a))

trigger_job(a, j) ==
    /\ request[a].pc = "idle"
    /\ j \in jobs
    /\ Spend("trigger")
    /\ Visit(a, <<>>, j)
    /\ UNCHANGED <<runs, jobs, deps, hadSuccess, scheduled, stream, stale, outbox, task>>

(* One turn of the loop over dependency_ids, which come in any order.  A   *)
(* job that is on the stack already is a cycle: 409 and rollback.          *)
VisitDependency(a, d) ==
    LET top == Head(request[a].stack)
        stack == <<[top EXCEPT !.todo = @ \ {d}]>> \o Tail(request[a].stack)
    IN /\ request[a].pc = "walk"
       /\ d \in top.todo
       /\ \/ active_run(a, d) /\ Step(a, stack, RowsOf(a))
          \/ ~active_run(a, d) /\ OnStack(a, d) /\ Rollback(a)
          \/ ~active_run(a, d) /\ ~OnStack(a, d) /\ Visit(a, stack, d)
       /\ UNCHANGED <<runs, jobs, deps, hadSuccess, scheduled, stream, stale, outbox, task, budget>>

(* Mutant of LeaveJob: the run has the default status of create_run. *)
LeaveJob_queued(a) ==
    LET j == Head(request[a].stack).job
    IN /\ request[a].pc = "walk"
       /\ Head(request[a].stack).todo = {}
       /\ IF active_run(a, j) THEN Step(a, Tail(request[a].stack), RowsOf(a))
          ELSE Flush(a, Tail(request[a].stack), Row(j, "queued", 1))
       /\ UNCHANGED <<runs, jobs, deps, hadSuccess, scheduled, stream, stale, outbox, task, budget>>

(* After the loop: a pending run, unless the job has an active one. *)
LeaveJob(a) ==
    LET j == Head(request[a].stack).job
    IN /\ request[a].pc = "walk"
       /\ Head(request[a].stack).todo = {}
       /\ IF active_run(a, j) THEN Step(a, Tail(request[a].stack), RowsOf(a))
          ELSE Flush(a, Tail(request[a].stack), Row(j, "pending", 1))
       /\ UNCHANGED <<runs, jobs, deps, hadSuccess, scheduled, stream, stale, outbox, task, budget>>

(* The commit; the queued rows are runs_to_publish. *)
CommitTrigger(a) ==
    /\ request[a].pc = "commit"
    /\ Len(runs) + Len(RowsOf(a)) <= MaxRuns
    /\ runs' = runs \o RowsOf(a)
    /\ outbox' = outbox \union {r \in Len(runs)+1..Len(runs') : runs'[r].status = "queued"}
    /\ request' = [request EXCEPT ![a] = NoRequest]
    /\ UNCHANGED <<jobs, deps, hadSuccess, scheduled, stream, stale, task, budget>>

-----------------------------------------------------------------------------
(* The other requests, and the messages.                                   *)

(* Known jobs, and not the job itself; longer cycles are not looked for. *)
validate_dependencies(j, D) == D \subseteq jobs \ {j}

(* The rows of the job are deleted and written anew. *)
set_dependencies(j, D) == deps' = [deps EXCEPT ![j] = D]

(* PUT /jobs/{id} with depends_on. *)
update_job(j, D) ==
    /\ Spend("update")
    /\ j \in jobs
    /\ validate_dependencies(j, D)
    /\ set_dependencies(j, D)
    /\ UNCHANGED <<runs, jobs, hadSuccess, scheduled, stream, stale, outbox, request, task>>

(* DELETE /jobs/{id}: its runs, its dependencies and those on it go too.   *)
(* It waits for a transaction that has inserted a run of the job.          *)
delete_job(j) ==
    /\ Spend("delete")
    /\ j \in jobs
    /\ \A a \in Request : \A i \in DOMAIN RowsOf(a) : RowsOf(a)[i].job # j
    /\ jobs' = jobs \ {j}
    /\ deps' = [k \in Jobs |-> IF k = j THEN {} ELSE deps[k] \ {j}]
    /\ hadSuccess' = hadSuccess \ {j}
    /\ UNCHANGED <<runs, scheduled, stream, stale, outbox, request, task>>

(* POST /runs/{id}/retry does not look at dependencies. *)
retry_run(r) ==
    /\ Spend("retry")
    /\ Exists(r) /\ Status(r) \in TERMINAL
    /\ Len(runs) < MaxRuns
    /\ runs' = Append(runs, Row(runs[r].job, "queued", runs[r].attempt + 1))
    /\ outbox' = outbox \union {Len(runs')}
    /\ UNCHANGED <<jobs, deps, hadSuccess, scheduled, stream, stale, request, task>>

(* POST /runs/{id}/cancel; the message to the workers is Interrupt. *)
cancel(r) ==
    /\ Spend("cancel")
    /\ Exists(r) /\ Status(r) \in ACTIVE
    /\ cancel_run(r)
    /\ UNCHANGED <<jobs, deps, hadSuccess, scheduled, stream, stale, outbox, request, task>>

(* The scheduler's tick for a due job, whose dependencies nobody looks at. *)
(* Which ticks are due is in Scheduler and SchedulerClock; here any        *)
(* enabled job may have a schedule.                                        *)
schedule_due_jobs(j) ==
    /\ Spend("schedule")
    /\ j \in Enabled \intersect jobs
    /\ Len(runs) < MaxRuns
    /\ runs' = Append(runs, Row(j, "queued", 1))
    /\ scheduled' = scheduled \union {Len(runs')}
    /\ outbox' = outbox \union {Len(runs')}
    /\ UNCHANGED <<jobs, deps, hadSuccess, stream, stale, request, task>>

(* The scheduler's requeue_orphans; bound: not while the run has a message *)
(* under way, which is in Dispatch.                                        *)
requeue_orphans(r) ==
    /\ Exists(r) /\ Status(r) = "queued"
    /\ r \notin outbox
    /\ \A i \in DOMAIN stream : stream[i] # r
    /\ outbox' = outbox \union {r}
    /\ UNCHANGED <<runs, jobs, deps, hadSuccess, scheduled, stream, stale, request, task, budget>>

enqueue_run(r) ==
    /\ r \in outbox
    /\ outbox' = outbox \ {r}
    /\ stream' = Append(stream, r)
    /\ UNCHANGED <<runs, jobs, deps, hadSuccess, scheduled, stale, request, task, budget>>

-----------------------------------------------------------------------------
(* The worker.                                                             *)

(* claim_run; a run that cannot be claimed, or that is gone, is skipped    *)
(* and its message acked.                                                  *)
Start(t, r, allow_running) ==
    /\ task[t] = Idle
    /\ IF Exists(r) THEN claim_run(r, allow_running) ELSE UNCHANGED runs
    /\ task' = IF Exists(r) /\ Status(r) \in Claimable(allow_running)
               THEN [task EXCEPT ![t] = [Idle EXCEPT !.pc = "exec", !.run = r]]
               ELSE task

Deliver(t) ==
    /\ stream # <<>>
    /\ Start(t, Head(stream), FALSE)
    /\ stream' = Tail(stream)
    /\ UNCHANGED <<jobs, deps, hadSuccess, scheduled, stale, outbox, request, budget>>

Redeliver(t, r) ==
    /\ r \in stale
    /\ Start(t, r, TRUE)
    /\ stale' = stale \ {r}
    /\ UNCHANGED <<jobs, deps, hadSuccess, scheduled, stream, outbox, request, budget>>

(* The executor returns, and is_run_canceled is asked.  If the run is gone *)
(* and there are log lines, their INSERT raises.                           *)
Execute(t, s) ==
    LET r == task[t].run
    IN /\ task[t].pc = "exec"
       /\ \/ /\ ~(Exists(r) /\ is_run_canceled(r))
             /\ task' = [task EXCEPT ![t].pc = "finish", ![t].result = s]
          \/ /\ Exists(r) => is_run_canceled(r)
             /\ task' = [task EXCEPT ![t] = Idle]
       /\ UNCHANGED <<runs, jobs, deps, hadSuccess, scheduled, stream, stale, outbox, request, budget>>

FinishRun(t) ==
    /\ task[t].pc = "finish"
    /\ IF Exists(task[t].run) THEN finish_run(task[t].run, task[t].result) ELSE UNCHANGED runs
    /\ task' = [task EXCEPT ![t] = IF task[t].result = "succeeded"
                                   THEN [@ EXCEPT !.pc = "ready", !.result = "none"] ELSE Idle]
    /\ UNCHANGED <<jobs, deps, scheduled, stream, stale, outbox, request, budget>>
    /\ hadSuccess' = hadSuccess \union Succeeded'

(* Mutant of has_dispatched_run: a pending run counts. *)
has_dispatched_run_pending(j) == RunsOf(j, ACTIVE) # {}

has_dispatched_run(j) == RunsOf(j, {"queued", "running"}) # {}

(* Mutant of all_dependencies_succeeded: one is enough. *)
all_dependencies_succeeded_any(j) == deps[j] \intersect Succeeded # {}

all_dependencies_succeeded(j) == deps[j] \subseteq Succeeded

(* dependents_ready: what the loop of _on_success will go through. *)
Ready(j) ==
    {d \in Jobs : /\ j \in deps[d]
                  /\ d \in Enabled \/ RunsOf(d, {"pending"}) # {}
                  /\ ~has_dispatched_run(d)
                  /\ all_dependencies_succeeded(d)}

dependents_ready(t) ==
    /\ task[t].pc = "ready"
    /\ task' = [task EXCEPT ![t].pc = "loop", ![t].todo = Ready(runs[task[t].run].job)]
    /\ UNCHANGED <<runs, jobs, deps, hadSuccess, scheduled, stream, stale, outbox, request, budget>>

(* create_dependency_run, first SELECT: is there a dispatched run? *)
CheckDispatched(t, d) ==
    /\ task[t].pc = "loop"
    /\ d \in task[t].todo
    /\ task' = [task EXCEPT ![t].todo = @ \ {d},
                            ![t].pc = IF has_dispatched_run(d) THEN "loop" ELSE "pending",
                            ![t].dep = IF has_dispatched_run(d) THEN NoJob ELSE d]
    /\ UNCHANGED <<runs, jobs, deps, hadSuccess, scheduled, stream, stale, outbox, request, budget>>

(* The oldest pending run of a job; 0 if there is none. *)
pending_run(j) ==
    LET P == RunsOf(j, {"pending"})
    IN IF P = {} THEN 0 ELSE CHOOSE r \in P : \A q \in P : r <= q

(* Second SELECT: the pending run. *)
SelectPending(t) ==
    /\ task[t].pc = "pending"
    /\ task' = [task EXCEPT ![t].pc = "write", ![t].id = pending_run(task[t].dep)]
    /\ UNCHANGED <<runs, jobs, deps, hadSuccess, scheduled, stream, stale, outbox, request, budget>>

(* UPDATE of the row that was selected, by its id alone, or INSERT. *)
create_dependency_run(t) ==
    LET r == task[t].id
    IN /\ task[t].pc = "write"
       /\ task[t].dep \in jobs
       /\ \/ r # 0 /\ runs' = [runs EXCEPT ![r].status = "queued"]
          \/ r = 0 /\ create_run(task[t].dep, 1, 0)
       /\ task' = [task EXCEPT ![t].pc = "send", ![t].dep = NoJob,
                               ![t].id = IF r # 0 THEN r ELSE Len(runs')]
       /\ UNCHANGED <<jobs, deps, hadSuccess, scheduled, stream, stale, outbox, request, budget>>

(* The dependent was deleted, so that UPDATE and INSERT raise: handle logs *)
(* that, and the other dependents in the loop get nothing.                 *)
FanOutFails(t) ==
    /\ task[t].pc = "write"
    /\ task[t].dep \notin jobs
    /\ task' = [task EXCEPT ![t] = Idle]
    /\ UNCHANGED <<runs, jobs, deps, hadSuccess, scheduled, stream, stale, outbox, request, budget>>

EnqueueDependent(t) ==
    /\ task[t].pc = "send"
    /\ stream' = Append(stream, task[t].id)
    /\ task' = [task EXCEPT ![t].pc = "loop", ![t].id = 0]
    /\ UNCHANGED <<runs, jobs, deps, hadSuccess, scheduled, stale, outbox, request, budget>>

(* The end of process_run; the message is acked. *)
FanOutDone(t) ==
    /\ task[t].pc = "loop" /\ task[t].todo = {}
    /\ task' = [task EXCEPT ![t] = Idle]
    /\ UNCHANGED <<runs, jobs, deps, hadSuccess, scheduled, stream, stale, outbox, request, budget>>

(* The cancel listener interrupts the task of a canceled run; its message  *)
(* is acked.  The signal may also get lost or come too late.               *)
Interrupt(t) ==
    /\ task[t] # Idle
    /\ is_run_canceled(task[t].run)
    /\ task' = [task EXCEPT ![t] = Idle]
    /\ UNCHANGED <<runs, jobs, deps, hadSuccess, scheduled, stream, stale, outbox, request, budget>>

(* The worker of this task dies (each task here has a worker of its own);  *)
(* its message stays pending.                                              *)
Crash(t) ==
    /\ Spend("crash")
    /\ task[t] # Idle
    /\ stale' = stale \union {task[t].run}
    /\ task' = [task EXCEPT ![t] = Idle]
    /\ UNCHANGED <<runs, jobs, deps, hadSuccess, scheduled, stream, outbox, request>>

-----------------------------------------------------------------------------
RequestStep(a) ==
    \/ \E d \in Jobs : VisitDependency(a, d)
    \/ LeaveJob(a)
    \/ CommitTrigger(a)

TaskStep(t) ==
    \/ Deliver(t)
    \/ \E r \in RunId : Redeliver(t, r)
    \/ \E s \in Outcomes : Execute(t, s)
    \/ FinishRun(t)
    \/ dependents_ready(t)
    \/ \E d \in Jobs : CheckDispatched(t, d)
    \/ SelectPending(t)
    \/ create_dependency_run(t)
    \/ FanOutFails(t)
    \/ EnqueueDependent(t)
    \/ FanOutDone(t)

Next ==
    \/ \E a \in Request : RequestStep(a) \/ \E j \in Jobs : trigger_job(a, j)
    \/ \E j \in Jobs, D \in SUBSET Jobs : update_job(j, D)
    \/ \E j \in Jobs : delete_job(j) \/ schedule_due_jobs(j)
    \/ \E r \in DOMAIN runs : retry_run(r) \/ cancel(r) \/ requeue_orphans(r) \/ enqueue_run(r)
    \/ \E t \in Task : TaskStep(t) \/ Interrupt(t) \/ Crash(t)

Spec == Init /\ [][Next]_vars

-----------------------------------------------------------------------------
(* Properties.                                                             *)

(* _prepare_trigger_run: the calls under way are a path of the dependency  *)
(* graph without a repetition, so the recursion ends, also when update_job *)
(* closes a cycle during the walk.                                         *)
WalkIsPath ==
    \A a \in Request :
        LET stack == request[a].stack
        IN \A i, k \in DOMAIN stack : stack[i].job = stack[k].job => i = k

(* A trigger creates at most one run of a job, however many paths lead to  *)
(* the job: the walk sees the rows it has flushed itself.                  *)
OneRowPerJob ==
    \A a \in Request :
        \A i, k \in DOMAIN RowsOf(a) : RowsOf(a)[i].job = RowsOf(a)[k].job => i = k

(* So far none of these has happened. *)
NoneOf(kinds) == \A k \in kinds : budget[k] = Budget[k]

(* So far there has been one trigger request at most. *)
OneTrigger == Budget["trigger"] <= budget["trigger"] + 1

(* models.py: "job_id runs only after depends_on_job_id has succeeded".    *)
(* That is so of the runs that a trigger or a fan-out makes or promotes,   *)
(* until a user changes the graph: while such a run is queued or running,  *)
(* each dependency of its job has had a success, whatever the scheduler,   *)
(* retries, cancels, deletions and crashes do meanwhile.  It is not so of  *)
(* the runs that the scheduler or retry_run makes, for neither looks at    *)
(* dependencies.  The success need not be in job_runs any more: two        *)
(* fan-outs may both select the pending run of a job, and the later UPDATE *)
(* then puts a run that has succeeded back to queued.                      *)
RunsAfterDependencies ==
    NoneOf({"update"}) =>
        \A r \in DOMAIN runs :
            /\ Exists(r) /\ Status(r) \in {"queued", "running"}
            /\ r \notin scheduled /\ runs[r].attempt = 1
            => deps[runs[r].job] \subseteq hadSuccess

(* Will task t still look for a pending run of job j?                      *)
FanningOut(t, j) ==
    \/ task[t].pc = "ready" /\ runs[task[t].run].job \in deps[j]
    \/ j \in task[t].todo
    \/ task[t].pc \in {"pending", "write"} /\ task[t].dep = j

(* store.py: a pending run is "promoted once its prerequisites finish".    *)
(* Until there is a second trigger, a scheduled run, a worker crash, a     *)
(* change of the graph or a deletion, there is always a task that will     *)
(* promote a pending run whose dependencies have succeeded, also when the  *)
(* last two finish at the same moment, and when runs are retried or        *)
(* canceled.                                                               *)
NoLostWakeup ==
    (OneTrigger /\ NoneOf({"schedule", "crash", "update", "delete"})) =>
        \A r \in DOMAIN runs :
            (Status(r) = "pending" /\ deps[runs[r].job] \subseteq Succeeded) =>
                \E t \in Task : FanningOut(t, runs[r].job)

(* README: "upstream work is queued first; the downstream job runs only    *)
(* after dependencies have succeeded".  Until a user triggers a second     *)
(* time, retries a run or changes the graph, or the scheduler makes a run, *)
(* a pending run is dispatched only when no dependency of its job still    *)
(* has work queued or running.                                             *)
(* This is about dependencies that have none themselves: two fan-outs may  *)
(* start another run of any other job when its first one has ended.        *)
UpstreamFirst ==
    [][(OneTrigger /\ NoneOf({"schedule", "retry", "update"})) =>
        \A r \in DOMAIN runs :
            (Status(r) = "pending" /\ runs'[r].status = "queued") =>
                \A d \in deps[runs[r].job] : depends_on[d] = {} => RunsOf(d, ACTIVE) = {}]_vars

(* create_dependency_run makes or promotes a run "unless one is already    *)
(* dispatched": the fan-outs of two workers never leave a job that has     *)
(* dependencies with two dispatched runs.                                  *)
OneDispatchedRun ==
    \A j \in Jobs : deps[j] # {} => Cardinality(RunsOf(j, {"queued", "running"})) <= 1
=============================================================================
