--------------------------- MODULE DispatchProofs ---------------------------
(***************************************************************************)
(* The dispatch path, for all sets of jobs, workers, tasks and messages.   *)
(*                                                                         *)
(* 1. The inductive invariant IInv, and the safety properties that hold    *)
(* through all crashes, stalls and failing calls. First there is one lemma *)
(* per kind of step: how a step may change the rows, a task, the           *)
(* registrations and the stream. Then there is one lemma per action, which *)
(* finds the kind of step that it is, and InvNext puts them together.      *)
(* 2. The refinement of RunLifecycle.                                      *)
(* 3. What becomes of the runs if messages are reclaimed in time.          *)
(***************************************************************************)
EXTENDS Dispatch, DispatchLifecycle, TLAPS

USE ZenonT(60)

(* An UPDATE of one element of a sequence. *)
LEMMA ExceptRow ==
  ASSUME NEW S, NEW s \in Seq(S), NEW i \in 1..Len(s), NEW e \in S
  PROVE  /\ [s EXCEPT ![i] = e] \in Seq(S)
         /\ Len([s EXCEPT ![i] = e]) = Len(s)
         /\ \A j \in 1..Len(s) : [s EXCEPT ![i] = e][j] = IF j = i THEN e ELSE s[j]
<1> DEFINE f == [s EXCEPT ![i] = e]
<1>1. Len(s) \in Nat /\ s \in [1..Len(s) -> S]
  BY SMTT(60)
<1>2. f \in [1..Len(s) -> S]
  BY <1>1
<1>3. f \in Seq(S) /\ Len(f) = Len(s)
  BY <1>1, <1>2, SMTT(60)
<1> QED BY <1>1, <1>3

(* A transaction that updates one status leaves every other column and row *)
(* of job_runs as it was.                                                  *)
LEMMA UpdateLemma ==
    ASSUME runs \in Seq(JobRun), NEW r \in DOMAIN runs, NEW from, NEW s \in RunStatus,
           UpdateStatusFrom(r, from, s)
    PROVE  /\ runs' \in Seq(JobRun)
           /\ Len(runs') = Len(runs)
           /\ DOMAIN runs' = DOMAIN runs
           /\ \A q \in DOMAIN runs : q # r => runs'[q] = runs[q]
           /\ runs'[r] = [runs[r] EXCEPT !.status = IF Status(r) \in from THEN s ELSE @]
           /\ runs'[r].status = IF Status(r) \in from THEN s ELSE Status(r)
           /\ runs'[r].job = runs[r].job
           /\ runs'[r].attempt = runs[r].attempt
           /\ runs'[r].retry_of = runs[r].retry_of
<1>0. runs[r] \in JobRun
  BY SMTT(60)
<1>1. [runs[r] EXCEPT !.status = s] \in JobRun
  BY <1>0 DEF JobRun
<1>2. CASE Status(r) \in from
  <2>1. runs' = [runs EXCEPT ![r] = [runs[r] EXCEPT !.status = s]]
    BY <1>2 DEF UpdateStatusFrom
  <2>2. /\ runs' \in Seq(JobRun)
        /\ Len(runs') = Len(runs)
    BY <2>1, <1>1, ExceptRow, SMTT(60)
  <2> QED
    BY <2>1, <2>2, <1>0, <1>1, <1>2 DEF Status, JobRun
<1>3. CASE Status(r) \notin from
  BY <1>3, <1>0 DEF UpdateStatusFrom, Status, JobRun
<1> QED
  BY <1>2, <1>3

(* An INSERT adds one row after the others. *)
LEMMA CreateLemma ==
    ASSUME runs \in Seq(JobRun), NEW j \in Jobs, NEW n \in Nat \ {0},
           NEW parent \in RunId \union {0}, create_run(j, n, parent)
    PROVE  /\ runs' \in Seq(JobRun)
           /\ Len(runs) < MaxRuns
           /\ Len(runs') = Len(runs) + 1
           /\ DOMAIN runs' = DOMAIN runs \union {Len(runs')}
           /\ Len(runs') \notin DOMAIN runs
           /\ Len(runs') \in RunId
           /\ \A q \in DOMAIN runs : runs'[q] = runs[q]
           /\ runs'[Len(runs')] = [job |-> j, status |-> "queued", attempt |-> n,
                                   retry_of |-> parent]
<1> DEFINE row == [job |-> j, status |-> "queued", attempt |-> n, retry_of |-> parent]
<1>1. row \in JobRun
  BY DEF JobRun, RunStatus, ACTIVE
<1>2. runs' = Append(runs, row) /\ Len(runs) < MaxRuns
  BY DEF create_run
<1> QED
  BY <1>1, <1>2, RunStoreAssumption, SMTT(60) DEF RunId

-----------------------------------------------------------------------------
(* The inductive invariant.                                                *)

(* Where a task works for a run. *)
HoldsRun == {"sem", "claim"} \union ExecPc

(* A task's fields refer to things that exist, as far as its pc uses them. *)
TaskRefs(t) ==
    /\ task[t].pc = "idle" => task[t] = Idle
    /\ task[t].pc # "idle" => task[t].worker \in Worker /\ task[t].msg \in Msg
    /\ task[t].pc \in HoldsRun => task[t].run \in DOMAIN runs
    /\ task[t].pc \in ExecPc \ {"exec"} => task[t].result \in Outcomes
    /\ task[t].pc = "delay" => task[t].new_id \in DOMAIN runs

(* What is in Redis, in the API and in the scheduler refers to rows. *)
QueueRefs ==
    /\ \A m \in stream : run_of[m] \in DOMAIN runs
    /\ outbox \subseteq DOMAIN runs
    /\ delayed \subseteq DOMAIN runs

(* The task registered for a run is a task of that run inside process_run. *)
Registered(w, r) ==
    inflight_by_run[w][r] # None =>
        /\ task[inflight_by_run[w][r]].worker = w
        /\ task[inflight_by_run[w][r]].run = r
        /\ task[inflight_by_run[w][r]].pc \in {"claim"} \union ExecPc

(* A message that was delivered is not delivered as new again, and the     *)
(* task that deletes it has acked it.                                      *)
HeldMessages ==
    \A t \in Task :
        /\ \A i \in 1..Len(queue) : task[t].msg # queue[i]
        /\ task[t].pc = "del" => task[t].msg \notin pel

(* A run that a task executes has left the queue. *)
ExecutedWasClaimed ==
    /\ \A r \in DOMAIN runs : Status(r) # "pending"
    /\ \A t \in Task : Executing(t) => Status(task[t].run) # "queued"

(* A cancel message is published after the run was set to canceled. *)
SignalsAreTrue ==
    \A w \in Worker, r \in RunId :
        <<w, r>> \in signals => r \in DOMAIN runs /\ Status(r) = "canceled"

(* The inductive invariant: the types and the references they need, the    *)
(* registrations of inflight_by_run, what the stream holds, and what a     *)
(* claim says about the row.                                               *)
IInv ==
    /\ TypeOK
    /\ \A t \in Task : TaskRefs(t)
    /\ QueueRefs
    /\ \A w \in Worker, r \in RunId : Registered(w, r)
    /\ StreamIntegrity
    /\ HeldMessages
    /\ ExecutedWasClaimed
    /\ SignalsAreTrue
    /\ FirstClaimOnce

-----------------------------------------------------------------------------
(* How the steps of a task change the two tables of the worker.            *)

(* Only task t changes, to rec. *)
TaskSet(t, rec) ==
    /\ task' \in [Task -> TaskRec]
    /\ task'[t] = rec
    /\ \A u \in Task : u # t => task'[u] = task[u]

(* One task is replaced by a record. *)
LEMMA TaskLemma ==
    ASSUME task \in [Task -> TaskRec], NEW t \in Task, NEW rec \in TaskRec,
           task' = [task EXCEPT ![t] = rec]
    PROVE  TaskSet(t, rec)
  BY DEF TaskSet

(* A task goes on to another call of process_run, and keeps its run. *)
TaskMoves(t) ==
    /\ task' \in [Task -> TaskRec]
    /\ \A u \in Task : u # t => task'[u] = task[u]
    /\ task'[t].pc \in ExecPc
    /\ task'[t].worker = task[t].worker
    /\ task'[t].msg = task[t].msg
    /\ task'[t].run = task[t].run
    /\ task'[t].allow_running = task[t].allow_running

(* A step to another await keeps every field but pc. *)
LEMMA GotoLemma ==
    ASSUME task \in [Task -> TaskRec], NEW t \in Task, NEW p \in Pc, Goto(t, p)
    PROVE  /\ task' \in [Task -> TaskRec]
           /\ \A u \in Task : u # t => task'[u] = task[u]
           /\ task'[t].pc = p
           /\ task'[t].worker = task[t].worker
           /\ task'[t].msg = task[t].msg
           /\ task'[t].run = task[t].run
           /\ task'[t].allow_running = task[t].allow_running
           /\ task'[t].result = task[t].result
           /\ task'[t].new_id = task[t].new_id
<1>0. task[t] \in TaskRec
  OBVIOUS
<1>1. [task[t] EXCEPT !.pc = p] \in TaskRec
  BY <1>0 DEF TaskRec
<1>2. task' = [task EXCEPT ![t] = [task[t] EXCEPT !.pc = p]]
  BY DEF Goto
<1>3. TaskSet(t, [task[t] EXCEPT !.pc = p])
  BY <1>1, <1>2, TaskLemma
<1> QED
  BY <1>0, <1>3 DEF TaskSet, TaskRec

(* The executor's result, and the id of the retry, are remembered. *)
LEMMA ResultLemma ==
    ASSUME task \in [Task -> TaskRec], NEW t \in Task, NEW p \in ExecPc, NEW s \in Outcomes,
           task' = [task EXCEPT ![t].pc = p, ![t].result = s]
    PROVE  /\ TaskMoves(t)
           /\ task'[t].pc = p
           /\ task'[t].result = s
<1>0. task[t] \in TaskRec /\ p \in Pc
  BY DEF ExecPc, Pc
<1> DEFINE rec == [task[t] EXCEPT !.pc = p, !.result = s]
<1>1. rec \in TaskRec
  BY <1>0 DEF TaskRec
<1>2. task' = [task EXCEPT ![t] = rec]
  OBVIOUS
<1>3. TaskSet(t, rec)
  BY <1>1, <1>2, TaskLemma
<1> QED
  BY <1>0, <1>3 DEF TaskSet, TaskRec, TaskMoves

(* A step that sets the id of the retry, and no other field but pc. *)
LEMMA NewIdLemma ==
    ASSUME task \in [Task -> TaskRec], NEW t \in Task, NEW p \in ExecPc, NEW n \in RunId \union {0},
           task' = [task EXCEPT ![t].pc = p, ![t].new_id = n]
    PROVE  /\ TaskMoves(t)
           /\ task'[t].pc = p
           /\ task'[t].result = task[t].result
           /\ task'[t].new_id = n
<1>0. task[t] \in TaskRec /\ p \in Pc
  BY DEF ExecPc, Pc
<1> DEFINE rec == [task[t] EXCEPT !.pc = p, !.new_id = n]
<1>1. rec \in TaskRec
  BY <1>0 DEF TaskRec
<1>2. task' = [task EXCEPT ![t] = rec]
  OBVIOUS
<1>3. TaskSet(t, rec)
  BY <1>1, <1>2, TaskLemma
<1> QED
  BY <1>0, <1>3 DEF TaskSet, TaskRec, TaskMoves

(* One entry of inflight_by_run is written. *)
LEMMA RegisterLemma ==
    ASSUME inflight_by_run \in [Worker -> [RunId -> Task \union {None}]],
           NEW w \in Worker, NEW r \in RunId, NEW x \in Task \union {None},
           inflight_by_run' = [inflight_by_run EXCEPT ![w][r] = x]
    PROVE  /\ inflight_by_run' \in [Worker -> [RunId -> Task \union {None}]]
           /\ inflight_by_run'[w][r] = x
           /\ \A v \in Worker, q \in RunId :
                <<v, q>> # <<w, r>> => inflight_by_run'[v][q] = inflight_by_run[v][q]
  OBVIOUS

(* The finally block drops everything but the message, and the task's own  *)
(* registration.                                                           *)
LEMMA FinallyLemma ==
    ASSUME TypeOK, NEW t \in Task, task[t].worker \in Worker, task[t].msg \in Msg,
           task[t].run \in RunId, Finally(t)
    PROVE  /\ task' \in [Task -> TaskRec]
           /\ \A u \in Task : u # t => task'[u] = task[u]
           /\ task'[t].pc = "ack"
           /\ task'[t].worker = task[t].worker
           /\ task'[t].msg = task[t].msg
           /\ inflight_by_run' \in [Worker -> [RunId -> Task \union {None}]]
           /\ \A v \in Worker, q \in RunId :
                \/ inflight_by_run'[v][q] = None
                \/ /\ inflight_by_run'[v][q] = inflight_by_run[v][q]
                   /\ inflight_by_run[v][q] = t => <<v, q>> # <<task[t].worker, task[t].run>>
<1> DEFINE w == task[t].worker
           r == task[t].run
           rec == [Idle EXCEPT !.pc = "ack", !.worker = w, !.msg = task[t].msg]
           x == IF inflight_by_run[w][r] = t THEN None ELSE inflight_by_run[w][r]
<1>1. rec \in TaskRec /\ rec.pc = "ack" /\ rec.worker = w /\ rec.msg = task[t].msg
  BY DEF TaskRec, Idle, Pc
<1>2. TaskSet(t, rec)
  BY <1>1, TaskLemma DEF Finally, TypeOK
<1>3. x \in Task \union {None}
  BY SMTT(60) DEF TypeOK
<1>4. inflight_by_run' = [inflight_by_run EXCEPT ![w][r] = x]
  BY DEF Finally
<1>5. /\ inflight_by_run' \in [Worker -> [RunId -> Task \union {None}]]
      /\ inflight_by_run'[w][r] = x
      /\ \A v \in Worker, q \in RunId :
            <<v, q>> # <<w, r>> => inflight_by_run'[v][q] = inflight_by_run[v][q]
  <2>1. inflight_by_run \in [Worker -> [RunId -> Task \union {None}]]
    BY DEF TypeOK
  <2>2. w \in Worker /\ r \in RunId
    OBVIOUS
  <2> HIDE DEF w, r, x, rec
  <2> QED
    BY <1>3, <1>4, <2>1, <2>2, RegisterLemma, SMTT(60)
<1> HIDE DEF rec
<1> QED
  BY <1>1, <1>2, <1>5 DEF TaskSet

(* Every row has an id within the bound of the table. *)
LEMMA RowsLemma ==
    ASSUME RunStoreTypeOK
    PROVE  DOMAIN runs \subseteq RunId /\ DOMAIN runs = 1..Len(runs)
  BY RunStoreAssumption, SMTT(60) DEF RunStoreTypeOK, RunId

(* A row has the type of rows. *)
LEMMA RowType ==
    ASSUME RunStoreTypeOK, NEW r \in DOMAIN runs
    PROVE  runs[r] \in JobRun
  BY SMTT(60) DEF RunStoreTypeOK

(* What the invariant says of a live task. *)
LEMMA LiveTask ==
    ASSUME IInv, NEW t \in Task, task[t].pc # "idle"
    PROVE  /\ task[t].worker \in Worker
           /\ task[t].msg \in Msg
           /\ task[t].pc \in HoldsRun => task[t].run \in DOMAIN runs /\ task[t].run \in RunId
  BY RowsLemma DEF IInv, TypeOK, TaskRefs

-----------------------------------------------------------------------------
(* What a transaction on job_runs may do: rows are only added, and no row  *)
(* returns to the queue or stops being canceled.                           *)
RowsStep ==
    /\ RunStoreTypeOK'
    /\ DOMAIN runs \subseteq DOMAIN runs'
    /\ \A q \in DOMAIN runs' : runs'[q].status # "pending"
    /\ \A q \in DOMAIN runs :
        /\ runs'[q].status = "queued" => runs[q].status = "queued"
        /\ runs[q].status = "canceled" => runs'[q].status = "canceled"

(* Run ids stay within the bound. *)
LEMMA RowsBound ==
    ASSUME RowsStep
    PROVE  DOMAIN runs' \subseteq RunId
  BY RunStoreAssumption, SMTT(60) DEF RowsStep, RunStoreTypeOK, RunId

(* No transaction. *)
LEMMA RowsSame ==
    ASSUME IInv, UNCHANGED runs
    PROVE  RowsStep
  BY DEF IInv, TypeOK, RunStoreTypeOK, RowsStep, ExecutedWasClaimed, Status

(* create_run inserts a row. *)
LEMMA RowsCreate ==
    ASSUME IInv, NEW j \in Jobs, NEW n \in Nat \ {0}, NEW parent \in RunId \union {0},
           create_run(j, n, parent)
    PROVE  RowsStep /\ Len(runs') \in DOMAIN runs'
<1>0. runs \in Seq(JobRun)
  BY DEF IInv, TypeOK, RunStoreTypeOK
<1>1. /\ runs' \in Seq(JobRun)
      /\ Len(runs) < MaxRuns
      /\ Len(runs') = Len(runs) + 1
      /\ DOMAIN runs' = DOMAIN runs \union {Len(runs')}
      /\ Len(runs') \notin DOMAIN runs
      /\ \A q \in DOMAIN runs : runs'[q] = runs[q]
      /\ runs'[Len(runs')] = [job |-> j, status |-> "queued", attempt |-> n,
                              retry_of |-> parent]
  BY <1>0, CreateLemma
<1>2. RunStoreTypeOK'
  BY <1>0, <1>1, RunStoreAssumption, SMTT(60) DEF RunStoreTypeOK
<1> QED
  BY <1>1, <1>2, SMTT(60) DEF IInv, ExecutedWasClaimed, RowsStep, Status

(* A conditional UPDATE of one row that leaves canceled rows alone. *)
LEMMA RowsUpdate ==
    ASSUME IInv, NEW r \in DOMAIN runs, NEW from, NEW s \in RunStatus \ {"pending", "queued"},
           "canceled" \notin from, UpdateStatusFrom(r, from, s)
    PROVE  /\ RowsStep
           /\ DOMAIN runs' = DOMAIN runs
           /\ runs'[r].status = IF Status(r) \in from THEN s ELSE Status(r)
<1>1. /\ RunStoreTypeOK'
      /\ DOMAIN runs' = DOMAIN runs
      /\ \A q \in DOMAIN runs : q # r => runs'[q] = runs[q]
      /\ runs'[r].status = IF Status(r) \in from THEN s ELSE Status(r)
  BY UpdateLemma DEF IInv, TypeOK, RunStoreTypeOK
<1> QED
  BY <1>1 DEF IInv, ExecutedWasClaimed, RowsStep, Status

-----------------------------------------------------------------------------
(* The initial states, and the steps of the API, of the scheduler and of   *)
(* the worker loops keep the invariant.                                    *)

(* The invariant holds at the start: there is nothing to refer to. *)
LEMMA InvInit == Init => IInv
<1> SUFFICES ASSUME Init PROVE IInv
  OBVIOUS
<1>0. \A t \in Task : task[t] = Idle /\ task[t].pc = "idle" /\ task[t].msg = NoMsg
  BY DEF Init, Idle
<1>1. Idle \in TaskRec
  BY DEF Idle, TaskRec, Pc
<1>2. runs \in Seq(JobRun) /\ Len(runs) = 0 /\ queue \in Seq(Msg) /\ Len(queue) = 0
  BY SMTT(60) DEF Init, RedisInit
<1>3. TypeOK
  BY <1>1, <1>2, RunStoreAssumption, DispatchAssumption, SMTT(60)
  DEF Init, RedisInit, TypeOK, RunStoreTypeOK, RedisTypeOK
<1>4. (\A t \in Task : TaskRefs(t)) /\ QueueRefs
  BY <1>0 DEF Init, RedisInit, TaskRefs, QueueRefs, HoldsRun, ExecPc
<1>5. \A w \in Worker, r \in RunId : Registered(w, r)
  BY DEF Init, Registered
<1>6. StreamIntegrity /\ HeldMessages
  BY <1>0, <1>2, SMTT(60) DEF Init, RedisInit, StreamIntegrity, HeldMessages
<1>7. ExecutedWasClaimed /\ SignalsAreTrue /\ FirstClaimOnce
  BY <1>0, <1>2, SMTT(60) DEF Init, ExecutedWasClaimed, SignalsAreTrue, FirstClaimOnce, Executing, ExecPc
<1> QED
  BY <1>3, <1>4, <1>5, <1>6, <1>7 DEF IInv

(* The API and the scheduler: transactions, and what they remember to      *)
(* enqueue or to signal.                                                   *)
LEMMA ClientStep ==
    ASSUME IInv, RowsStep,
           UNCHANGED <<stream, queue, pel, run_of, delayed, task, inflight_by_run, faults>>,
           outbox' \in SUBSET DOMAIN runs',
           signals' \in SUBSET (Worker \X RunId),
           \A w \in Worker, r \in RunId : <<w, r>> \in signals' =>
                r \in DOMAIN runs' /\ runs'[r].status = "canceled",
           crashes' \in 0..MaxCrashes
    PROVE  IInv'
<1>0. DOMAIN runs' \subseteq RunId
  BY RowsBound
<1>1. TypeOK'
  BY <1>0 DEF IInv, TypeOK, RedisTypeOK, RowsStep
<1>2. \A u \in Task : TaskRefs(u)'
  BY DEF IInv, TaskRefs, RowsStep
<1>3. QueueRefs'
  BY DEF IInv, QueueRefs, RowsStep
<1>4. \A v \in Worker, q \in RunId : Registered(v, q)'
  BY SMTT(60) DEF IInv, Registered
<1>5. StreamIntegrity' /\ HeldMessages' /\ FirstClaimOnce'
  BY DEF IInv, StreamIntegrity, HeldMessages, FirstClaimOnce, Executing
<1>6. ExecutedWasClaimed'
  BY DEF IInv, ExecutedWasClaimed, RowsStep, Status, TaskRefs, HoldsRun, Executing
<1>7. SignalsAreTrue'
  BY DEF SignalsAreTrue, Status
<1> QED
  BY <1>1, <1>2, <1>3, <1>4, <1>5, <1>6, <1>7 DEF IInv

(* An entry with a new id is added to the stream. *)
LEMMA XaddStep ==
    ASSUME IInv, NEW r \in DOMAIN runs, NEW m \in FreshMsg, xadd(m, r),
           outbox' \subseteq outbox, delayed' \subseteq delayed,
           UNCHANGED <<runs, pel, task, inflight_by_run, signals, crashes, faults>>
    PROVE  IInv'
<1>a. /\ m \in Msg /\ m \notin stream /\ r \in RunId
      /\ \A t \in Task : task[t].msg # m
  BY RowsLemma DEF IInv, TypeOK, FreshMsg
<1>b. /\ queue \in Seq(Msg)
      /\ queue' \in Seq(Msg)
      /\ Len(queue') = Len(queue) + 1
      /\ queue'[Len(queue) + 1] = m
      /\ \A i \in 1..Len(queue) : queue'[i] = queue[i]
  BY <1>a, SMTT(60) DEF IInv, TypeOK, RedisTypeOK, xadd
<1>c. \A i \in 1..Len(queue') : i = Len(queue) + 1 \/ i \in 1..Len(queue)
  BY <1>b, SMTT(60)
<1>1. TypeOK'
  BY <1>a, <1>b DEF IInv, TypeOK, RunStoreTypeOK, RedisTypeOK, xadd
<1>2. \A u \in Task : TaskRefs(u)'
  BY DEF IInv, TaskRefs
<1>3. QueueRefs'
  BY <1>a, SMTT(60) DEF IInv, TypeOK, RedisTypeOK, QueueRefs, xadd
<1>4. \A v \in Worker, q \in RunId : Registered(v, q)'
  BY SMTT(60) DEF IInv, Registered
<1>5. StreamIntegrity'
  <2>1. pel' \subseteq stream'
    BY DEF IInv, StreamIntegrity, xadd
  <2>2. \A i \in 1..Len(queue') : queue'[i] \in stream' \ pel'
    BY <1>a, <1>b, <1>c DEF IInv, StreamIntegrity, xadd
  <2>3. \A i, k \in 1..Len(queue') : queue'[i] = queue'[k] => i = k
    BY <1>a, <1>b, <1>c DEF IInv, StreamIntegrity
  <2> QED
    BY <2>1, <2>2, <2>3 DEF StreamIntegrity
<1>6. HeldMessages'
  BY <1>a, <1>b, <1>c DEF IInv, HeldMessages
<1>7. FirstClaimOnce' /\ ExecutedWasClaimed' /\ SignalsAreTrue'
  BY DEF IInv, FirstClaimOnce, ExecutedWasClaimed, SignalsAreTrue, Executing, Status
<1> QED
  BY <1>1, <1>2, <1>3, <1>4, <1>5, <1>6, <1>7 DEF IInv

(* A worker gets a message, new or reclaimed, and spawns a task for it. *)
LEMMA SpawnStep ==
    ASSUME IInv, NEW t \in Task, NEW w \in Worker, NEW m \in stream, NEW allow \in BOOLEAN,
           spawn(t, w, m, allow),
           \A i \in 1..Len(queue') : queue'[i] # m,
           queue' \in Seq(Msg),
           \A i \in 1..Len(queue') : \E k \in 1..Len(queue) : queue'[i] = queue[k],
           \A i, k \in 1..Len(queue') : queue'[i] = queue'[k] => i = k,
           pel' = pel \union {m},
           \A u \in Task : task[u].pc = "del" => task[u].msg # m,
           UNCHANGED <<runs, stream, run_of, delayed, inflight_by_run, outbox, signals,
                       crashes, faults>>
    PROVE  IInv'
<1> DEFINE rec == [Idle EXCEPT !.pc = "sem", !.worker = w, !.msg = m, !.run = run_of[m],
                               !.allow_running = allow]
<1>a. m \in Msg /\ run_of[m] \in DOMAIN runs /\ run_of[m] \in RunId
  BY RowsLemma DEF IInv, TypeOK, RedisTypeOK, QueueRefs
<1>b. /\ rec \in TaskRec
      /\ rec.pc = "sem" /\ rec.worker = w /\ rec.msg = m /\ rec.run = run_of[m]
  BY <1>a DEF TaskRec, Idle, Pc
<1>c. /\ task[t] = Idle
      /\ TaskSet(t, rec)
  BY <1>b, TaskLemma DEF spawn, IInv, TypeOK
<1>d. task[t].pc = "idle"
  BY <1>c, SMTT(60) DEF Idle
<1> HIDE DEF rec
<1>1. TypeOK'
  BY <1>a, <1>c DEF IInv, TypeOK, RunStoreTypeOK, RedisTypeOK, TaskSet
<1>2. \A u \in Task : TaskRefs(u)'
  BY <1>a, <1>b, <1>c, SMTT(60) DEF IInv, TaskRefs, HoldsRun, ExecPc, TaskSet
<1>3. QueueRefs'
  BY DEF IInv, QueueRefs
<1>4. \A v \in Worker, q \in RunId : Registered(v, q)'
  BY <1>c, <1>d, SMTT(60) DEF IInv, TypeOK, Registered, TaskSet, ExecPc
<1>5. StreamIntegrity'
  BY DEF IInv, StreamIntegrity
<1>6. HeldMessages'
  BY <1>b, <1>c, SMTT(60) DEF IInv, HeldMessages, TaskSet
<1>7. FirstClaimOnce' /\ ExecutedWasClaimed' /\ SignalsAreTrue'
  BY <1>b, <1>c, SMTT(60) DEF IInv, FirstClaimOnce, ExecutedWasClaimed, SignalsAreTrue, Executing,
                    ExecPc, TaskSet, Status
<1> QED
  BY <1>1, <1>2, <1>3, <1>4, <1>5, <1>6, <1>7 DEF IInv

(* A task leaves process_run. *)
LEMMA FinallyStep ==
    ASSUME IInv, RowsStep, NEW t \in Task, task[t].pc \in {"claim"} \union ExecPc, Finally(t),
           UNCHANGED <<stream, queue, pel, run_of, delayed, outbox, crashes>>,
           signals' \subseteq signals, faults' \in 0..MaxFaults
    PROVE  IInv'
<1> DEFINE w == task[t].worker
           r == task[t].run
<1>a. w \in Worker /\ r \in DOMAIN runs /\ r \in RunId /\ task[t].msg \in Msg
  BY LiveTask DEF HoldsRun, ExecPc
<1>b. /\ task' \in [Task -> TaskRec]
      /\ \A u \in Task : u # t => task'[u] = task[u]
      /\ task'[t].pc = "ack"
      /\ task'[t].worker = w
      /\ task'[t].msg = task[t].msg
      /\ inflight_by_run' \in [Worker -> [RunId -> Task \union {None}]]
      /\ \A v \in Worker, q \in RunId :
            \/ inflight_by_run'[v][q] = None
            \/ /\ inflight_by_run'[v][q] = inflight_by_run[v][q]
               /\ inflight_by_run[v][q] = t => <<v, q>> # <<w, r>>
  BY <1>a, FinallyLemma DEF IInv
<1>c. \A v \in Worker, q \in RunId : inflight_by_run[v][q] = t => v = w /\ q = r
  BY DispatchAssumption, SMTT(60) DEF IInv, Registered
<1> HIDE DEF w, r
<1>0. DOMAIN runs' \subseteq RunId
  BY RowsBound
<1>1. TypeOK'
  BY <1>0, <1>b DEF IInv, TypeOK, RedisTypeOK, RowsStep
<1>2. \A u \in Task : TaskRefs(u)'
  BY <1>a, <1>b, SMTT(60) DEF IInv, TaskRefs, HoldsRun, ExecPc, RowsStep
<1>3. QueueRefs'
  BY DEF IInv, QueueRefs, RowsStep
<1>4. \A v \in Worker, q \in RunId : Registered(v, q)'
  <2> SUFFICES ASSUME NEW v \in Worker, NEW q \in RunId, inflight_by_run'[v][q] # None
               PROVE  /\ task'[inflight_by_run'[v][q]].worker = v
                      /\ task'[inflight_by_run'[v][q]].run = q
                      /\ task'[inflight_by_run'[v][q]].pc \in {"claim"} \union ExecPc
    BY DEF Registered
  <2>1. inflight_by_run'[v][q] = inflight_by_run[v][q] /\ inflight_by_run[v][q] # t
    BY <1>b, <1>c
  <2>2. inflight_by_run[v][q] \in Task
    BY <2>1, SMTT(60) DEF IInv, TypeOK
  <2>3. task'[inflight_by_run[v][q]] = task[inflight_by_run[v][q]]
    BY <2>1, <2>2, <1>b
  <2> QED
    BY <2>1, <2>3, SMTT(60) DEF IInv, Registered
<1>5. StreamIntegrity' /\ HeldMessages'
  BY <1>b, SMTT(60) DEF IInv, StreamIntegrity, HeldMessages
<1>6. FirstClaimOnce'
  BY <1>b, SMTT(60) DEF IInv, FirstClaimOnce, Executing, ExecPc
<1>7. ExecutedWasClaimed'
  BY <1>b, SMTT(60) DEF IInv, ExecutedWasClaimed, RowsStep, Status, TaskRefs, HoldsRun, Executing, ExecPc
<1>8. SignalsAreTrue'
  BY DEF IInv, SignalsAreTrue, Status, RowsStep
<1> QED
  BY <1>1, <1>2, <1>3, <1>4, <1>5, <1>6, <1>7, <1>8 DEF IInv

(* A task gets the semaphore and is registered. *)
LEMMA EnterStep ==
    ASSUME IInv, NEW t \in Task, Enter(t)
    PROVE  IInv'
<1> DEFINE w == task[t].worker
           r == task[t].run
<1>0. /\ task[t].pc = "sem"
      /\ Goto(t, "claim")
      /\ inflight_by_run' = [inflight_by_run EXCEPT ![w][r] = t]
      /\ UNCHANGED <<runs, stream, queue, pel, run_of, delayed, outbox, signals, crashes, faults>>
  BY DEF Enter, redisVars
<1>a. w \in Worker /\ r \in DOMAIN runs /\ r \in RunId
  BY <1>0, LiveTask DEF HoldsRun
<1>b. /\ inflight_by_run' \in [Worker -> [RunId -> Task \union {None}]]
      /\ inflight_by_run'[w][r] = t
      /\ \A v \in Worker, q \in RunId :
            <<v, q>> # <<w, r>> => inflight_by_run'[v][q] = inflight_by_run[v][q]
  BY <1>0, <1>a, RegisterLemma, SMTT(60) DEF IInv, TypeOK
<1>c. /\ task' \in [Task -> TaskRec]
      /\ \A u \in Task : u # t => task'[u] = task[u]
      /\ task'[t].pc = "claim"
      /\ task'[t].worker = w
      /\ task'[t].msg = task[t].msg
      /\ task'[t].run = r
      /\ task'[t].allow_running = task[t].allow_running
  BY <1>0, GotoLemma DEF IInv, TypeOK, Pc
<1> HIDE DEF w, r
<1>1. TypeOK'
  BY <1>0, <1>b, <1>c DEF IInv, TypeOK, RunStoreTypeOK, RedisTypeOK
<1>2. \A u \in Task : TaskRefs(u)'
  BY <1>0, <1>a, <1>c DEF IInv, TaskRefs, HoldsRun, ExecPc, w, r
<1>3. QueueRefs'
  BY <1>0 DEF IInv, QueueRefs
<1>4. \A v \in Worker, q \in RunId : Registered(v, q)'
  BY <1>0, <1>a, <1>b, <1>c, SMTT(60) DEF IInv, TypeOK, Registered, HoldsRun, ExecPc
<1>5. StreamIntegrity' /\ HeldMessages'
  BY <1>0, <1>c, SMTT(60) DEF IInv, StreamIntegrity, HeldMessages
<1>6. ExecutedWasClaimed' /\ SignalsAreTrue' /\ FirstClaimOnce'
  BY <1>0, <1>c, SMTT(60) DEF IInv, ExecutedWasClaimed, SignalsAreTrue, FirstClaimOnce, Executing, ExecPc, Status
<1> QED
  BY <1>1, <1>2, <1>3, <1>4, <1>5, <1>6 DEF IInv

(* What the step of a task to pc must establish for the invariant. *)
MoveGuards(t) ==
    /\ task'[t].pc # "exec" => task'[t].result \in Outcomes
    /\ task'[t].pc = "delay" => task'[t].new_id \in DOMAIN runs'
    /\ runs'[task[t].run].status # "queued"
    /\ (task[t].pc = "claim" /\ ~task[t].allow_running) => Status(task[t].run) = "queued"

(* What a task refers to when it goes on to another await of process_run. *)
LEMMA MoveRefs ==
    ASSUME IInv, RowsStep, NEW t \in Task, task[t].pc \in {"claim"} \union ExecPc,
           TaskMoves(t), MoveGuards(t)
    PROVE  /\ \A u \in Task : TaskRefs(u)'
           /\ ExecutedWasClaimed'
<1>a. /\ task[t].worker \in Worker /\ task[t].msg \in Msg
      /\ task[t].run \in DOMAIN runs /\ task[t].run \in RunId
  BY LiveTask DEF HoldsRun, ExecPc
<1>1. TaskRefs(t)'
  BY <1>a DEF TaskMoves, MoveGuards, TaskRefs, HoldsRun, ExecPc, RowsStep
<1>2. ASSUME NEW u \in Task, u # t PROVE TaskRefs(u)'
  BY <1>2, SMTT(60) DEF IInv, TaskMoves, TaskRefs, RowsStep
<1>3. ASSUME NEW u \in Task, Executing(u)' PROVE runs'[task'[u].run].status # "queued"
  <2>1. CASE u = t
    BY <2>1 DEF TaskMoves, MoveGuards
  <2>2. CASE u # t
    <3>1. task'[u] = task[u] /\ task[u].pc \in ExecPc
      BY <1>3, <2>2 DEF TaskMoves, Executing
    <3>2. task[u].run \in DOMAIN runs /\ Status(task[u].run) # "queued"
      BY <3>1 DEF IInv, TaskRefs, HoldsRun, ExecutedWasClaimed, Executing
    <3> QED
      BY <3>1, <3>2 DEF RowsStep, Status
  <2> QED
    BY <2>1, <2>2
<1>4. ExecutedWasClaimed'
  BY <1>3 DEF ExecutedWasClaimed, RowsStep, Status
<1> QED
  BY <1>1, <1>2, <1>4

(* A claim on a first delivery finds the run queued, so no other task      *)
(* executes it on a first delivery.                                        *)
LEMMA MoveFirstClaim ==
    ASSUME IInv, NEW t \in Task, task[t].pc \in {"claim"} \union ExecPc,
           TaskMoves(t), MoveGuards(t)
    PROVE  FirstClaimOnce'
<1> SUFFICES ASSUME NEW u \in Task, NEW v \in Task, u # v,
                    task'[u].pc \in ExecPc, task'[v].pc \in ExecPc,
                    task'[u].run = task'[v].run,
                    ~task'[u].allow_running, ~task'[v].allow_running
             PROVE  FALSE
  BY DEF FirstClaimOnce, Executing
<1>1. CASE u # t /\ v # t
  BY <1>1 DEF IInv, FirstClaimOnce, Executing, TaskMoves
<1>2. CASE u = t /\ task[t].pc = "claim"
  BY <1>2 DEF IInv, ExecutedWasClaimed, Executing, TaskMoves, MoveGuards
<1>3. CASE v = t /\ task[t].pc = "claim"
  BY <1>3 DEF IInv, ExecutedWasClaimed, Executing, TaskMoves, MoveGuards
<1>4. CASE (u = t \/ v = t) /\ task[t].pc \in ExecPc
  BY <1>4 DEF IInv, FirstClaimOnce, Executing, TaskMoves
<1> QED
  BY <1>1, <1>2, <1>3, <1>4

(* A task goes on to another await of process_run. *)
LEMMA MoveStep ==
    ASSUME IInv, RowsStep, NEW t \in Task, task[t].pc \in {"claim"} \union ExecPc,
           TaskMoves(t), MoveGuards(t),
           UNCHANGED <<stream, queue, pel, run_of, inflight_by_run, outbox, signals,
                       crashes, faults>>,
           delayed' \in SUBSET DOMAIN runs'
    PROVE  IInv'
<1>0. DOMAIN runs' \subseteq RunId
  BY RowsBound
<1>1. TypeOK'
  BY <1>0 DEF IInv, TypeOK, RedisTypeOK, RowsStep, TaskMoves
<1>2. (\A u \in Task : TaskRefs(u)') /\ ExecutedWasClaimed'
  BY MoveRefs
<1>3. QueueRefs'
  BY DEF IInv, QueueRefs, RowsStep
<1>4. \A v \in Worker, q \in RunId : Registered(v, q)'
  BY SMTT(60) DEF IInv, TypeOK, Registered, TaskMoves
<1>5. StreamIntegrity'
  BY DEF IInv, StreamIntegrity
<1>6. HeldMessages'
  <2>1. \A u \in Task : task'[u].msg = task[u].msg /\ (task'[u].pc = "del" => task[u].pc = "del")
    BY DEF TaskMoves, ExecPc
  <2> QED
    BY <2>1 DEF IInv, HeldMessages
<1>7. FirstClaimOnce'
  BY MoveFirstClaim
<1>8. SignalsAreTrue'
  BY DEF IInv, SignalsAreTrue, Status, RowsStep
<1> QED
  BY <1>1, <1>2, <1>3, <1>4, <1>5, <1>6, <1>7, <1>8 DEF IInv

(* Tasks end: one that deleted its message, one whose XACK or XDEL raised, *)
(* or all those of a worker that crashed.                                  *)
TasksEnd(D) ==
    /\ task' \in [Task -> TaskRec]
    /\ \A u \in Task : task'[u] = IF u \in D THEN Idle ELSE task[u]
    /\ inflight_by_run' \in [Worker -> [RunId -> Task \union {None}]]
    /\ \A v \in Worker, q \in RunId :
        \/ inflight_by_run'[v][q] = None
        \/ /\ inflight_by_run'[v][q] = inflight_by_run[v][q]
           /\ inflight_by_run[v][q] \notin D

(* The messages X leave the stream; none of them is pending or             *)
(* undelivered.                                                            *)
MessagesGo(X) ==
    /\ X \intersect pel = {}
    /\ \A i \in 1..Len(queue) : queue[i] \notin X
    /\ stream' = stream \ X
    /\ run_of' \in [Msg -> RunId \union {0}]
    /\ \A m \in stream' : run_of'[m] = run_of[m]

(* The parts of the invariant that are about tasks, when the tasks D end. *)
LEMMA EndedTasks ==
    ASSUME IInv, NEW D \in SUBSET Task, TasksEnd(D), UNCHANGED <<runs, queue, pel>>
    PROVE  /\ \A u \in Task : TaskRefs(u)'
           /\ \A v \in Worker, q \in RunId : Registered(v, q)'
           /\ HeldMessages'
           /\ FirstClaimOnce'
           /\ ExecutedWasClaimed'
<1>0. Idle.pc = "idle" /\ Idle.msg = NoMsg
  BY DEF Idle
<1>1. \A u \in Task : \/ task'[u] = task[u]
                      \/ task'[u].pc = "idle" /\ task'[u].msg = NoMsg
  BY <1>0 DEF TasksEnd
<1>2. \A u \in Task : TaskRefs(u)'
  BY <1>0 DEF IInv, TaskRefs, HoldsRun, ExecPc, TasksEnd
<1>3. \A v \in Worker, q \in RunId : Registered(v, q)'
  BY SMTT(60) DEF IInv, TypeOK, Registered, TasksEnd
<1>4. HeldMessages'
  <2>1. \A i \in 1..Len(queue) : queue[i] # NoMsg
    BY RedisQueueAssumption, SMTT(60) DEF IInv, TypeOK, RedisTypeOK
  <2>2. HeldMessages /\ queue' = queue /\ pel' = pel
    BY DEF IInv
  <2> QED
    BY <1>1, <2>1, <2>2 DEF HeldMessages
<1>5. FirstClaimOnce' /\ ExecutedWasClaimed'
  BY <1>1, SMTT(60) DEF IInv, FirstClaimOnce, ExecutedWasClaimed, Executing, ExecPc, Status
<1> QED
  BY <1>2, <1>3, <1>4, <1>5

(* Tasks end, and the messages they had acked are deleted. *)
LEMMA IdleStep ==
    ASSUME IInv, NEW D \in SUBSET Task, NEW X \in SUBSET Msg, TasksEnd(D), MessagesGo(X),
           UNCHANGED <<runs, queue, pel, delayed, outbox, signals>>,
           crashes' \in 0..MaxCrashes, faults' \in 0..MaxFaults
    PROVE  IInv'
<1>1. TypeOK'
  BY DEF IInv, TypeOK, RunStoreTypeOK, RedisTypeOK, TasksEnd, MessagesGo
<1>2. /\ \A u \in Task : TaskRefs(u)'
      /\ \A v \in Worker, q \in RunId : Registered(v, q)'
      /\ HeldMessages' /\ FirstClaimOnce' /\ ExecutedWasClaimed'
  BY EndedTasks
<1>3. QueueRefs'
  BY DEF IInv, QueueRefs, MessagesGo
<1>4. StreamIntegrity'
  BY DEF IInv, StreamIntegrity, MessagesGo
<1>5. SignalsAreTrue'
  BY DEF IInv, SignalsAreTrue, Status
<1> QED
  BY <1>1, <1>2, <1>3, <1>4, <1>5 DEF IInv

(* XACK: the message leaves the pending list and stays in the stream. *)
LEMMA AckStep ==
    ASSUME IInv, NEW t \in Task, Ack(t)
    PROVE  IInv'
<1>a. /\ task[t].pc = "ack"
      /\ task[t].worker \in Worker /\ task[t].msg \in Msg
      /\ Goto(t, "del")
      /\ pel' = pel \ {task[t].msg}
      /\ UNCHANGED <<runs, stream, queue, run_of, delayed, inflight_by_run, outbox, signals,
                     crashes, faults>>
  BY LiveTask DEF Ack, xack
<1>b. /\ task' \in [Task -> TaskRec]
      /\ \A u \in Task : u # t => task'[u] = task[u]
      /\ task'[t].pc = "del"
      /\ task'[t].worker = task[t].worker
      /\ task'[t].msg = task[t].msg
  BY <1>a, GotoLemma DEF IInv, TypeOK, Pc
<1>1. TypeOK'
  BY <1>a, <1>b DEF IInv, TypeOK, RunStoreTypeOK, RedisTypeOK
<1>2. \A u \in Task : TaskRefs(u)'
  BY <1>a, <1>b DEF IInv, TaskRefs, HoldsRun, ExecPc
<1>3. QueueRefs'
  BY <1>a DEF IInv, QueueRefs
<1>4. \A v \in Worker, q \in RunId : Registered(v, q)'
  BY <1>a, <1>b, SMTT(60) DEF IInv, TypeOK, Registered, ExecPc
<1>5. StreamIntegrity' /\ HeldMessages'
  <2>1. StreamIntegrity'
    BY <1>a DEF IInv, StreamIntegrity
  <2>2. \A u \in Task : /\ task'[u].msg = task[u].msg
                        /\ task'[u].pc = "del" => u = t \/ task[u].pc = "del"
    BY <1>b
  <2>3. queue' = queue /\ pel' = pel \ {task[t].msg}
    BY <1>a
  <2>4. HeldMessages
    BY DEF IInv
  <2>5. \A u \in Task : \A i \in 1..Len(queue') : task'[u].msg # queue'[i]
    BY <2>2, <2>3, <2>4 DEF HeldMessages
  <2>6. \A u \in Task : task'[u].pc = "del" => task'[u].msg \notin pel'
    BY <2>2, <2>3, <2>4 DEF HeldMessages
  <2>7. HeldMessages'
    BY <2>5, <2>6 DEF HeldMessages
  <2> QED
    BY <2>1, <2>7
<1>6. FirstClaimOnce' /\ ExecutedWasClaimed' /\ SignalsAreTrue'
  BY <1>a, <1>b, SMTT(60) DEF IInv, FirstClaimOnce, ExecutedWasClaimed, SignalsAreTrue, Executing,
                    ExecPc, Status
<1> QED
  BY <1>1, <1>2, <1>3, <1>4, <1>5, <1>6 DEF IInv

-----------------------------------------------------------------------------
(* The API and the scheduler, apart from the steps that add to the stream. *)
LEMMA InvClient ==
    ASSUME IInv,
           \/ \E j \in Jobs : trigger_job(j)
           \/ \E r \in DOMAIN runs :
                retry_run(r) \/ cancel(r) \/ requeue_orphans(r) \/ LoseEnqueue(r)
    PROVE  IInv'
<1>0. /\ outbox \in SUBSET DOMAIN runs
      /\ signals \in SUBSET (Worker \X RunId)
      /\ \A w \in Worker, r \in RunId :
            <<w, r>> \in signals => r \in DOMAIN runs /\ runs[r].status = "canceled"
      /\ crashes \in 0..MaxCrashes
      /\ runs \in Seq(JobRun)
      /\ DOMAIN runs \subseteq RunId
  BY RowsLemma DEF IInv, TypeOK, RunStoreTypeOK, QueueRefs, SignalsAreTrue, Status
<1>1. ASSUME NEW j \in Jobs, trigger_job(j) PROVE IInv'
  <2>1. RowsStep /\ Len(runs') \in DOMAIN runs'
    BY <1>1, RowsCreate, SMTT(60) DEF trigger_job
  <2> QED
    BY <1>0, <1>1, <2>1, ClientStep DEF trigger_job, RowsStep, redisVars
<1>2. ASSUME NEW r \in DOMAIN runs, retry_run(r) PROVE IInv'
  <2>0. runs[r] \in JobRun
    BY <1>0, SMTT(60)
  <2>1. runs[r].job \in Jobs /\ runs[r].attempt + 1 \in Nat \ {0}
    BY <2>0, SMTT(60) DEF JobRun
  <2>2. RowsStep /\ Len(runs') \in DOMAIN runs'
    BY <1>2, <2>1, RowsCreate DEF retry_run
  <2> QED
    BY <1>0, <1>2, <2>2, ClientStep DEF retry_run, RowsStep, redisVars
<1>3. ASSUME NEW r \in DOMAIN runs, cancel(r) PROVE IInv'
  <2>1. PICK W \in SUBSET Worker : signals' = signals \union (W \X {r})
    BY <1>3 DEF cancel
  <2>2. /\ RowsStep
        /\ DOMAIN runs' = DOMAIN runs
        /\ runs'[r].status = "canceled"
    BY <1>3, RowsUpdate DEF cancel, cancel_run, ACTIVE, TERMINAL, RunStatus
  <2>3. /\ signals' \in SUBSET (Worker \X RunId)
        /\ \A w \in Worker, q \in RunId : <<w, q>> \in signals' =>
                q \in DOMAIN runs' /\ runs'[q].status = "canceled"
    BY <1>0, <2>1, <2>2, SMTT(60) DEF RowsStep
  <2> QED
    BY <1>0, <1>3, <2>2, <2>3, ClientStep DEF cancel, redisVars
<1>4. ASSUME NEW r \in DOMAIN runs, requeue_orphans(r) \/ LoseEnqueue(r) PROVE IInv'
  <2>1. RowsStep
    BY <1>4, RowsSame DEF requeue_orphans, LoseEnqueue
  <2>2. /\ UNCHANGED <<runs, stream, queue, pel, run_of, delayed, task, inflight_by_run,
                       signals, faults>>
        /\ outbox' \in SUBSET DOMAIN runs'
        /\ crashes' \in 0..MaxCrashes
    BY <1>0, <1>4, DispatchAssumption, SMTT(60) DEF requeue_orphans, LoseEnqueue, redisVars
  <2> QED
    BY <1>0, <2>1, <2>2, ClientStep
<1> QED
  BY <1>1, <1>2, <1>3, <1>4

(* The steps that add to the stream. *)
LEMMA InvXadd ==
    ASSUME IInv, NEW r \in DOMAIN runs, enqueue_run(r) \/ Promote(r)
    PROVE  IInv'
<1>1. PICK m \in FreshMsg : xadd(m, r)
  BY DEF enqueue_run, Promote, promote_due_delayed
<1>2. outbox' \subseteq outbox /\ delayed' \subseteq delayed
  BY DEF enqueue_run, Promote, promote_due_delayed, dispatchVars
<1>3. UNCHANGED <<runs, pel, task, inflight_by_run, signals, crashes, faults>>
  BY DEF enqueue_run, Promote, dispatchVars
<1> QED
  BY <1>1, <1>2, <1>3, XaddStep

(* A read or a reclaim. *)
LEMMA InvSpawn ==
    ASSUME IInv, NEW w \in Worker, NEW t \in Task, NEW m \in Msg,
           ReadGroup(w, t, m) \/ reclaim_stale(w, t, m)
    PROVE  IInv'
<1>0. /\ queue \in Seq(Msg)
      /\ \A i \in 1..Len(queue) : queue[i] \in stream \ pel
      /\ \A i, k \in 1..Len(queue) : queue[i] = queue[k] => i = k
      /\ pel \subseteq stream
      /\ \A u \in Task : /\ \A i \in 1..Len(queue) : task[u].msg # queue[i]
                         /\ task[u].pc = "del" => task[u].msg \notin pel
  BY DEF IInv, TypeOK, RedisTypeOK, StreamIntegrity, HeldMessages
<1>1. CASE ReadGroup(w, t, m)
  <2>1. Len(queue) \in Nat /\ Len(queue) # 0 /\ m = queue[1] /\ queue' = Tail(queue)
    BY <1>0, <1>1, SMTT(60) DEF ReadGroup, xreadgroup
  <2>2. /\ queue' \in Seq(Msg)
        /\ Len(queue') = Len(queue) - 1
        /\ \A i \in 1..Len(queue') : i + 1 \in 1..Len(queue) /\ queue'[i] = queue[i + 1]
    BY <1>0, <2>1, SMTT(60)
  <2>3. /\ \A i \in 1..Len(queue') : queue'[i] # m
        /\ \A i \in 1..Len(queue') : \E k \in 1..Len(queue) : queue'[i] = queue[k]
        /\ \A i, k \in 1..Len(queue') : queue'[i] = queue'[k] => i = k
    BY <1>0, <2>1, <2>2, SMTT(60)
  <2>4. m \in stream /\ \A u \in Task : task[u].msg # m
    BY <1>0, <2>1, SMTT(60)
  <2> QED
    BY <1>1, <2>2, <2>3, <2>4, SpawnStep DEF ReadGroup, xreadgroup
<1>2. CASE reclaim_stale(w, t, m)
  <2>1. /\ m \in pel /\ m \in stream
        /\ spawn(t, w, m, TRUE)
        /\ UNCHANGED <<runs, stream, queue, pel, run_of, delayed, inflight_by_run, outbox,
                       signals, crashes, faults>>
    BY <1>0, <1>2 DEF reclaim_stale, redisVars
  <2>2. /\ \A i \in 1..Len(queue') : queue'[i] # m
        /\ queue' \in Seq(Msg)
        /\ \A i \in 1..Len(queue') : \E k \in 1..Len(queue) : queue'[i] = queue[k]
        /\ \A i, k \in 1..Len(queue') : queue'[i] = queue'[k] => i = k
        /\ pel' = pel \union {m}
        /\ \A u \in Task : task[u].pc = "del" => task[u].msg # m
    BY <1>0, <2>1
  <2> QED
    BY <2>1, <2>2, SpawnStep
<1> QED
  BY <1>1, <1>2

(* The cancel listener. *)
LEMMA InvListener ==
    ASSUME IInv, NEW w \in Worker, NEW r \in DOMAIN runs, cancel_listener(w, r)
    PROVE  IInv'
<1> DEFINE t == inflight_by_run[w][r]
<1>0. /\ r \in RunId
      /\ t \in Task \union {None}
      /\ signals' \subseteq signals
      /\ UNCHANGED <<runs, stream, queue, pel, run_of, delayed, outbox, crashes, faults>>
  BY RowsLemma, SMTT(60) DEF IInv, TypeOK, cancel_listener, redisVars
<1>1. RowsStep
  BY <1>0, RowsSame
<1>2. /\ faults \in 0..MaxFaults /\ crashes \in 0..MaxCrashes
      /\ outbox \subseteq DOMAIN runs
      /\ signals \subseteq Worker \X RunId
      /\ \A v \in Worker, q \in RunId :
            <<v, q>> \in signals => q \in DOMAIN runs /\ runs[q].status = "canceled"
  BY DEF IInv, TypeOK, QueueRefs, SignalsAreTrue, Status
<1>3. CASE t # None /\ Finally(t)
  <2>1. t \in Task /\ task[t].pc \in {"claim"} \union ExecPc
    BY <1>0, <1>3 DEF IInv, Registered
  <2> QED
    BY <1>0, <1>1, <1>2, <1>3, <2>1, FinallyStep
<1>4. CASE UNCHANGED <<task, inflight_by_run>>
  BY <1>0, <1>1, <1>2, <1>4, ClientStep
<1> QED
  BY <1>3, <1>4 DEF cancel_listener

(* The steps after which tasks are gone. *)
LEMMA InvGone ==
    ASSUME IInv,
           \/ \E t \in Task : Del(t) \/ AckFails(t)
           \/ \E w \in Worker : Crash(w)
    PROVE  IInv'
<1>0. /\ task \in [Task -> TaskRec]
      /\ inflight_by_run \in [Worker -> [RunId -> Task \union {None}]]
      /\ run_of \in [Msg -> RunId \union {0}]
      /\ crashes \in 0..MaxCrashes /\ faults \in 0..MaxFaults
      /\ Idle \in TaskRec
  BY DEF IInv, TypeOK, RedisTypeOK, Idle, TaskRec, Pc
<1>1. \A u \in Task, v \in Worker, q \in RunId :
        inflight_by_run[v][q] = u => /\ task[u].worker = v
                                     /\ task[u].pc \in {"claim"} \union ExecPc
  BY DispatchAssumption, SMTT(60) DEF IInv, Registered
<1>2. ASSUME NEW t \in Task, Del(t) PROVE IInv'
  <2>1. /\ task[t].pc = "del" /\ task[t].msg \in Msg
        /\ stream' = stream \ {task[t].msg}
        /\ run_of' = [run_of EXCEPT ![task[t].msg] = 0]
        /\ task' = [task EXCEPT ![t] = Idle]
        /\ UNCHANGED <<runs, queue, pel, delayed, inflight_by_run, outbox, signals,
                       crashes, faults>>
    BY <1>2, LiveTask DEF Del, xdel
  <2>2. \A v \in Worker, q \in RunId : inflight_by_run[v][q] \notin {t}
    BY <1>1, <2>1, SMTT(60) DEF ExecPc
  <2>3. TasksEnd({t})
    BY <1>0, <2>1, <2>2 DEF TasksEnd
  <2>4. /\ {task[t].msg} \intersect pel = {}
        /\ \A i \in 1..Len(queue) : queue[i] \notin {task[t].msg}
    BY <2>1 DEF IInv, HeldMessages
  <2>5. /\ run_of' \in [Msg -> RunId \union {0}]
        /\ \A m \in stream' : run_of'[m] = run_of[m]
    BY <1>0, <2>1 DEF IInv, TypeOK, RedisTypeOK
  <2>6. MessagesGo({task[t].msg})
    BY <2>1, <2>4, <2>5 DEF MessagesGo
  <2> QED
    BY <1>0, <2>1, <2>3, <2>6, IdleStep
<1>3. ASSUME NEW t \in Task, AckFails(t) PROVE IInv'
  <2>1. /\ task[t].pc \in {"ack", "del"}
        /\ task' = [task EXCEPT ![t] = Idle]
        /\ faults' \in 0..MaxFaults
        /\ UNCHANGED <<runs, stream, queue, pel, run_of, delayed, inflight_by_run, outbox,
                       signals, crashes>>
    BY <1>0, <1>3, DispatchAssumption, SMTT(60) DEF AckFails, redisVars
  <2>2. \A v \in Worker, q \in RunId : inflight_by_run[v][q] \notin {t}
    <3>1. task[t].pc \notin {"claim"} \union ExecPc
      BY <2>1 DEF ExecPc
    <3> QED
      BY <1>1, <3>1
  <2>3. TasksEnd({t})
    BY <1>0, <2>1, <2>2 DEF TasksEnd
  <2>4. MessagesGo({})
    BY <1>0, <2>1 DEF MessagesGo
  <2> QED
    BY <1>0, <2>1, <2>3, <2>4, IdleStep
<1>4. ASSUME NEW w \in Worker, Crash(w) PROVE IInv'
  <2> DEFINE D == {u \in Task : task[u].worker = w}
  <2>1. /\ task' = [u \in Task |-> IF task[u].worker = w THEN Idle ELSE task[u]]
        /\ inflight_by_run' = [inflight_by_run EXCEPT ![w] = [r \in RunId |-> None]]
        /\ crashes' \in 0..MaxCrashes
        /\ UNCHANGED <<runs, stream, queue, pel, run_of, delayed, outbox, signals, faults>>
    BY <1>0, <1>4, DispatchAssumption, SMTT(60) DEF Crash, redisVars
  <2>2. /\ task' \in [Task -> TaskRec]
        /\ \A u \in Task : task'[u] = IF u \in D THEN Idle ELSE task[u]
    BY <1>0, <2>1
  <2>3. inflight_by_run' \in [Worker -> [RunId -> Task \union {None}]]
    BY <1>0, <2>1
  <2>4. \A v \in Worker, q \in RunId :
            \/ inflight_by_run'[v][q] = None
            \/ /\ inflight_by_run'[v][q] = inflight_by_run[v][q]
               /\ inflight_by_run[v][q] \notin D
    <3> SUFFICES ASSUME NEW v \in Worker, NEW q \in RunId, v # w
                 PROVE  /\ inflight_by_run'[v][q] = inflight_by_run[v][q]
                        /\ inflight_by_run[v][q] \notin D
      BY <1>0, <2>1
    <3>1. inflight_by_run'[v][q] = inflight_by_run[v][q]
      BY <1>0, <2>1
    <3> QED
      BY <1>1, <3>1
  <2> HIDE DEF D
  <2>5. TasksEnd(D)
    BY <2>2, <2>3, <2>4 DEF TasksEnd
  <2>6. MessagesGo({})
    BY <1>0, <2>1 DEF MessagesGo
  <2>7. D \in SUBSET Task
    BY DEF D
  <2> QED
    BY <1>0, <2>1, <2>5, <2>6, <2>7, IdleStep
<1> QED
  BY <1>2, <1>3, <1>4

(* A task inside process_run has a row, which has left the queue once the  *)
(* task has claimed it.                                                    *)
LEMMA TaskRun ==
    ASSUME IInv, NEW t \in Task, task[t].pc \in {"claim"} \union ExecPc
    PROVE  /\ task[t].run \in DOMAIN runs
           /\ Status(task[t].run) # "pending"
           /\ task[t].pc \in ExecPc => Status(task[t].run) # "queued"
<1>1. task[t].run \in DOMAIN runs
  BY LiveTask DEF HoldsRun, ExecPc
<1> QED
  BY <1>1 DEF IInv, ExecutedWasClaimed, Executing

(* What a task carries from the executor to finish_run. *)
LEMMA TaskResult ==
    ASSUME IInv, NEW t \in Task
    PROVE  /\ task[t].pc \in ExecPc \ {"exec"} => task[t].result \in Outcomes
           /\ task[t].pc = "delay" => task[t].new_id \in DOMAIN runs
BY DEF IInv, TaskRefs

(* The types that most steps need. *)
LEMMA Tables ==
    ASSUME IInv
    PROVE  /\ task \in [Task -> TaskRec]
           /\ delayed \in SUBSET DOMAIN runs
           /\ faults \in 0..MaxFaults
           /\ DOMAIN runs \subseteq RunId
BY RowsLemma DEF IInv, TypeOK, QueueRefs

(* claim_run, and the first await of the executor or the finally block. *)
LEMMA InvClaim ==
    ASSUME IInv, NEW t \in Task, Claim(t)
    PROVE  IInv'
<1> DEFINE r == task[t].run
           allow == task[t].allow_running
<1>0. /\ task[t].pc = "claim"
      /\ UpdateStatusFrom(r, Claimable(allow), "running")
      /\ "canceled" \notin Claimable(allow)
      /\ UNCHANGED <<stream, queue, pel, run_of, delayed, outbox, signals, crashes, faults>>
  BY DEF Claim, claim_run, Claimable, ACTIVE, redisVars
<1>1. r \in DOMAIN runs /\ Status(r) # "pending"
  BY <1>0, TaskRun
<1>2. /\ RowsStep
      /\ DOMAIN runs' = DOMAIN runs
      /\ runs'[r].status = IF Status(r) \in Claimable(allow) THEN "running" ELSE Status(r)
  BY <1>0, <1>1, RowsUpdate DEF RunStatus, ACTIVE, TERMINAL
<1>3. task \in [Task -> TaskRec] /\ delayed' \in SUBSET DOMAIN runs' /\ faults' \in 0..MaxFaults
  BY <1>0, <1>2, Tables
<1>4. CASE Finally(t)
  BY <1>0, <1>2, <1>3, <1>4, FinallyStep
<1>5. CASE Status(r) \in Claimable(allow) /\ Goto(t, "exec") /\ UNCHANGED inflight_by_run
  <2>1. ~allow => Status(r) = "queued"
    BY <1>1, <1>5 DEF Claimable
  <2>2. TaskMoves(t) /\ task'[t].pc = "exec"
    BY <1>3, <1>5, GotoLemma DEF Pc, TaskMoves, ExecPc
  <2>3. runs'[r].status # "queued"
    BY <1>2, <1>5
  <2>4. MoveGuards(t)
    BY <2>1, <2>2, <2>3 DEF MoveGuards
  <2> QED
    BY <1>0, <1>2, <1>3, <1>5, <2>2, <2>4, MoveStep
<1> QED
  BY <1>4, <1>5 DEF Claim

(* The executor returns. *)
LEMMA InvExecute ==
    ASSUME IInv, NEW t \in Task, NEW s \in Outcomes, Execute(t, s)
    PROVE  IInv'
<1>0. /\ task[t].pc = "exec"
      /\ UNCHANGED <<runs, stream, queue, pel, run_of, delayed, inflight_by_run, outbox,
                     signals, crashes, faults>>
  BY DEF Execute, redisVars
<1>e. task' = [task EXCEPT ![t].pc = "check", ![t].result = s]
  BY DEF Execute
<1>1. RowsStep
  BY <1>0, RowsSame
<1>2. task \in [Task -> TaskRec] /\ delayed' \in SUBSET DOMAIN runs'
  BY <1>0, Tables
<1>3. TaskMoves(t) /\ task'[t].pc = "check" /\ task'[t].result = s
  BY <1>e, <1>2, ResultLemma DEF ExecPc
<1>4. runs'[task[t].run].status # "queued"
  BY <1>0, TaskRun DEF ExecPc, Status
<1>5. MoveGuards(t)
  BY <1>0, <1>3, <1>4 DEF MoveGuards
<1>6. task[t].pc \in {"claim"} \union ExecPc
  BY <1>0 DEF ExecPc
<1> QED
  BY <1>0, <1>1, <1>2, <1>3, <1>5, <1>6, MoveStep

(* _on_success and _on_failure ask whether the run was canceled. *)
LEMMA InvCheck ==
    ASSUME IInv, NEW t \in Task, CheckCanceled(t)
    PROVE  IInv'
<1>0. /\ task[t].pc = "check"
      /\ UNCHANGED <<runs, stream, queue, pel, run_of, delayed, outbox, signals, crashes,
                     faults>>
  BY DEF CheckCanceled, redisVars
<1>1. RowsStep
  BY <1>0, RowsSame
<1>2. task \in [Task -> TaskRec] /\ delayed' \in SUBSET DOMAIN runs' /\ faults' \in 0..MaxFaults
  BY <1>0, Tables
<1>3. task[t].pc \in {"claim"} \union ExecPc
  BY <1>0 DEF ExecPc
<1>4. CASE Finally(t)
  BY <1>0, <1>1, <1>2, <1>4, <1>3, FinallyStep
<1>5. ASSUME NEW p \in {"retry", "finish"}, Goto(t, p), UNCHANGED inflight_by_run
      PROVE  IInv'
  <2>1. TaskMoves(t) /\ task'[t].pc = p /\ task'[t].result = task[t].result
    BY <1>2, <1>5, GotoLemma DEF Pc, TaskMoves, ExecPc
  <2>2. runs'[task[t].run].status # "queued" /\ task[t].result \in Outcomes
    BY <1>0, TaskRun, TaskResult DEF ExecPc, Status
  <2>3. MoveGuards(t)
    BY <1>0, <2>1, <2>2 DEF MoveGuards
  <2> QED
    BY <1>0, <1>1, <1>2, <1>5, <1>3, <2>1, <2>3, MoveStep
<1> QED
  BY <1>4, <1>5 DEF CheckCanceled

(* _on_failure inserts the row of the retry. *)
LEMMA InvRetry ==
    ASSUME IInv, NEW t \in Task, create_retry_run(t)
    PROVE  IInv'
<1> DEFINE r == task[t].run
           n == Len(runs')
<1>0. /\ task[t].pc = "retry"
      /\ create_run(runs[r].job, runs[r].attempt + 1, r)
      /\ UNCHANGED <<stream, queue, pel, run_of, delayed, inflight_by_run, outbox,
                     signals, crashes, faults>>
  BY DEF create_retry_run, redisVars
<1>e. task' = [task EXCEPT ![t].pc = "delay", ![t].new_id = n]
  BY DEF create_retry_run
<1>1. r \in DOMAIN runs /\ Status(r) # "queued"
  BY <1>0, TaskRun DEF ExecPc
<1>2. r \in RunId /\ runs[r].job \in Jobs /\ runs[r].attempt + 1 \in Nat \ {0}
  <2>1. runs[r] \in JobRun /\ r \in RunId
    BY <1>1, RowsLemma, SMTT(60) DEF IInv, TypeOK, RunStoreTypeOK
  <2> QED
    BY <2>1, SMTT(60) DEF JobRun
<1>3. RowsStep /\ n \in DOMAIN runs'
  BY <1>0, <1>2, RowsCreate
<1>4. n \in RunId
  BY <1>3, RunStoreAssumption, SMTT(60) DEF RowsStep, RunStoreTypeOK, RunId
<1> HIDE DEF n
<1>5. task \in [Task -> TaskRec] /\ delayed' \in SUBSET DOMAIN runs'
  BY <1>0, <1>3, Tables DEF RowsStep
<1>6. /\ TaskMoves(t)
      /\ task'[t].pc = "delay"
      /\ task'[t].result = task[t].result
      /\ task'[t].new_id = n
  BY <1>e, <1>4, <1>5, NewIdLemma DEF ExecPc
<1>7. runs'[r].status # "queued" /\ task[t].result \in Outcomes
  BY <1>0, <1>1, <1>3, TaskResult DEF ExecPc, Status, RowsStep
<1>8. MoveGuards(t)
  BY <1>0, <1>3, <1>6, <1>7 DEF MoveGuards
<1>9. task[t].pc \in {"claim"} \union ExecPc
  BY <1>0 DEF ExecPc
<1> QED
  BY <1>0, <1>3, <1>5, <1>6, <1>8, <1>9, MoveStep

(* The retry enters the sorted set. *)
LEMMA InvDelay ==
    ASSUME IInv, NEW t \in Task, ScheduleDelayed(t)
    PROVE  IInv'
<1>0. /\ task[t].pc = "delay"
      /\ delayed' = delayed \union {task[t].new_id}
      /\ UNCHANGED <<runs, stream, queue, pel, run_of, inflight_by_run, outbox, signals,
                     crashes, faults>>
  BY DEF ScheduleDelayed, schedule_delayed
<1>e. task' = [task EXCEPT ![t].pc = "finish", ![t].new_id = 0]
  BY DEF ScheduleDelayed
<1>1. RowsStep
  BY <1>0, RowsSame
<1>2. task \in [Task -> TaskRec]
  BY Tables
<1>3. TaskMoves(t) /\ task'[t].pc = "finish" /\ task'[t].result = task[t].result
  BY <1>e, <1>2, NewIdLemma DEF ExecPc
<1>4. runs'[task[t].run].status # "queued" /\ task[t].result \in Outcomes
  BY <1>0, TaskRun, TaskResult DEF ExecPc, Status
<1>5. delayed' \in SUBSET DOMAIN runs'
  BY <1>0, Tables, TaskResult
<1>6. MoveGuards(t)
  BY <1>0, <1>3, <1>4 DEF MoveGuards
<1>7. task[t].pc \in {"claim"} \union ExecPc
  BY <1>0 DEF ExecPc
<1> QED
  BY <1>0, <1>1, <1>3, <1>5, <1>6, <1>7, MoveStep

(* finish_run, then the finally block. *)
LEMMA InvFinish ==
    ASSUME IInv, NEW t \in Task, FinishRun(t)
    PROVE  IInv'
<1> DEFINE r == task[t].run
<1>0. /\ task[t].pc = "finish"
      /\ UpdateStatusFrom(r, RunStatus \ {"canceled"}, task[t].result)
      /\ Finally(t)
      /\ UNCHANGED <<stream, queue, pel, run_of, delayed, outbox, signals, crashes, faults>>
  BY DEF FinishRun, finish_run, redisVars
<1>1. r \in DOMAIN runs
  BY <1>0, TaskRun DEF ExecPc
<1>2. task[t].result \in Outcomes
  BY <1>0, TaskResult DEF ExecPc
<1>3. task[t].result \in RunStatus \ {"pending", "queued"}
  BY <1>2, DispatchAssumption DEF RunStatus, ACTIVE, TERMINAL
<1>4. RowsStep
  BY <1>0, <1>1, <1>3, RowsUpdate
<1>5. faults' \in 0..MaxFaults
  BY <1>0, Tables
<1>6. task[t].pc \in {"claim"} \union ExecPc
  BY <1>0 DEF ExecPc
<1> QED
  BY <1>0, <1>4, <1>5, <1>6, FinallyStep

(* A call of process_run raises. *)
LEMMA InvCallFails ==
    ASSUME IInv, NEW t \in Task, CallFails(t)
    PROVE  IInv'
<1>1. RowsStep
  BY RowsSame DEF CallFails
<1>2. /\ task[t].pc \in {"claim"} \union ExecPc
      /\ Finally(t)
      /\ UNCHANGED <<stream, queue, pel, run_of, delayed, outbox, signals, crashes>>
  BY DEF CallFails, redisVars
<1>3. faults' \in 0..MaxFaults
  BY Tables, DispatchAssumption, SMTT(60) DEF CallFails
<1> QED
  BY <1>1, <1>2, <1>3, FinallyStep

(* Every step keeps the invariant. *)
LEMMA InvNext == IInv /\ [Next]_vars => IInv'
<1> SUFFICES ASSUME IInv, [Next]_vars PROVE IInv'
  OBVIOUS
<1>1. CASE UNCHANGED vars
  <2>0. UNCHANGED <<runs, stream, queue, pel, run_of, delayed, task, inflight_by_run, outbox,
                    signals, crashes, faults>>
    BY <1>1 DEF vars, dispatchVars, redisVars
  <2>1. TypeOK'
    BY <2>0 DEF IInv, TypeOK, RunStoreTypeOK, RedisTypeOK
  <2>2. (\A t \in Task : TaskRefs(t)') /\ QueueRefs'
    BY <2>0 DEF IInv, TaskRefs, QueueRefs
  <2>3. \A w \in Worker, r \in RunId : Registered(w, r)'
    BY <2>0, SMTT(60) DEF IInv, Registered
  <2>4. StreamIntegrity' /\ HeldMessages'
    BY <2>0 DEF IInv, StreamIntegrity, HeldMessages
  <2>5. ExecutedWasClaimed' /\ SignalsAreTrue' /\ FirstClaimOnce'
    BY <2>0 DEF IInv, ExecutedWasClaimed, SignalsAreTrue, FirstClaimOnce, Executing, Status
  <2> QED
    BY <2>1, <2>2, <2>3, <2>4, <2>5 DEF IInv
<1>2. ASSUME NEW j \in Jobs, trigger_job(j) PROVE IInv'
  BY <1>2, InvClient
<1>3. ASSUME NEW r \in DOMAIN runs, RunNext(r) PROVE IInv'
  BY <1>3, InvClient, InvXadd, InvListener DEF RunNext
<1>4. ASSUME NEW w \in Worker, Read(w) \/ Reclaim(w) \/ Crash(w) PROVE IInv'
  BY <1>4, InvSpawn, InvGone DEF Read, Reclaim
<1>5. ASSUME NEW t \in Task, TaskStep(t) \/ CallFails(t) \/ AckFails(t) PROVE IInv'
  BY <1>5, EnterStep, InvClaim, InvExecute, InvCheck, InvRetry, InvDelay, InvFinish, InvCallFails, AckStep, InvGone DEF TaskStep
<1> QED
  BY <1>1, <1>2, <1>3, <1>4, <1>5 DEF Next

-----------------------------------------------------------------------------
(* The invariants of the dispatch path, for all sets of jobs, workers,     *)
(* tasks and messages and all bounds.                                      *)

(* The inductive invariant holds in every reachable state. *)
THEOREM Inductive == Spec => []IInv
  BY InvInit, InvNext, PTL DEF Spec

(* Type correctness: every handler, crash and failing call leaves the      *)
(* tables of PostgreSQL, Redis and the workers in the shape the code reads.*)
THEOREM TypeCorrect == Spec => []TypeOK
<1>1. IInv => TypeOK
  BY DEF IInv
<1> QED
  BY <1>1, Inductive, PTL

(* The conditional UPDATE of claim_run lets at most one first delivery of  *)
(* a run execute it, however many duplicate messages, crashes and stalls   *)
(* there are.                                                              *)
THEOREM FirstClaims == Spec => []FirstClaimOnce
<1>1. IInv => FirstClaimOnce
  BY DEF IInv
<1> QED
  BY <1>1, Inductive, PTL

(* XACK before XDEL in handle: an entry that is pending or still to be     *)
(* delivered is never gone from the stream, and none is delivered twice as *)
(* new.                                                                    *)
THEOREM StreamKept == Spec => []StreamIntegrity
<1>1. IInv => StreamIntegrity
  BY DEF IInv
<1> QED
  BY <1>1, Inductive, PTL

-----------------------------------------------------------------------------
(* Dispatch implements RunLifecycle, for every value of the constants.     *)
(* The refinement mapping is the identity on runs: the abstract            *)
(* specification does not see Redis, the tasks or the failures.            *)

(* runner._on_failure calls create_retry_run only after should_retry; the  *)
(* job and the attempt number it read cannot change before the INSERT.     *)
RetryWithinLimit ==
    \A t \in Task : task[t].pc = "retry" => should_retry(task[t].run)

(* A transaction keeps the job and the attempt number of every row. *)
RowsKept ==
    \A q \in DOMAIN runs :
        /\ q \in DOMAIN runs'
        /\ runs'[q].job = runs[q].job
        /\ runs'[q].attempt = runs[q].attempt

(* create_run keeps the rows that are there. *)
LEMMA InsertKeepsRows ==
    ASSUME IInv, NEW j \in Jobs, NEW n \in Nat \ {0}, NEW parent \in RunId \union {0},
           create_run(j, n, parent)
    PROVE  RowsKept
<1>1. runs \in Seq(JobRun)
  BY DEF IInv, TypeOK, RunStoreTypeOK
<1>2. DOMAIN runs \subseteq DOMAIN runs' /\ \A q \in DOMAIN runs : runs'[q] = runs[q]
  BY <1>1, CreateLemma
<1> QED
  BY <1>2 DEF RowsKept

(* An UPDATE changes the status of a row only. *)
LEMMA UpdateKeepsRows ==
    ASSUME IInv, NEW r \in DOMAIN runs, NEW from, NEW s \in RunStatus,
           UpdateStatusFrom(r, from, s)
    PROVE  RowsKept
<1>1. runs \in Seq(JobRun)
  BY DEF IInv, TypeOK, RunStoreTypeOK
<1>2. /\ DOMAIN runs' = DOMAIN runs
      /\ \A q \in DOMAIN runs : q # r => runs'[q] = runs[q]
      /\ runs'[r].job = runs[r].job
      /\ runs'[r].attempt = runs[r].attempt
  BY <1>1, UpdateLemma
<1> QED
  BY <1>2 DEF RowsKept

(* A claim of a run that is already running changes no column the model    *)
(* keeps.                                                                  *)
LEMMA ReclaimKeepsRow ==
    ASSUME runs \in Seq(JobRun), NEW r \in DOMAIN runs, runs[r].status = "running"
    PROVE  [runs EXCEPT ![r].status = "running"] = runs
<1>1. runs[r] \in JobRun
  BY SMTT(60)
<1>2. [runs[r] EXCEPT !.status = "running"] = runs[r]
  BY <1>1 DEF JobRun
<1> QED
  BY <1>2, SMTT(60)

(* What the invariants say of the row a task works on. *)
LEMMA TaskRow ==
    ASSUME IInv, NEW t \in Task, task[t].pc \in {"claim"} \union ExecPc
    PROVE  /\ runs \in Seq(JobRun)
           /\ task[t].run \in DOMAIN runs /\ task[t].run \in RunId
           /\ runs[task[t].run] \in JobRun
           /\ runs[task[t].run].job \in Jobs
           /\ runs[task[t].run].attempt + 1 \in Nat \ {0}
           /\ Status(task[t].run) # "pending"
           /\ task[t].pc \in ExecPc => Status(task[t].run) # "queued"
           /\ task[t].pc \in ExecPc \ {"exec"} => task[t].result \in Outcomes
<1>1. runs \in Seq(JobRun)
  BY DEF IInv, TypeOK, RunStoreTypeOK
<1>2. task[t].run \in DOMAIN runs /\ task[t].run \in RunId
  BY LiveTask DEF HoldsRun, ExecPc
<1>3. runs[task[t].run] \in JobRun
  BY <1>1, <1>2, SMTT(60)
<1>4. runs[task[t].run].job \in Jobs /\ runs[task[t].run].attempt + 1 \in Nat \ {0}
  BY <1>3, SMTT(60) DEF JobRun
<1> QED
  BY <1>1, <1>2, <1>3, <1>4 DEF IInv, ExecutedWasClaimed, Executing, TaskRefs

-----------------------------------------------------------------------------
(* Every step of Dispatch is a step of RunLifecycle or leaves runs alone,  *)
(* and keeps the job and attempt number of the rows.                       *)

(* The endpoints of the API take steps of RunLifecycle. *)
LEMMA ClientRefines ==
    ASSUME IInv,
           \/ \E j \in Jobs : trigger_job(j)
           \/ \E r \in DOMAIN runs : retry_run(r) \/ cancel(r)
    PROVE  Lifecycle!Next /\ RowsKept
<1>0. runs \in Seq(JobRun)
  BY DEF IInv, TypeOK, RunStoreTypeOK
<1>1. ASSUME NEW j \in Jobs, trigger_job(j) PROVE Lifecycle!Next /\ RowsKept
  <2>1. create_run(j, 1, 0)
    BY <1>1 DEF trigger_job
  <2>2. Lifecycle!Trigger
    BY <2>1 DEF create_run, Lifecycle!Trigger, Lifecycle!New
  <2> QED
    BY <2>1, <2>2, InsertKeepsRows, SMTT(60) DEF Lifecycle!Next
<1>2. ASSUME NEW r \in DOMAIN runs, retry_run(r) PROVE Lifecycle!Next /\ RowsKept
  <2>0. runs[r] \in JobRun
    BY <1>0, SMTT(60)
  <2>1. /\ Status(r) \in TERMINAL
        /\ create_run(runs[r].job, runs[r].attempt + 1, 0)
        /\ runs[r].job \in Jobs /\ runs[r].attempt + 1 \in Nat \ {0}
        /\ r # 0
    BY <1>0, <1>2, <2>0, SMTT(60) DEF retry_run, JobRun
  <2>2. Lifecycle!Retry(r)
    BY <2>1 DEF create_run, Lifecycle!Retry, Lifecycle!New, Status, TERMINAL
  <2> QED
    BY <2>1, <2>2, InsertKeepsRows DEF Lifecycle!Next
<1>3. ASSUME NEW r \in DOMAIN runs, cancel(r) PROVE Lifecycle!Next /\ RowsKept
  <2>1. /\ Status(r) \in {"queued", "running"}
        /\ UpdateStatusFrom(r, ACTIVE, "canceled")
        /\ Status(r) \in ACTIVE
    BY <1>3 DEF cancel, cancel_run, IInv, ExecutedWasClaimed, ACTIVE
  <2>2. Lifecycle!Cancel(r)
    BY <2>1 DEF UpdateStatusFrom, Lifecycle!Cancel, Status
  <2>3. RowsKept
    BY <2>1, UpdateKeepsRows DEF RunStatus, TERMINAL
  <2> QED
    BY <2>2, <2>3 DEF Lifecycle!Next
<1> QED
  BY <1>1, <1>2, <1>3

(* The transactions of a task are steps of RunLifecycle, or change         *)
(* nothing.                                                                *)
LEMMA TaskRefines ==
    ASSUME IInv, RetryWithinLimit, NEW t \in Task,
           Claim(t) \/ create_retry_run(t) \/ FinishRun(t)
    PROVE  [Lifecycle!Next]_runs /\ RowsKept
<1> DEFINE r == task[t].run
<1>0. task[t].pc \in {"claim"} \union ExecPc
  BY DEF Claim, create_retry_run, FinishRun, ExecPc
<1>r. /\ runs \in Seq(JobRun)
      /\ r \in DOMAIN runs /\ r \in RunId
      /\ runs[r] \in JobRun
      /\ runs[r].job \in Jobs
      /\ runs[r].attempt + 1 \in Nat \ {0}
      /\ Status(r) # "pending"
      /\ task[t].pc \in ExecPc => Status(r) # "queued"
      /\ task[t].pc \in ExecPc \ {"exec"} => task[t].result \in Outcomes
  BY <1>0, TaskRow
<1>1. CASE Claim(t)
  <2> DEFINE allow == task[t].allow_running
  <2>1. UpdateStatusFrom(r, Claimable(allow), "running")
    BY <1>1 DEF Claim, claim_run
  <2>2. RowsKept
    BY <1>r, <2>1, UpdateKeepsRows DEF RunStatus, ACTIVE
  <2>3. CASE Status(r) = "queued"
    <3>1. Status(r) \in Claimable(allow)
      BY <2>3 DEF Claimable, ACTIVE
    <3>2. Lifecycle!Claim(r)
      BY <2>1, <2>3, <3>1 DEF UpdateStatusFrom, Status, Lifecycle!Claim
    <3> QED
      BY <1>r, <2>2, <3>2 DEF Lifecycle!Next
  <2>4. CASE Status(r) # "queued"
    <3>1. \/ runs' = runs
          \/ Status(r) = "running" /\ runs' = [runs EXCEPT ![r].status = "running"]
      BY <1>r, <2>1, <2>4 DEF UpdateStatusFrom, Claimable, ACTIVE
    <3> QED
      BY <1>r, <2>2, <3>1, ReclaimKeepsRow DEF Status
  <2> QED
    BY <2>2, <2>3, <2>4
<1>2. CASE create_retry_run(t)
  <2>1. /\ task[t].pc = "retry"
        /\ create_run(runs[r].job, runs[r].attempt + 1, r)
    BY <1>2 DEF create_retry_run
  <2>2. Status(r) # "queued" /\ runs[r].attempt <= max_retries[runs[r].job]
    BY <1>r, <2>1 DEF RetryWithinLimit, should_retry, ExecPc
  <2>3. Lifecycle!Retry(r)
    BY <2>1, <2>2 DEF create_run, Lifecycle!Retry, Lifecycle!New, Status
  <2> QED
    BY <1>r, <2>1, <2>3, InsertKeepsRows DEF Lifecycle!Next
<1>3. CASE FinishRun(t)
  <2>1. /\ task[t].pc = "finish"
        /\ UpdateStatusFrom(r, RunStatus \ {"canceled"}, task[t].result)
    BY <1>3 DEF FinishRun, finish_run
  <2>2. /\ task[t].result \in Lifecycle!Outcome /\ task[t].result \in RunStatus
        /\ Status(r) \in RunStatus \ {"pending", "queued"}
    BY <1>r, <2>1, DispatchAssumption
    DEF ExecPc, Lifecycle!Outcome, RunStatus, ACTIVE, TERMINAL, JobRun, Status
  <2>3. RowsKept
    BY <1>r, <2>1, <2>2, UpdateKeepsRows
  <2>4. CASE Status(r) = "canceled"
    BY <2>1, <2>3, <2>4 DEF UpdateStatusFrom
  <2>5. CASE Status(r) # "canceled"
    <3>1. runs[r].status \in {"running"} \union Lifecycle!Outcome
      BY <2>2, <2>5 DEF RunStatus, ACTIVE, TERMINAL, Lifecycle!Outcome, Status
    <3>2. runs' = [runs EXCEPT ![r].status = task[t].result]
      BY <2>1, <2>2, <2>5 DEF UpdateStatusFrom
    <3> QED
      BY <1>r, <2>2, <2>3, <3>1, <3>2 DEF Lifecycle!Finish, Lifecycle!Next
  <2> QED
    BY <2>4, <2>5
<1> QED
  BY <1>1, <1>2, <1>3

(* Every step is a step of RunLifecycle, or changes no row. *)
LEMMA StepRefines ==
    ASSUME IInv, RetryWithinLimit, [Next]_vars
    PROVE  [Lifecycle!Next]_runs /\ RowsKept
<1>0. UNCHANGED runs => RowsKept
  BY DEF RowsKept
<1>1. CASE UNCHANGED vars
  BY <1>0, <1>1 DEF vars
<1>2. ASSUME NEW j \in Jobs, trigger_job(j) PROVE [Lifecycle!Next]_runs /\ RowsKept
  BY <1>2, ClientRefines
<1>3. ASSUME NEW r \in DOMAIN runs, RunNext(r) PROVE [Lifecycle!Next]_runs /\ RowsKept
  <2>1. CASE retry_run(r) \/ cancel(r)
    BY <2>1, ClientRefines
  <2>2. CASE UNCHANGED runs
    BY <1>0, <2>2
  <2> QED
    BY <1>3, <2>1, <2>2
    DEF RunNext, requeue_orphans, enqueue_run, LoseEnqueue, Promote, cancel_listener
<1>4. ASSUME NEW w \in Worker, Read(w) \/ Reclaim(w) \/ Crash(w)
      PROVE  [Lifecycle!Next]_runs /\ RowsKept
  BY <1>0, <1>4 DEF Read, Reclaim, ReadGroup, reclaim_stale, Crash
<1>5. ASSUME NEW t \in Task, TaskStep(t) \/ CallFails(t) \/ AckFails(t)
      PROVE  [Lifecycle!Next]_runs /\ RowsKept
  <2>1. CASE Claim(t) \/ create_retry_run(t) \/ FinishRun(t)
    BY <2>1, TaskRefines
  <2>2. CASE UNCHANGED runs
    BY <1>0, <2>2
  <2> QED
    BY <1>5, <2>1, <2>2
    DEF TaskStep, Enter, Execute, CheckCanceled, ScheduleDelayed, Ack, Del, CallFails, AckFails
<1> QED
  BY <1>1, <1>2, <1>3, <1>4, <1>5 DEF Next

-----------------------------------------------------------------------------
(* A task comes to create_retry_run only through the check before it.      *)
LEMMA OnlyCheckRetries ==
    ASSUME IInv, [Next]_vars, NEW u \in Task, task'[u].pc = "retry"
    PROVE  task'[u] = task[u] \/ CheckCanceled(u)
<1>0. task \in [Task -> TaskRec]
  BY DEF IInv, TypeOK
<1>1. CASE UNCHANGED task
  BY <1>1
<1>2. ASSUME NEW t \in Task, Finally(t) PROVE task'[u] = task[u]
  BY <1>0, <1>2 DEF Finally, Idle
<1>3. ASSUME NEW t \in Task, NEW p \in Pc \ {"retry"}, Goto(t, p) PROVE task'[u] = task[u]
  BY <1>0, <1>3, GotoLemma
<1>4. ASSUME NEW w \in Worker, Read(w) \/ Reclaim(w) \/ Crash(w) PROVE task'[u] = task[u]
  <2>1. ASSUME NEW t \in Task, NEW m, NEW allow, spawn(t, w, m, allow)
        PROVE  task'[u] = task[u]
    BY <1>0, <2>1 DEF spawn, Idle
  <2>2. CASE Crash(w)
    BY <1>0, <2>2 DEF Crash, Idle
  <2> QED
    BY <1>4, <2>1, <2>2 DEF Read, Reclaim, ReadGroup, reclaim_stale
<1>5. ASSUME NEW t \in Task, TaskStep(t) \/ CallFails(t) \/ AckFails(t)
      PROVE  task'[u] = task[u] \/ CheckCanceled(u)
  <2>1. CASE Enter(t) \/ Claim(t) \/ FinishRun(t) \/ Ack(t) \/ CallFails(t)
    BY <1>2, <1>3, <2>1 DEF Enter, Claim, FinishRun, Ack, CallFails, Pc
  <2>2. CASE \E s \in Outcomes : Execute(t, s)
    BY <1>0, <2>2, SMTT(60) DEF Execute
  <2>3. CASE CheckCanceled(t)
    <3>1. u # t => task'[u] = task[u]
      BY <1>0, <2>3 DEF CheckCanceled, Goto, Finally
    <3> QED
      BY <2>3, <3>1
  <2>4. CASE create_retry_run(t)
    BY <1>0, <2>4, SMTT(60) DEF create_retry_run
  <2>5. CASE ScheduleDelayed(t)
    BY <1>0, <2>5, SMTT(60) DEF ScheduleDelayed
  <2>6. CASE Del(t) \/ AckFails(t)
    BY <1>0, <2>6, SMTT(60) DEF Del, AckFails, Idle
  <2> QED
    BY <1>5, <2>1, <2>2, <2>3, <2>4, <2>5, <2>6 DEF TaskStep
<1>6. ASSUME NEW r \in DOMAIN runs, RunNext(r) PROVE task'[u] = task[u]
  <2>1. ASSUME NEW w \in Worker, cancel_listener(w, r) PROVE task'[u] = task[u]
    <3>1. inflight_by_run[w][r] \in Task \union {None}
      BY RowsLemma, SMTT(60) DEF IInv, TypeOK
    <3> QED
      BY <1>2, <2>1, <3>1 DEF cancel_listener
  <2> QED
    BY <1>6, <2>1 DEF RunNext, retry_run, cancel, requeue_orphans, enqueue_run, LoseEnqueue,
       Promote, dispatchVars
<1>7. ASSUME NEW j \in Jobs, trigger_job(j) PROVE task'[u] = task[u]
  BY <1>7 DEF trigger_job
<1> QED
  BY <1>1, <1>4, <1>5, <1>6, <1>7 DEF Next, vars, dispatchVars

(* Every step keeps the invariant. *)
LEMMA RetryWithinLimitNext ==
    ASSUME IInv, RetryWithinLimit, [Next]_vars
    PROVE  RetryWithinLimit'
<1> SUFFICES ASSUME NEW u \in Task, task'[u].pc = "retry"
             PROVE  runs'[task'[u].run].attempt <= max_retries[runs'[task'[u].run].job]
  BY DEF RetryWithinLimit, should_retry
<1>0. RowsKept /\ task \in [Task -> TaskRec]
  BY StepRefines DEF IInv, TypeOK
<1>1. CASE task'[u] = task[u]
  <2>1. task[u].run \in DOMAIN runs
    BY <1>1, TaskRow DEF ExecPc
  <2> QED
    BY <1>0, <1>1, <2>1 DEF RetryWithinLimit, should_retry, RowsKept
<1>2. CASE CheckCanceled(u)
  <2>0. task[u].pc = "check" /\ UNCHANGED runs
    BY <1>2 DEF CheckCanceled
  <2>1. ~Finally(u)
    BY <1>0 DEF Finally, Idle
  <2>2. PICK p \in {"retry", "finish"} : Goto(u, p) /\ (p = "retry" => should_retry(task[u].run))
    BY <1>2, <2>1 DEF CheckCanceled
  <2>3. task'[u].pc = p /\ task'[u].run = task[u].run
    BY <1>0, <2>2, GotoLemma DEF Pc
  <2> QED
    BY <2>0, <2>2, <2>3 DEF should_retry
<1> QED
  BY <1>1, <1>2, OnlyCheckRetries

(* No worker ever creates a retry beyond the job's max_retries, and the    *)
(* dispatch path as a whole only does to job_runs what RunLifecycle says:  *)
(* no run returns to the queue, canceled is final, only a claimed run gets *)
(* an outcome.                                                             *)
THEOREM Refinement == Spec => LifecycleSpec
<1>1. Init => RetryWithinLimit /\ Lifecycle!Init
  BY SMTT(60) DEF Init, Idle, RetryWithinLimit, Lifecycle!Init
<1>2. IInv /\ RetryWithinLimit /\ [Next]_vars => RetryWithinLimit'
  BY RetryWithinLimitNext
<1>3. IInv /\ RetryWithinLimit /\ [Next]_vars => [Lifecycle!Next]_runs
  BY StepRefines
<1> QED
  BY <1>1, <1>2, <1>3, Inductive, PTL DEF Spec, LifecycleSpec, Lifecycle!Spec

-----------------------------------------------------------------------------
(* What becomes of the runs of Dispatch if messages are reclaimed in time: *)
(* a run ends before its message has been idle for claim_min_idle_ms       *)
(* (Prompt).                                                               *)
(*                                                                         *)
(* The first half is about crashes. Failover loses no run, until a         *)
(* database or Redis call of a worker raises (faults = 0); crashes are     *)
(* unrestricted.                                                           *)
(*                                                                         *)
(* The second half is about undisturbed behaviours, where no process has   *)
(* crashed and no call has raised: a run is executed once, the worker      *)
(* schedules one retry of it, and its terminal status is final.            *)
(* FirstClaimOnce is not enough for that, for a reclaimed message may be   *)
(* claimed while its run is running. The invariant says why none is: the   *)
(* task that a pending message was delivered to is still there.            *)

(* For the instances in which runs end in time and no call raises:         *)
(* a message has at most one live task, and until that task acks it the    *)
(* message is pending.                                                     *)
OneTaskPerMessage ==
    \A t \in Task :
        /\ \A u \in Task : task[t].msg = task[u].msg /\ Live(t) => t = u
        /\ task[t].pc \notin {"idle", "del"} => task[t].msg \in pel
        /\ task[t].pc \in HoldsRun => run_of[task[t].msg] = task[t].run

(* The invariant of behaviours without faults. *)
RInv == OneTaskPerMessage /\ RunningIsRecoverable

(* The rows that are running after a step were running before it. *)
NoNewRunning ==
    \A q \in DOMAIN runs' :
        runs'[q].status = "running" => q \in DOMAIN runs /\ runs[q].status = "running"

(* A new row is not running. *)
LEMMA InsertNotRunning ==
    ASSUME IInv, NEW j \in Jobs, NEW n \in Nat \ {0}, NEW parent \in RunId \union {0},
           create_run(j, n, parent)
    PROVE  NoNewRunning
<1>0. runs \in Seq(JobRun)
  BY DEF IInv, TypeOK, RunStoreTypeOK
<1>1. /\ DOMAIN runs' = DOMAIN runs \union {Len(runs')}
      /\ \A q \in DOMAIN runs : runs'[q] = runs[q]
      /\ runs'[Len(runs')] = [job |-> j, status |-> "queued", attempt |-> n,
                              retry_of |-> parent]
  BY <1>0, CreateLemma
<1>2. runs'[Len(runs')].status = "queued"
  BY <1>1, SMTT(60)
<1> QED
  BY <1>1, <1>2 DEF NoNewRunning

(* A conditional UPDATE of one row. *)
LEMMA UpdateRow ==
    ASSUME IInv, NEW r \in DOMAIN runs, NEW from, NEW s \in RunStatus,
           UpdateStatusFrom(r, from, s)
    PROVE  /\ DOMAIN runs' = DOMAIN runs
           /\ \A q \in DOMAIN runs : q # r => runs'[q].status = runs[q].status
           /\ runs'[r].status = IF Status(r) \in from THEN s ELSE Status(r)
<1>0. runs \in Seq(JobRun)
  BY DEF IInv, TypeOK, RunStoreTypeOK
<1> QED
  BY <1>0, UpdateLemma

-----------------------------------------------------------------------------
(* Each kind of step keeps RInv.                                           *)

(* Neither the tasks nor the pending messages change. *)
LEMMA RowsOnly ==
    ASSUME IInv, RInv, NoNewRunning, UNCHANGED <<task, pel>>,
           \A m \in Msg : (m \in pel \/ \E t \in Task : task[t].msg = m) => run_of'[m] = run_of[m]
    PROVE  RInv'
<1>0. pel \subseteq Msg /\ \A t \in Task : task[t].pc \in HoldsRun => task[t].msg \in Msg
  BY LiveTask DEF IInv, TypeOK, RedisTypeOK, HoldsRun, ExecPc
<1>1. OneTaskPerMessage'
  BY <1>0 DEF RInv, OneTaskPerMessage, Live
<1>2. RunningIsRecoverable'
  BY <1>0, SMTT(60) DEF RInv, RunningIsRecoverable, NoNewRunning, WillSettle, Executing, Status
<1> QED
  BY <1>1, <1>2 DEF RInv

(* A task moves on inside process_run. *)
LEMMA Moves ==
    ASSUME IInv, RInv, NEW t \in Task, task[t].pc \in HoldsRun,
           \A u \in Task : u # t => task'[u] = task[u],
           task'[t].pc \in {"claim"} \union ExecPc,
           task'[t].pc = "claim" => task[t].pc = "sem",
           task'[t].msg = task[t].msg,
           task'[t].run = task[t].run,
           task'[t].allow_running = task[t].allow_running,
           UNCHANGED <<pel, run_of>>,
           NoNewRunning \/ (/\ task'[t].pc \in ExecPc
                            /\ DOMAIN runs' = DOMAIN runs
                            /\ \A q \in DOMAIN runs : q # task[t].run =>
                                    runs'[q].status = runs[q].status)
    PROVE  RInv'
<1>1. OneTaskPerMessage'
  BY SMTT(60) DEF RInv, OneTaskPerMessage, Live, HoldsRun, ExecPc
<1>2. \A u \in Task : task'[u].msg = task[u].msg /\ (WillSettle(u) => WillSettle(u)')
  BY DEF WillSettle, Executing, ExecPc
<1>3. RunningIsRecoverable'
  <2> SUFFICES ASSUME NEW q \in DOMAIN runs', runs'[q].status = "running"
               PROVE  \E m \in pel' : /\ run_of'[m] = q
                                      /\ \A u \in Task : task'[u].msg = m => WillSettle(u)'
    BY DEF RunningIsRecoverable, Status
  <2>1. CASE q \in DOMAIN runs /\ runs[q].status = "running"
    BY <1>2, <2>1, SMTT(60) DEF RInv, RunningIsRecoverable, Status
  <2>2. CASE q = task[t].run /\ task'[t].pc \in ExecPc
    <3>1. /\ task[t].msg \in pel
          /\ run_of[task[t].msg] = q
          /\ \A u \in Task : task[u].msg = task[t].msg => u = t
      BY <2>2 DEF RInv, OneTaskPerMessage, Live, HoldsRun, ExecPc
    <3>2. WillSettle(t)'
      BY <2>2 DEF WillSettle, Executing
    <3> QED
      BY <1>2, <3>1, <3>2, SMTT(60)
  <2> QED
    BY <2>1, <2>2 DEF NoNewRunning
<1> QED
  BY <1>1, <1>3 DEF RInv

(* A task leaves process_run: its run is not running, or the task is a     *)
(* duplicate that never was behind the run.                                *)
LEMMA Leaves ==
    ASSUME IInv, RInv, NEW t \in Task, task[t].pc \in {"claim"} \union ExecPc, Finally(t),
           NoNewRunning, UNCHANGED <<pel, run_of>>,
           \/ runs'[task[t].run].status # "running"
           \/ ~WillSettle(t)
    PROVE  RInv'
<1>0. /\ task[t].worker \in Worker /\ task[t].msg \in Msg
      /\ task[t].run \in DOMAIN runs /\ task[t].run \in RunId
      /\ task[t].pc \notin {"idle", "del"} /\ task[t].pc \in HoldsRun
  BY LiveTask DEF HoldsRun, ExecPc
<1>1. /\ \A u \in Task : u # t => task'[u] = task[u]
      /\ task'[t].pc = "ack"
      /\ task'[t].msg = task[t].msg
  BY <1>0, FinallyLemma DEF IInv
<1>2. OneTaskPerMessage'
  BY <1>0, <1>1, SMTT(60) DEF RInv, OneTaskPerMessage, Live, HoldsRun, ExecPc
<1>3. RunningIsRecoverable'
  <2> SUFFICES ASSUME NEW q \in DOMAIN runs', runs'[q].status = "running"
               PROVE  \E m \in pel' : /\ run_of'[m] = q
                                      /\ \A u \in Task : task'[u].msg = m => WillSettle(u)'
    BY DEF RunningIsRecoverable, Status
  <2>1. PICK m \in pel : /\ run_of[m] = q
                         /\ \A u \in Task : task[u].msg = m => WillSettle(u)
    BY DEF RInv, RunningIsRecoverable, NoNewRunning, Status
  <2>2. task[t].msg # m
    BY <1>0, <2>1 DEF RInv, OneTaskPerMessage
  <2>3. \A u \in Task : task'[u].msg = m => WillSettle(u)'
    BY <1>1, <2>1, <2>2 DEF WillSettle, Executing
  <2> QED
    BY <2>1, <2>3
<1> QED
  BY <1>2, <1>3 DEF RInv

(* Tasks that are not behind a running run end, by deleting their message  *)
(* or because their process dies.                                          *)
LEMMA Ends ==
    ASSUME IInv, RInv, NEW D \in SUBSET Task,
           \A u \in Task : task'[u] = IF u \in D THEN Idle ELSE task[u],
           UNCHANGED <<runs, pel>>,
           \A m \in Msg : run_of'[m] # run_of[m] =>
                \E t \in D : task[t].msg = m /\ task[t].pc = "del"
    PROVE  RInv'
<1>0. /\ Idle.pc = "idle" /\ Idle.msg = NoMsg
      /\ pel \subseteq Msg
      /\ NoMsg \notin Msg
      /\ \A u \in Task : task[u].pc \in HoldsRun => task[u].msg \in Msg
      /\ \A u \in Task : task[u].pc = "del" => task[u].msg \notin pel
  BY LiveTask, RedisQueueAssumption
  DEF Idle, IInv, TypeOK, RedisTypeOK, HoldsRun, ExecPc, HeldMessages
<1>a. \A u \in Task : task[u].pc # "idle" => task[u].msg \in Msg
  BY LiveTask
<1>1. OneTaskPerMessage'
  <2>1. \A u, v \in Task : (task'[u].msg = task'[v].msg /\ task'[u].pc # "idle") => u = v
    BY <1>0, <1>a, SMTT(60) DEF RInv, OneTaskPerMessage, Live
  <2>2. \A u \in Task : task'[u].pc \notin {"idle", "del"} => task'[u].msg \in pel'
    BY <1>0 DEF RInv, OneTaskPerMessage
  <2>3. \A u \in Task : task'[u].pc \in HoldsRun => run_of'[task'[u].msg] = task'[u].run
    BY <1>0, SMTT(60) DEF RInv, OneTaskPerMessage, HoldsRun, ExecPc, Live
  <2> QED
    BY <2>1, <2>2, <2>3 DEF OneTaskPerMessage, Live
<1>2. RunningIsRecoverable'
  <2> SUFFICES ASSUME NEW q \in DOMAIN runs, runs[q].status = "running"
               PROVE  \E m \in pel : /\ run_of'[m] = q
                                     /\ \A u \in Task : task'[u].msg = m => WillSettle(u)'
    BY DEF RunningIsRecoverable, Status
  <2>1. PICK m \in pel : /\ run_of[m] = q
                         /\ \A u \in Task : task[u].msg = m => WillSettle(u)
    BY DEF RInv, RunningIsRecoverable, Status
  <2>2. run_of'[m] = q
    BY <1>0, <2>1, SMTT(60)
  <2>3. \A u \in Task : task'[u].msg = m => WillSettle(u)'
    BY <1>0, <2>1, SMTT(60) DEF WillSettle, Executing
  <2> QED
    BY <2>1, <2>2, <2>3
<1> QED
  BY <1>1, <1>2 DEF RInv

(* A message that no live task holds is delivered: as new, so no run is    *)
(* behind it yet, or by a reclaim that may take over a running run.        *)
LEMMA Spawns ==
    ASSUME IInv, RInv, NEW t \in Task, NEW w \in Worker, NEW m \in Msg, NEW allow \in BOOLEAN,
           spawn(t, w, m, allow),
           \A u \in Task : task[u].msg # m,
           allow \/ m \notin pel,
           pel' = pel \union {m},
           UNCHANGED <<runs, run_of>>
    PROVE  RInv'
<1> DEFINE rec == [Idle EXCEPT !.pc = "sem", !.worker = w, !.msg = m, !.run = run_of[m],
                               !.allow_running = allow]
<1>1. /\ task[t] = Idle
      /\ task' = [task EXCEPT ![t] = rec]
      /\ task \in [Task -> TaskRec]
  BY DEF spawn, IInv, TypeOK
<1>2. /\ rec.pc = "sem" /\ rec.msg = m /\ rec.run = run_of[m]
      /\ rec.allow_running = allow
  BY DEF Idle
<1>3. task'[t] = rec /\ \A u \in Task : u # t => task'[u] = task[u]
  BY <1>1
<1>4. /\ task'[t].pc = "sem" /\ task'[t].msg = m /\ task'[t].run = run_of[m]
      /\ task'[t].allow_running = allow
  BY <1>2, <1>3
<1> HIDE DEF rec
<1>5. OneTaskPerMessage'
  <2>1. ASSUME NEW u \in Task, NEW v \in Task, task'[u].msg = task'[v].msg,
               task'[u].pc # "idle"
        PROVE  u = v
    <3>1. u # t /\ v # t => task'[u] = task[u] /\ task'[v] = task[v]
      BY <1>3
    <3>2. u = t \/ v = t => u = t /\ v = t
      BY <1>3, <1>4, <2>1
    <3> QED
      BY <2>1, <3>1, <3>2 DEF RInv, OneTaskPerMessage, Live
  <2>2. \A u \in Task : task'[u].pc \notin {"idle", "del"} => task'[u].msg \in pel'
    BY <1>3, <1>4 DEF RInv, OneTaskPerMessage
  <2>3. \A u \in Task : task'[u].pc \in HoldsRun => run_of'[task'[u].msg] = task'[u].run
    BY <1>3, <1>4 DEF RInv, OneTaskPerMessage
  <2> QED
    BY <2>1, <2>2, <2>3 DEF OneTaskPerMessage, Live
<1>6. RunningIsRecoverable'
  <2> SUFFICES ASSUME NEW q \in DOMAIN runs, runs[q].status = "running"
               PROVE  \E k \in pel' : /\ run_of[k] = q
                                      /\ \A u \in Task : task'[u].msg = k => WillSettle(u)'
    BY DEF RunningIsRecoverable, Status
  <2>1. PICK k \in pel : /\ run_of[k] = q
                         /\ \A u \in Task : task[u].msg = k => WillSettle(u)
    BY DEF RInv, RunningIsRecoverable, Status
  <2>2. ASSUME NEW u \in Task, task'[u].msg = k PROVE WillSettle(u)'
    <3>1. CASE u = t
      BY <1>4, <2>1, <2>2, <3>1 DEF WillSettle
    <3>2. CASE u # t
      BY <1>3, <2>1, <2>2, <3>2 DEF WillSettle, Executing
    <3> QED
      BY <3>1, <3>2
  <2> QED
    BY <2>1, <2>2
<1> QED
  BY <1>5, <1>6 DEF RInv

(* A task acks its message, which is not behind any running run. *)
LEMMA Acks ==
    ASSUME IInv, RInv, NEW t \in Task, Ack(t)
    PROVE  RInv'
<1>1. /\ task[t].pc = "ack"
      /\ pel' = pel \ {task[t].msg}
      /\ UNCHANGED <<runs, run_of>>
      /\ Goto(t, "del")
  BY DEF Ack, xack
<1>2. /\ \A u \in Task : u # t => task'[u] = task[u]
      /\ task'[t].pc = "del"
      /\ task'[t].msg = task[t].msg
  BY <1>1, GotoLemma DEF IInv, TypeOK, Pc
<1>3. OneTaskPerMessage'
  BY <1>1, <1>2, SMTT(60) DEF RInv, OneTaskPerMessage, Live, HoldsRun, ExecPc
<1>4. RunningIsRecoverable'
  <2> SUFFICES ASSUME NEW q \in DOMAIN runs, runs[q].status = "running"
               PROVE  \E k \in pel' : /\ run_of[k] = q
                                      /\ \A u \in Task : task'[u].msg = k => WillSettle(u)'
    BY <1>1 DEF RunningIsRecoverable, Status
  <2>1. PICK k \in pel : /\ run_of[k] = q
                         /\ \A u \in Task : task[u].msg = k => WillSettle(u)
    BY DEF RInv, RunningIsRecoverable, Status
  <2>2. k # task[t].msg
    BY <1>1, <2>1 DEF WillSettle, Executing, ExecPc
  <2>3. \A u \in Task : task'[u].msg = k => WillSettle(u)'
    BY <1>2, <2>1, <2>2 DEF WillSettle, Executing
  <2> QED
    BY <1>1, <2>1, <2>2, <2>3
<1> QED
  BY <1>3, <1>4 DEF RInv

-----------------------------------------------------------------------------
(* The actions.                                                            *)

(* The steps of the API and of the scheduler. *)
LEMMA ClientRecovers ==
    ASSUME IInv, RInv,
           \/ \E j \in Jobs : trigger_job(j)
           \/ \E r \in DOMAIN runs :
                \/ retry_run(r) \/ cancel(r) \/ requeue_orphans(r) \/ LoseEnqueue(r)
                \/ enqueue_run(r) \/ Promote(r)
    PROVE  RInv'
<1>0. UNCHANGED runs => NoNewRunning
  BY DEF NoNewRunning
<1>1. ASSUME NEW j \in Jobs, trigger_job(j) PROVE RInv'
  BY <1>1, InsertNotRunning, RowsOnly, SMTT(60) DEF trigger_job, redisVars
<1>2. ASSUME NEW r \in DOMAIN runs, retry_run(r) PROVE RInv'
  <2>1. runs[r] \in JobRun
    BY SMTT(60) DEF IInv, TypeOK, RunStoreTypeOK
  <2>2. runs[r].job \in Jobs /\ runs[r].attempt + 1 \in Nat \ {0}
    BY <2>1, SMTT(60) DEF JobRun
  <2>3. NoNewRunning
    BY <1>2, <2>2, InsertNotRunning DEF retry_run
  <2> QED
    BY <1>2, <2>3, RowsOnly DEF retry_run, redisVars
<1>3. ASSUME NEW r \in DOMAIN runs, cancel(r) PROVE RInv'
  <2>1. /\ DOMAIN runs' = DOMAIN runs
        /\ \A q \in DOMAIN runs : q # r => runs'[q].status = runs[q].status
        /\ runs'[r].status = "canceled"
    BY <1>3, UpdateRow DEF cancel, cancel_run, RunStatus, TERMINAL
  <2>2. NoNewRunning
    BY <2>1 DEF NoNewRunning
  <2> QED
    BY <1>3, <2>2, RowsOnly DEF cancel, redisVars
<1>4. ASSUME NEW r \in DOMAIN runs, requeue_orphans(r) \/ LoseEnqueue(r) PROVE RInv'
  BY <1>0, <1>4, RowsOnly DEF requeue_orphans, LoseEnqueue, redisVars
<1>5. ASSUME NEW r \in DOMAIN runs, enqueue_run(r) \/ Promote(r) PROVE RInv'
  <2>1. PICK m \in FreshMsg : xadd(m, r)
    BY <1>5 DEF enqueue_run, Promote, promote_due_delayed
  <2>2. UNCHANGED <<runs, task, pel>>
    BY <1>5 DEF enqueue_run, Promote, dispatchVars
  <2>3. m \notin pel /\ \A t \in Task : task[t].msg # m
    BY DEF FreshMsg, IInv, StreamIntegrity
  <2>4. \A k \in Msg : k # m => run_of'[k] = run_of[k]
    BY <2>1 DEF xadd, IInv, TypeOK, RedisTypeOK
  <2> QED
    BY <1>0, <2>2, <2>3, <2>4, RowsOnly
<1> QED
  BY <1>1, <1>2, <1>3, <1>4, <1>5

(* A message is delivered, and none that a live task holds. *)
LEMMA ReadRecovers ==
    ASSUME IInv, RInv, Prompt = TRUE, NEW w \in Worker, NEW t \in Task, NEW m \in Msg,
           ReadGroup(w, t, m) \/ reclaim_stale(w, t, m)
    PROVE  RInv'
<1>1. CASE ReadGroup(w, t, m)
  <2>1. queue \in Seq(Msg) /\ queue # <<>> /\ m = Head(queue)
    BY <1>1 DEF ReadGroup, xreadgroup, IInv, TypeOK, RedisTypeOK
  <2>2. 1 \in 1..Len(queue) /\ m = queue[1]
    BY <2>1, SMTT(60)
  <2>3. m \notin pel /\ \A u \in Task : task[u].msg # m
    BY <2>2 DEF IInv, StreamIntegrity, HeldMessages
  <2> QED
    BY <1>1, <2>3, Spawns DEF ReadGroup, xreadgroup
<1>2. CASE reclaim_stale(w, t, m)
  <2>1. /\ spawn(t, w, m, TRUE)
        /\ \A u \in Task : task[u].msg # m
        /\ pel' = pel \union {m}
        /\ UNCHANGED <<runs, run_of>>
    BY <1>2 DEF reclaim_stale, redisVars
  <2> QED
    BY <2>1, Spawns
<1> QED
  BY <1>1, <1>2

(* The cancel listener ends the task of a canceled run. *)
LEMMA ListenerRecovers ==
    ASSUME IInv, RInv, NEW w \in Worker, NEW r \in DOMAIN runs, cancel_listener(w, r)
    PROVE  RInv'
<1> DEFINE t == inflight_by_run[w][r]
<1>0. /\ r \in RunId
      /\ t \in Task \union {None}
      /\ <<w, r>> \in signals
      /\ UNCHANGED <<runs, pel, run_of>>
  BY RowsLemma, SMTT(60) DEF IInv, TypeOK, cancel_listener, redisVars
<1>1. runs'[r].status # "running" /\ NoNewRunning
  BY <1>0 DEF IInv, SignalsAreTrue, Status, NoNewRunning
<1>2. CASE t # None /\ Finally(t)
  <2>1. t \in Task /\ task[t].pc \in {"claim"} \union ExecPc /\ task[t].run = r
    BY <1>0, <1>2 DEF IInv, Registered
  <2> QED
    BY <1>0, <1>1, <1>2, <2>1, Leaves
<1>3. CASE UNCHANGED task
  BY <1>0, <1>1, <1>3, RowsOnly
<1> QED
  BY <1>2, <1>3 DEF cancel_listener

(* A task ends, or all those of a worker. *)
LEMMA EndRecovers ==
    ASSUME IInv, RInv, (\E t \in Task : Del(t)) \/ (\E w \in Worker : Crash(w))
    PROVE  RInv'
<1>0. task \in [Task -> TaskRec] /\ run_of \in [Msg -> RunId \union {0}]
  BY DEF IInv, TypeOK, RedisTypeOK
<1>1. ASSUME NEW t \in Task, Del(t) PROVE RInv'
  <2> DEFINE D == {t}
  <2>1. /\ task[t].pc = "del"
        /\ \A u \in Task : task'[u] = IF u \in D THEN Idle ELSE task[u]
        /\ \A m \in Msg : run_of'[m] # run_of[m] => m = task[t].msg
        /\ UNCHANGED <<runs, pel>>
    BY <1>0, <1>1 DEF Del, xdel
  <2>2. D \in SUBSET Task /\ t \in D
    OBVIOUS
  <2> HIDE DEF D
  <2> QED
    BY <2>1, <2>2, Ends
<1>2. ASSUME NEW w \in Worker, Crash(w) PROVE RInv'
  <2> DEFINE D == {u \in Task : task[u].worker = w}
  <2>1. /\ \A u \in Task : task'[u] = IF u \in D THEN Idle ELSE task[u]
        /\ UNCHANGED <<runs, pel, run_of>>
    BY <1>0, <1>2 DEF Crash, redisVars
  <2>2. D \in SUBSET Task
    OBVIOUS
  <2> HIDE DEF D
  <2> QED
    BY <2>1, <2>2, Ends
<1> QED
  BY <1>1, <1>2

(* The tasks inside process_run. *)
LEMMA TaskRecovers ==
    ASSUME IInv, RInv, NEW t \in Task,
           \/ Enter(t) \/ Claim(t) \/ (\E s \in Outcomes : Execute(t, s)) \/ CheckCanceled(t)
           \/ create_retry_run(t) \/ ScheduleDelayed(t) \/ FinishRun(t)
    PROVE  RInv'
<1> DEFINE r == task[t].run
           allow == task[t].allow_running
<1>pc. /\ task[t].pc \in HoldsRun
       /\ Enter(t) \/ task[t].pc \in {"claim"} \union ExecPc
  BY DEF Enter, Claim, Execute, CheckCanceled, create_retry_run, ScheduleDelayed, FinishRun,
         HoldsRun, ExecPc
<1>r. /\ task \in [Task -> TaskRec]
      /\ r \in DOMAIN runs /\ r \in RunId
      /\ runs[r] \in JobRun
      /\ Status(r) # "pending"
      /\ task[t].pc \in ExecPc \ {"exec"} => task[t].result \in Outcomes
  <2>1. r \in DOMAIN runs /\ r \in RunId
    BY <1>pc, LiveTask DEF HoldsRun, ExecPc
  <2>0. task \in [Task -> TaskRec] /\ RunStoreTypeOK
    BY DEF IInv, TypeOK
  <2>2. runs[r] \in JobRun
    BY <2>0, <2>1, RowType
  <2>3. Status(r) # "pending"
    BY <2>1 DEF IInv, ExecutedWasClaimed
  <2>4. task[t].pc \in ExecPc \ {"exec"} => task[t].result \in Outcomes
    BY DEF IInv, TaskRefs
  <2> QED
    BY <2>0, <2>1, <2>2, <2>3, <2>4
<1>0. UNCHANGED runs => NoNewRunning
  BY DEF NoNewRunning
<1>g. ASSUME NEW p \in {"claim"} \union ExecPc, Goto(t, p), p = "claim" => task[t].pc = "sem",
             UNCHANGED <<pel, run_of>>,
             NoNewRunning \/ (/\ p \in ExecPc
                              /\ DOMAIN runs' = DOMAIN runs
                              /\ \A q \in DOMAIN runs : q # r => runs'[q].status = runs[q].status)
      PROVE  RInv'
  <2>1. /\ \A u \in Task : u # t => task'[u] = task[u]
        /\ task'[t].pc = p
        /\ task'[t].msg = task[t].msg
        /\ task'[t].run = task[t].run
        /\ task'[t].allow_running = task[t].allow_running
    <3>1. p \in Pc
      BY DEF Pc, ExecPc
    <3> QED
      BY <1>r, <1>g, <3>1, GotoLemma
  <2> QED
    BY <1>g, <1>pc, <2>1, Moves
<1>1. CASE Enter(t)
  BY <1>0, <1>1, <1>g DEF Enter, redisVars
<1>2. CASE Claim(t)
  <2>1. /\ task[t].pc = "claim"
        /\ UpdateStatusFrom(r, Claimable(allow), "running")
        /\ UNCHANGED <<pel, run_of>>
    BY <1>2 DEF Claim, claim_run, redisVars
  <2>2. /\ DOMAIN runs' = DOMAIN runs
        /\ \A q \in DOMAIN runs : q # r => runs'[q].status = runs[q].status
        /\ runs'[r].status = IF Status(r) \in Claimable(allow) THEN "running" ELSE Status(r)
    <3>1. "running" \in RunStatus
      BY DEF RunStatus, ACTIVE
    <3> QED
      BY <1>r, <2>1, <3>1, UpdateRow
  <2>3. CASE Status(r) \in Claimable(allow) /\ Goto(t, "exec")
    BY <2>1, <2>2, <2>3, <1>g DEF ExecPc
  <2>4. CASE Status(r) \notin Claimable(allow) /\ Finally(t)
    <3>1. NoNewRunning
      BY <2>2, <2>4 DEF NoNewRunning, Status
    <3>2. runs'[r].status # "running" \/ ~WillSettle(t)
      BY <2>1, <2>2, <2>4 DEF Claimable, ACTIVE, WillSettle, Executing, ExecPc
    <3> QED
      BY <2>1, <2>4, <3>1, <3>2, Leaves
  <2> QED
    BY <1>2, <2>3, <2>4 DEF Claim
<1>3. CASE \E s \in Outcomes : Execute(t, s)
  <2>0. PICK s \in Outcomes : Execute(t, s)
    BY <1>3
  <2> DEFINE rec == [task[t] EXCEPT !.pc = "check", !.result = s]
  <2>1. task[t] \in TaskRec /\ task' = [task EXCEPT ![t] = rec]
    <3>1. task[t] \in TaskRec
      BY <1>r
    <3>2. task' = [task EXCEPT ![t] = rec]
      BY <2>0 DEF Execute
    <3> QED
      BY <3>1, <3>2
  <2>2. /\ \A u \in Task : u # t => task'[u] = task[u]
        /\ task'[t].pc = "check"
        /\ task'[t].msg = task[t].msg
        /\ task'[t].run = task[t].run
        /\ task'[t].allow_running = task[t].allow_running
    BY <1>r, <2>1 DEF TaskRec
  <2>3. UNCHANGED <<runs, pel, run_of>>
    BY <2>0 DEF Execute, redisVars
  <2> QED
    BY <1>0, <1>pc, <2>2, <2>3, Moves DEF ExecPc
<1>4. CASE CheckCanceled(t)
  <2>1. task[t].pc = "check" /\ UNCHANGED <<runs, pel, run_of>>
    BY <1>4 DEF CheckCanceled, redisVars
  <2>2. CASE is_run_canceled(r) /\ Finally(t)
    <3>1. runs'[r].status # "running"
      BY <2>1, <2>2 DEF is_run_canceled, Status
    <3> QED
      BY <1>0, <2>1, <2>2, <3>1, Leaves DEF ExecPc
  <2>3. ASSUME NEW p \in {"retry", "finish"}, Goto(t, p) PROVE RInv'
    BY <1>0, <2>1, <2>3, <1>g DEF ExecPc
  <2> QED
    BY <1>4, <2>2, <2>3 DEF CheckCanceled
<1>5. CASE create_retry_run(t)
  <2>0. runs[r].job \in Jobs /\ runs[r].attempt + 1 \in Nat \ {0}
    BY <1>r, SMTT(60) DEF JobRun
  <2>1. NoNewRunning
    BY <1>r, <1>5, <2>0, InsertNotRunning DEF create_retry_run
  <2> DEFINE n == Len(runs')
             rec == [task[t] EXCEPT !.pc = "delay", !.new_id = n]
  <2>2. task[t] \in TaskRec /\ task' = [task EXCEPT ![t] = rec]
    BY <1>r, <1>5 DEF create_retry_run
  <2> HIDE DEF n
  <2>3. /\ \A u \in Task : u # t => task'[u] = task[u]
        /\ task'[t].pc = "delay"
        /\ task'[t].msg = task[t].msg
        /\ task'[t].run = task[t].run
        /\ task'[t].allow_running = task[t].allow_running
    BY <1>r, <2>2 DEF TaskRec
  <2>4. UNCHANGED <<pel, run_of>>
    BY <1>5 DEF create_retry_run, redisVars
  <2> QED
    BY <1>pc, <2>1, <2>3, <2>4, Moves DEF ExecPc
<1>6. CASE ScheduleDelayed(t)
  <2> DEFINE rec == [task[t] EXCEPT !.pc = "finish", !.new_id = 0]
  <2>1. task[t] \in TaskRec /\ task' = [task EXCEPT ![t] = rec]
    BY <1>r, <1>6 DEF ScheduleDelayed
  <2>2. /\ \A u \in Task : u # t => task'[u] = task[u]
        /\ task'[t].pc = "finish"
        /\ task'[t].msg = task[t].msg
        /\ task'[t].run = task[t].run
        /\ task'[t].allow_running = task[t].allow_running
    BY <1>r, <2>1 DEF TaskRec
  <2>3. UNCHANGED <<runs, pel, run_of>>
    BY <1>6 DEF ScheduleDelayed
  <2> QED
    BY <1>0, <1>pc, <2>2, <2>3, Moves DEF ExecPc
<1>7. CASE FinishRun(t)
  <2>1. /\ task[t].pc = "finish"
        /\ UpdateStatusFrom(r, RunStatus \ {"canceled"}, task[t].result)
        /\ Finally(t)
        /\ UNCHANGED <<pel, run_of>>
    BY <1>7 DEF FinishRun, finish_run, redisVars
  <2>2. task[t].result \in RunStatus \ {"running"} /\ Status(r) \in RunStatus
    BY <1>r, <2>1, DispatchAssumption DEF RunStatus, ACTIVE, TERMINAL, ExecPc, JobRun, Status
  <2>3. /\ DOMAIN runs' = DOMAIN runs
        /\ \A q \in DOMAIN runs : q # r => runs'[q].status = runs[q].status
        /\ runs'[r].status # "running"
    <3>1. /\ DOMAIN runs' = DOMAIN runs
          /\ \A q \in DOMAIN runs : q # r => runs'[q].status = runs[q].status
          /\ runs'[r].status = IF Status(r) \in RunStatus \ {"canceled"} THEN task[t].result ELSE Status(r)
      BY <1>r, <2>1, <2>2, UpdateRow
    <3>2. Status(r) \notin RunStatus \ {"canceled"} => Status(r) = "canceled"
      BY <2>2
    <3>3. runs'[r].status # "running"
      BY <2>2, <3>1, <3>2
    <3> QED
      BY <3>1, <3>3
  <2>4. NoNewRunning
    BY <2>3 DEF NoNewRunning
  <2> QED
    BY <2>1, <2>3, <2>4, Leaves DEF ExecPc
<1> QED
  BY <1>1, <1>2, <1>3, <1>4, <1>5, <1>6, <1>7

-----------------------------------------------------------------------------
(* A failing call is counted, and nothing else changes the count.          *)
LEMMA FaultsCount ==
    ASSUME IInv, [Next]_vars, faults' = 0
    PROVE  faults = 0 /\ \A t \in Task : ~CallFails(t) /\ ~AckFails(t)
<1>0. faults \in Nat
  BY DispatchAssumption, SMTT(60) DEF IInv, TypeOK
<1>1. \A t \in Task : ~CallFails(t) /\ ~AckFails(t)
  BY <1>0, SMTT(60) DEF CallFails, AckFails
<1>2. CASE UNCHANGED vars
  BY <1>1, <1>2 DEF vars
<1>3. ASSUME NEW j \in Jobs, trigger_job(j) PROVE faults' = faults
  BY <1>3 DEF trigger_job
<1>4. ASSUME NEW r \in DOMAIN runs, RunNext(r) PROVE faults' = faults
  BY <1>4 DEF RunNext, retry_run, cancel, requeue_orphans, enqueue_run, LoseEnqueue, Promote,
              cancel_listener
<1>5. ASSUME NEW w \in Worker, Read(w) \/ Reclaim(w) \/ Crash(w) PROVE faults' = faults
  BY <1>5 DEF Read, Reclaim, Crash, ReadGroup, reclaim_stale
<1>6. ASSUME NEW t \in Task, TaskStep(t) PROVE faults' = faults
  BY <1>6 DEF TaskStep, Enter, Claim, Execute, CheckCanceled, create_retry_run,
              ScheduleDelayed, FinishRun, Ack, Del
<1> QED
  BY <1>1, <1>2, <1>3, <1>4, <1>5, <1>6 DEF Next

(* worker/main.py: "so no run is lost".  Behind every running run there is *)
(* an unacked message that failover can take over, through any number of   *)
(* worker, API and scheduler crashes, if runs end in time and until a call *)
(* of a worker raises.                                                     *)
THEOREM Failover ==
    ASSUME Prompt = TRUE
    PROVE  Spec => []RecoverableWithoutFaults
<1> DEFINE J == faults = 0 => RInv
<1>1. Init => J
  <2> SUFFICES ASSUME Init PROVE RInv
    OBVIOUS
  <2>1. /\ \A t \in Task : task[t].pc = "idle"
        /\ DOMAIN runs = {}
    BY SMTT(60) DEF Init, Idle
  <2> QED
    BY <2>1 DEF RInv, OneTaskPerMessage, RunningIsRecoverable, Live, HoldsRun, ExecPc
<1>2. IInv /\ J /\ [Next]_vars => J'
  <2> SUFFICES ASSUME IInv, J, [Next]_vars, faults' = 0 PROVE RInv'
    OBVIOUS
  <2>0. RInv /\ \A t \in Task : ~CallFails(t) /\ ~AckFails(t)
    BY FaultsCount
  <2>1. CASE UNCHANGED vars
    BY <2>0, <2>1, SMTT(60) DEF vars, dispatchVars, redisVars, RInv, OneTaskPerMessage, RunningIsRecoverable,
       Live, WillSettle, Executing, Status
  <2>2. ASSUME NEW j \in Jobs, trigger_job(j) PROVE RInv'
    BY <2>0, <2>2, ClientRecovers
  <2>3. ASSUME NEW r \in DOMAIN runs, RunNext(r) PROVE RInv'
    BY <2>0, <2>3, ClientRecovers, ListenerRecovers DEF RunNext
  <2>4. ASSUME NEW w \in Worker, Read(w) \/ Reclaim(w) \/ Crash(w) PROVE RInv'
    BY <2>0, <2>4, ReadRecovers, EndRecovers DEF Read, Reclaim
  <2>5. ASSUME NEW t \in Task, TaskStep(t) \/ CallFails(t) \/ AckFails(t) PROVE RInv'
    BY <2>0, <2>5, TaskRecovers, Acks, EndRecovers DEF TaskStep
  <2> QED
    BY <2>1, <2>2, <2>3, <2>4, <2>5 DEF Next
<1>3. J => RecoverableWithoutFaults
  BY DEF RInv, RecoverableWithoutFaults
<1> QED
  BY <1>1, <1>2, <1>3, Inductive, PTL DEF Spec

-----------------------------------------------------------------------------
(* Undisturbed behaviours.                                                 *)

(* An unacked message belongs to the task it was delivered to. *)
PendingIsHeld == \A m \in pel : \E t \in Task : task[t].msg = m

(* No task stems from a reclaim. *)
NoneReclaimed == \A t \in Task : ~task[t].allow_running

(* The run of a task that executes is running, unless it was canceled. *)
ExecutedIsRunning ==
    \A t \in Task : Executing(t) => Status(task[t].run) \in {"running", "canceled"}

(* A run that has a retry is not executed again. *)
RetriedIsDone ==
    \A b \in DOMAIN runs :
        runs[b].retry_of # 0 =>
            /\ runs[b].retry_of \in DOMAIN runs
            /\ Status(runs[b].retry_of) # "queued"
            /\ \A t \in Task : (Executing(t) /\ task[t].run = runs[b].retry_of) =>
                                    task[t].pc \in {"delay", "finish"}

(* No run has two retries that the worker scheduled. *)
RetriedOnce ==
    \A a, b \in DOMAIN runs :
        runs[a].retry_of = runs[b].retry_of => runs[a].retry_of = 0 \/ a = b

(* The invariant of undisturbed behaviours. *)
UInv ==
    /\ PendingIsHeld
    /\ NoneReclaimed
    /\ ExecutedIsRunning
    /\ RetriedIsDone
    /\ RetriedOnce

(* No transaction of the step changes a terminal status. *)
TerminalKept ==
    \A r \in DOMAIN runs : Status(r) \in TERMINAL => runs'[r].status = Status(r)

(* Of the tasks that no reclaim made, the first claim lets one through. *)
LEMMA NoDouble ==
    ASSUME IInv, NoneReclaimed
    PROVE  NoDoubleExecution
BY DEF IInv, NoneReclaimed, FirstClaimOnce, NoDoubleExecution

-----------------------------------------------------------------------------
(* The steps that neither start nor end an execution.                      *)

(* Rows are claimed, canceled or added, none of them as a retry. *)
RowsCalm ==
    /\ DOMAIN runs \subseteq DOMAIN runs'
    /\ \A q \in DOMAIN runs :
        /\ runs'[q].retry_of = runs[q].retry_of
        /\ \/ runs'[q].status = runs[q].status
           \/ runs[q].status \in ACTIVE /\ runs'[q].status = "canceled"
           \/ runs[q].status = "queued" /\ runs'[q].status = "running"
    /\ \A q \in DOMAIN runs' : q \in DOMAIN runs \/ runs'[q].retry_of = 0

(* No task starts to execute a run, or goes back behind the retry. *)
TasksCalm ==
    /\ \A u \in Task : ~task'[u].allow_running
    /\ \A u \in Task : task'[u].pc \in ExecPc =>
        /\ task[u].pc \in ExecPc
        /\ task'[u].run = task[u].run
        /\ task[u].pc \in {"delay", "finish"} => task'[u].pc \in {"delay", "finish"}

(* A calm step keeps the invariant. *)
LEMMA CalmStep ==
    ASSUME IInv, UInv, RowsCalm, TasksCalm, PendingIsHeld'
    PROVE  UInv' /\ TerminalKept
<1>1. NoneReclaimed'
  BY DEF NoneReclaimed, TasksCalm
<1>2. ExecutedIsRunning'
  <2> SUFFICES ASSUME NEW t \in Task, task'[t].pc \in ExecPc
               PROVE  runs'[task'[t].run].status \in {"running", "canceled"}
    BY DEF ExecutedIsRunning, Executing, Status
  <2>1. task[t].pc \in ExecPc /\ task'[t].run = task[t].run
    BY DEF TasksCalm
  <2>2. task[t].run \in DOMAIN runs
    BY <2>1 DEF IInv, TaskRefs, HoldsRun
  <2>3. runs[task[t].run].status \in {"running", "canceled"}
    BY <2>1 DEF UInv, ExecutedIsRunning, Executing, Status
  <2> QED
    BY <2>1, <2>2, <2>3 DEF RowsCalm
<1>3. RetriedIsDone'
  <2> SUFFICES ASSUME NEW b \in DOMAIN runs', runs'[b].retry_of # 0
               PROVE  /\ runs'[b].retry_of \in DOMAIN runs'
                      /\ runs'[runs'[b].retry_of].status # "queued"
                      /\ \A t \in Task :
                            (task'[t].pc \in ExecPc /\ task'[t].run = runs'[b].retry_of) =>
                                task'[t].pc \in {"delay", "finish"}
    BY DEF RetriedIsDone, Executing, Status
  <2> DEFINE r == runs[b].retry_of
  <2>1. b \in DOMAIN runs /\ runs'[b].retry_of = r
    BY DEF RowsCalm
  <2>2. /\ r \in DOMAIN runs
        /\ runs[r].status # "queued"
        /\ \A t \in Task : (task[t].pc \in ExecPc /\ task[t].run = r) =>
                                task[t].pc \in {"delay", "finish"}
    BY <2>1 DEF UInv, RetriedIsDone, Executing, Status
  <2> HIDE DEF r
  <2>3. r \in DOMAIN runs' /\ runs'[r].status # "queued"
    BY <2>2 DEF RowsCalm
  <2>4. \A t \in Task : (task'[t].pc \in ExecPc /\ task'[t].run = r) =>
                                task'[t].pc \in {"delay", "finish"}
    BY <2>2 DEF TasksCalm
  <2> QED
    BY <2>1, <2>3, <2>4
<1>4. RetriedOnce'
  BY DEF UInv, RetriedOnce, RowsCalm
<1>5. TerminalKept
  BY DEF TerminalKept, RowsCalm, Status, ACTIVE, TERMINAL
<1> QED
  BY <1>1, <1>2, <1>3, <1>4, <1>5 DEF UInv

(* No transaction. *)
LEMMA CalmSame ==
    ASSUME UNCHANGED runs
    PROVE  RowsCalm
BY DEF RowsCalm

(* A row is inserted that is nobody's retry. *)
LEMMA CalmCreate ==
    ASSUME IInv, NEW j \in Jobs, NEW n \in Nat \ {0}, create_run(j, n, 0)
    PROVE  RowsCalm
<1>1. /\ DOMAIN runs' = DOMAIN runs \union {Len(runs')}
      /\ \A q \in DOMAIN runs : runs'[q] = runs[q]
      /\ runs'[Len(runs')] = [job |-> j, status |-> "queued", attempt |-> n, retry_of |-> 0]
  BY CreateLemma DEF IInv, TypeOK, RunStoreTypeOK
<1>2. \A q \in DOMAIN runs' : q \in DOMAIN runs \/ runs'[q].retry_of = 0
  <2>1. runs'[Len(runs')].retry_of = 0
    BY <1>1, SMTT(60)
  <2>2. DOMAIN runs' = DOMAIN runs \union {Len(runs')}
    BY <1>1
  <2> QED
    BY <2>1, <2>2
<1>3. /\ DOMAIN runs \subseteq DOMAIN runs'
      /\ \A q \in DOMAIN runs : runs'[q] = runs[q]
  BY <1>1
<1> QED
  BY <1>2, <1>3 DEF RowsCalm

(* A queued run is claimed, or an active one is canceled. *)
LEMMA CalmUpdate ==
    ASSUME IInv, NEW r \in DOMAIN runs, NEW from, NEW s \in {"running", "canceled"},
           UpdateStatusFrom(r, from, s),
           from = IF s = "running" THEN {"pending", "queued"} ELSE ACTIVE
    PROVE  RowsCalm
<1>1. /\ DOMAIN runs' = DOMAIN runs
      /\ \A q \in DOMAIN runs : q # r => runs'[q] = runs[q]
      /\ runs'[r].status = IF Status(r) \in from THEN s ELSE Status(r)
      /\ runs'[r].retry_of = runs[r].retry_of
  BY UpdateLemma DEF IInv, TypeOK, RunStoreTypeOK, RunStatus, ACTIVE, TERMINAL
<1>2. Status(r) # "pending"
  BY DEF IInv, ExecutedWasClaimed
<1> QED
  BY <1>1, <1>2 DEF RowsCalm, Status

(* Task t leaves process_run or never was in it; the others stay. *)
LEMMA CalmLeave ==
    ASSUME UInv, NEW t \in Task, ~task'[t].allow_running, task'[t].pc \notin ExecPc,
           \A u \in Task : u # t => task'[u] = task[u]
    PROVE  TasksCalm
BY DEF UInv, NoneReclaimed, TasksCalm

(* Task t goes on inside process_run. *)
LEMMA CalmMove ==
    ASSUME UInv, NEW t \in Task, TaskMoves(t), task[t].pc \in ExecPc,
           task[t].pc \in {"delay", "finish"} => task'[t].pc \in {"delay", "finish"}
    PROVE  TasksCalm
BY DEF UInv, NoneReclaimed, TasksCalm, TaskMoves

(* No task drops its message, and nothing is delivered. *)
LEMMA HeldStep ==
    ASSUME UInv, pel' \subseteq pel, \A u \in Task : task'[u].msg = task[u].msg
    PROVE  PendingIsHeld'
BY DEF UInv, PendingIsHeld

(* The finally block: the task keeps its message only. *)
LEMMA CalmFinally ==
    ASSUME IInv, UInv, NEW t \in Task, Finally(t)
    PROVE  TasksCalm /\ \A u \in Task : task'[u].msg = task[u].msg
<1> DEFINE rec == [Idle EXCEPT !.pc = "ack", !.worker = task[t].worker, !.msg = task[t].msg]
<1>1. rec.pc = "ack" /\ ~rec.allow_running /\ rec.msg = task[t].msg
  BY DEF Idle
<1>2. task' = [task EXCEPT ![t] = rec] /\ task \in [Task -> TaskRec]
  BY DEF Finally, IInv, TypeOK
<1> HIDE DEF rec
<1>3. task'[t] = rec /\ \A u \in Task : u # t => task'[u] = task[u]
  BY <1>2
<1>4. TasksCalm
  BY <1>1, <1>3, CalmLeave DEF ExecPc
<1> QED
  BY <1>1, <1>3, <1>4

(* A task goes to an await outside of the execution. *)
LEMMA CalmGoto ==
    ASSUME IInv, UInv, NEW t \in Task, NEW p \in Pc \ ExecPc, Goto(t, p)
    PROVE  TasksCalm /\ \A u \in Task : task'[u].msg = task[u].msg
<1>1. /\ \A u \in Task : u # t => task'[u] = task[u]
      /\ task'[t].pc = p
      /\ task'[t].msg = task[t].msg
      /\ task'[t].allow_running = task[t].allow_running
  BY GotoLemma DEF IInv, TypeOK
<1>2. TasksCalm
  BY <1>1, CalmLeave DEF UInv, NoneReclaimed
<1> QED
  BY <1>1, <1>2

-----------------------------------------------------------------------------
(* The steps of the API, of the scheduler and of the worker loops.         *)

(* The API and the scheduler start and end no execution. *)
LEMMA OnceClient ==
    ASSUME IInv, UInv,
           \/ \E j \in Jobs : trigger_job(j)
           \/ \E r \in DOMAIN runs : \/ retry_run(r) \/ cancel(r) \/ requeue_orphans(r)
                                     \/ enqueue_run(r) \/ Promote(r)
    PROVE  UInv' /\ TerminalKept
<1>1. task' = task /\ pel' = pel
  BY DEF trigger_job, retry_run, cancel, requeue_orphans, enqueue_run, Promote, redisVars,
         dispatchVars
<1>2. TasksCalm /\ PendingIsHeld'
  BY <1>1 DEF UInv, NoneReclaimed, PendingIsHeld, TasksCalm
<1>3. ASSUME NEW j \in Jobs, trigger_job(j) PROVE RowsCalm
  <2>1. create_run(j, 1, 0) /\ 1 \in Nat \ {0}
    BY <1>3, SMTT(60) DEF trigger_job
  <2> QED
    BY <2>1, CalmCreate
<1>4. ASSUME NEW r \in DOMAIN runs, retry_run(r) PROVE RowsCalm
  <2>1. runs[r].job \in Jobs /\ runs[r].attempt + 1 \in Nat \ {0}
    <3>1. runs[r] \in JobRun
      BY SMTT(60) DEF IInv, TypeOK, RunStoreTypeOK
    <3> QED
      BY <3>1, SMTT(60) DEF JobRun
  <2>2. create_run(runs[r].job, runs[r].attempt + 1, 0)
    BY <1>4 DEF retry_run
  <2> QED
    BY <2>1, <2>2, CalmCreate
<1>5. ASSUME NEW r \in DOMAIN runs, cancel(r) PROVE RowsCalm
  BY <1>5, CalmUpdate DEF cancel, cancel_run
<1>6. ASSUME NEW r \in DOMAIN runs, requeue_orphans(r) \/ enqueue_run(r) \/ Promote(r)
      PROVE  RowsCalm
  BY <1>6, CalmSame DEF requeue_orphans, enqueue_run, Promote
<1>7. RowsCalm
  BY <1>3, <1>4, <1>5, <1>6
<1> QED
  BY <1>2, <1>7, CalmStep

(* A message is delivered once as new; none is there to be reclaimed. *)
LEMMA OnceLoops ==
    ASSUME Prompt, IInv, UInv, NEW w \in Worker, NEW t \in Task, NEW m \in Msg,
           ReadGroup(w, t, m) \/ reclaim_stale(w, t, m)
    PROVE  UInv' /\ TerminalKept
<1>1. ~reclaim_stale(w, t, m)
  BY DEF reclaim_stale, UInv, PendingIsHeld
<1> DEFINE rec == [Idle EXCEPT !.pc = "sem", !.worker = w, !.msg = m, !.run = run_of[m],
                               !.allow_running = FALSE]
<1>2. rec.pc = "sem" /\ rec.msg = m /\ ~rec.allow_running /\ Idle.msg = NoMsg
  BY DEF Idle
<1>3. /\ task[t] = Idle /\ task' = [task EXCEPT ![t] = rec]
      /\ pel' = pel \union {m} /\ runs' = runs
  BY <1>1 DEF ReadGroup, spawn, xreadgroup
<1> HIDE DEF rec
<1>4. task'[t] = rec /\ \A u \in Task : u # t => task'[u] = task[u]
  BY <1>3 DEF IInv, TypeOK
<1>5. TasksCalm
  BY <1>2, <1>4, CalmLeave DEF ExecPc
<1>6. PendingIsHeld'
  <2> SUFFICES ASSUME NEW x \in pel' PROVE \E u \in Task : task'[u].msg = x
    BY DEF PendingIsHeld
  <2>1. CASE x = m
    BY <1>2, <1>4, <2>1
  <2>2. CASE x # m
    <3>1. x \in pel /\ x \in Msg
      BY <1>3, <2>2 DEF IInv, TypeOK, RedisTypeOK
    <3>2. PICK u \in Task : task[u].msg = x
      BY <3>1 DEF UInv, PendingIsHeld
    <3>3. u # t
      BY <1>2, <1>3, <3>1, <3>2, RedisQueueAssumption
    <3> QED
      BY <1>4, <3>2, <3>3
  <2> QED
    BY <2>1, <2>2
<1> QED
  BY <1>3, <1>5, <1>6, CalmSame, CalmStep

(* The listener takes the task registered for a canceled run out of        *)
(* process_run.                                                            *)
LEMMA OnceListener ==
    ASSUME IInv, UInv, NEW w \in Worker, NEW r \in DOMAIN runs, cancel_listener(w, r)
    PROVE  UInv' /\ TerminalKept
<1>1. runs' = runs /\ pel' = pel
  BY DEF cancel_listener, redisVars
<1>2. TasksCalm /\ \A u \in Task : task'[u].msg = task[u].msg
  <2>1. CASE inflight_by_run[w][r] = None
    BY <2>1 DEF cancel_listener, UInv, NoneReclaimed, TasksCalm
  <2>2. CASE inflight_by_run[w][r] # None
    <3>0. r \in RunId
      BY RowsLemma DEF IInv, TypeOK
    <3>1. inflight_by_run[w][r] \in Task
      BY <2>2, <3>0 DEF IInv, TypeOK
    <3> QED
      BY <2>2, <3>1, CalmFinally DEF cancel_listener
  <2> QED
    BY <2>1, <2>2
<1> QED
  BY <1>1, <1>2, CalmSame, HeldStep, CalmStep

-----------------------------------------------------------------------------
(* The steps of a task.                                                    *)

(* claim_run: of the tasks of a queued run one gets to execute it, and a   *)
(* run that has a retry is not queued.                                     *)
LEMMA OnceClaim ==
    ASSUME IInv, UInv, NEW t \in Task, Claim(t)
    PROVE  UInv' /\ TerminalKept
<1> DEFINE r == task[t].run
<1>0. /\ task[t].pc = "claim" /\ ~task[t].allow_running
      /\ pel' = pel
      /\ UpdateStatusFrom(r, {"pending", "queued"}, "running")
  BY DEF Claim, claim_run, Claimable, UInv, NoneReclaimed, redisVars
<1>1. r \in DOMAIN runs /\ Status(r) # "pending"
  BY <1>0, TaskRun
<1>2. RowsCalm
  BY <1>0, <1>1, CalmUpdate
<1>3. CASE Finally(t)
  <2>1. TasksCalm /\ \A u \in Task : task'[u].msg = task[u].msg
    BY <1>3, CalmFinally
  <2> QED
    BY <1>0, <1>2, <2>1, HeldStep, CalmStep
<1>4. CASE Status(r) \in Claimable(task[t].allow_running) /\ Goto(t, "exec")
  <2>1. Status(r) = "queued"
    BY <1>0, <1>1, <1>4 DEF Claimable
  <2>2. /\ \A u \in Task : u # t => task'[u] = task[u]
        /\ task'[t].pc = "exec" /\ task'[t].run = r /\ task'[t].msg = task[t].msg
        /\ ~task'[t].allow_running
    BY <1>0, <1>4, GotoLemma DEF IInv, TypeOK, Pc
  <2>3. runs'[r].status = "running"
    <3>1. runs \in Seq(JobRun) /\ "running" \in RunStatus
      BY DEF IInv, TypeOK, RunStoreTypeOK, RunStatus, ACTIVE
    <3>2. runs'[r].status = IF Status(r) \in {"pending", "queued"} THEN "running" ELSE Status(r)
      BY <1>0, <1>1, <3>1, UpdateLemma
    <3> QED
      BY <2>1, <3>2
  <2>4. \A u \in Task : Executing(u) => task[u].run # r
    BY <2>1 DEF IInv, ExecutedWasClaimed
  <2> HIDE DEF r
  <2>5. PendingIsHeld' /\ NoneReclaimed'
    <3>1. \A u \in Task : task'[u].msg = task[u].msg /\ ~task'[u].allow_running
      BY <2>2 DEF UInv, NoneReclaimed
    <3>2. \A m \in pel : \E u \in Task : task[u].msg = m
      BY DEF UInv, PendingIsHeld
    <3> QED
      BY <1>0, <3>1, <3>2 DEF PendingIsHeld, NoneReclaimed
  <2>6. ExecutedIsRunning'
    <3> SUFFICES ASSUME NEW u \in Task, u # t, task[u].pc \in ExecPc
                 PROVE  runs'[task[u].run].status \in {"running", "canceled"}
      BY <2>2, <2>3 DEF ExecutedIsRunning, Executing, Status
    <3>1. task[u].run \in DOMAIN runs
      BY DEF IInv, TaskRefs, HoldsRun
    <3>2. runs[task[u].run].status \in {"running", "canceled"}
      BY DEF UInv, ExecutedIsRunning, Executing, Status
    <3> QED
      BY <1>2, <3>1, <3>2 DEF RowsCalm
  <2>7. RetriedIsDone'
    <3> SUFFICES ASSUME NEW b \in DOMAIN runs', runs'[b].retry_of # 0
                 PROVE  /\ runs'[b].retry_of \in DOMAIN runs'
                        /\ runs'[runs'[b].retry_of].status # "queued"
                        /\ \A u \in Task :
                              (task'[u].pc \in ExecPc /\ task'[u].run = runs'[b].retry_of) =>
                                  task'[u].pc \in {"delay", "finish"}
      BY DEF RetriedIsDone, Executing, Status
    <3> DEFINE p == runs[b].retry_of
    <3>1. b \in DOMAIN runs /\ runs'[b].retry_of = p
      BY <1>2 DEF RowsCalm
    <3>2. /\ p \in DOMAIN runs
          /\ runs[p].status # "queued"
          /\ \A u \in Task : (task[u].pc \in ExecPc /\ task[u].run = p) =>
                                  task[u].pc \in {"delay", "finish"}
      BY <3>1 DEF UInv, RetriedIsDone, Executing, Status
    <3> HIDE DEF p
    <3>3. p # r
      BY <2>1, <3>2 DEF Status
    <3>4. p \in DOMAIN runs' /\ runs'[p].status # "queued"
      BY <1>2, <3>2 DEF RowsCalm
    <3> QED
      BY <2>2, <3>1, <3>2, <3>3, <3>4
  <2>8. RetriedOnce'
    BY <1>2 DEF UInv, RetriedOnce, RowsCalm
  <2>9. TerminalKept
    BY <1>2 DEF TerminalKept, RowsCalm, Status, ACTIVE, TERMINAL
  <2> QED
    BY <2>5, <2>6, <2>7, <2>8, <2>9 DEF UInv
<1> QED
  BY <1>0, <1>3, <1>4 DEF Claim

(* _on_failure inserts a retry of a run that has none, for its only task   *)
(* is this one.                                                            *)
LEMMA OnceRetry ==
    ASSUME IInv, UInv, NEW t \in Task, create_retry_run(t)
    PROVE  UInv' /\ TerminalKept
<1> DEFINE r == task[t].run
           n == Len(runs')
<1>0. /\ task[t].pc = "retry" /\ pel' = pel
      /\ create_run(runs[r].job, runs[r].attempt + 1, r)
  BY DEF create_retry_run, redisVars
<1>e. task' = [task EXCEPT ![t].pc = "delay", ![t].new_id = n]
  BY DEF create_retry_run
<1>1. r \in DOMAIN runs /\ Status(r) \in {"running", "canceled"}
  BY <1>0, TaskRun DEF ExecPc, UInv, ExecutedIsRunning, Executing
<1>2. r \in RunId /\ r # 0 /\ runs[r].job \in Jobs /\ runs[r].attempt + 1 \in Nat \ {0}
  <2>1. runs[r] \in JobRun /\ r \in RunId
    BY <1>1, RowsLemma, SMTT(60) DEF IInv, TypeOK, RunStoreTypeOK
  <2> QED
    BY <2>1, RunStoreAssumption, SMTT(60) DEF JobRun, RunId
<1>3. /\ DOMAIN runs' = DOMAIN runs \union {n}
      /\ n \notin DOMAIN runs /\ n \in RunId
      /\ \A q \in DOMAIN runs : runs'[q] = runs[q]
      /\ runs'[n].retry_of = r
  <2>1. runs \in Seq(JobRun) /\ r \in RunId \union {0}
    BY <1>2 DEF IInv, TypeOK, RunStoreTypeOK
  <2> DEFINE j == runs[r].job
             a == runs[r].attempt + 1
  <2> HIDE DEF j, a, r
  <2>2. create_run(j, a, r) /\ j \in Jobs /\ a \in Nat \ {0}
    BY <1>0, <1>2 DEF j, a
  <2>3. /\ DOMAIN runs' = DOMAIN runs \union {Len(runs')}
        /\ Len(runs') \notin DOMAIN runs /\ Len(runs') \in RunId
        /\ \A q \in DOMAIN runs : runs'[q] = runs[q]
        /\ runs'[Len(runs')] = [job |-> j, status |-> "queued", attempt |-> a, retry_of |-> r]
    BY <2>1, <2>2, CreateLemma
  <2>4. \A row : row = [job |-> j, status |-> "queued", attempt |-> a, retry_of |-> r] => row.retry_of = r
    BY SMTT(60)
  <2> QED
    BY <2>3, <2>4
<1> HIDE DEF n
<1>4. TaskMoves(t) /\ task'[t].pc = "delay"
  BY <1>e, <1>3, NewIdLemma DEF IInv, TypeOK, ExecPc
<1>5. \A b \in DOMAIN runs : runs[b].retry_of # r
  BY <1>0, <1>2 DEF UInv, RetriedIsDone, Executing, ExecPc
<1>6. \A u \in Task : (task[u].pc \in ExecPc /\ task[u].run = r) => u = t
  BY <1>0, NoDouble DEF UInv, NoDoubleExecution, Executing, ExecPc
<1>7. \A u \in Task : /\ ~task'[u].allow_running
                      /\ task'[u].msg = task[u].msg
                      /\ task'[u].run = task[u].run
                      /\ task'[u].pc \in ExecPc => task[u].pc \in ExecPc
                      /\ u # t => task'[u].pc = task[u].pc
  BY <1>0, <1>4 DEF TaskMoves, UInv, NoneReclaimed, ExecPc
<1> HIDE DEF r
<1>8. PendingIsHeld' /\ NoneReclaimed'
  <2>1. pel' \subseteq pel /\ \A u \in Task : task'[u].msg = task[u].msg
    BY <1>0, <1>7
  <2>2. PendingIsHeld'
    BY <2>1, HeldStep
  <2>3. NoneReclaimed'
    BY <1>7 DEF NoneReclaimed
  <2> QED
    BY <2>2, <2>3
<1>9. ExecutedIsRunning'
  <2> SUFFICES ASSUME NEW u \in Task, task'[u].pc \in ExecPc
               PROVE  runs'[task'[u].run].status \in {"running", "canceled"}
    BY DEF ExecutedIsRunning, Executing, Status
  <2>1. task[u].run \in DOMAIN runs
    BY <1>7 DEF IInv, TaskRefs, HoldsRun
  <2>2. runs[task[u].run].status \in {"running", "canceled"}
    BY <1>7 DEF UInv, ExecutedIsRunning, Executing, Status
  <2> QED
    BY <1>3, <1>7, <2>1, <2>2
<1>10. RetriedIsDone'
  <2> SUFFICES ASSUME NEW b \in DOMAIN runs', runs'[b].retry_of # 0
               PROVE  /\ runs'[b].retry_of \in DOMAIN runs'
                      /\ runs'[runs'[b].retry_of].status # "queued"
                      /\ \A u \in Task :
                            (task'[u].pc \in ExecPc /\ task'[u].run = runs'[b].retry_of) =>
                                task'[u].pc \in {"delay", "finish"}
    BY DEF RetriedIsDone, Executing, Status
  <2>1. CASE b = n
    <3>1. runs'[r].status # "queued" /\ r \in DOMAIN runs'
      BY <1>1, <1>3 DEF Status
    <3> QED
      BY <1>3, <1>4, <1>6, <1>7, <2>1, <3>1
  <2>2. CASE b # n
    <3>1. b \in DOMAIN runs /\ runs'[b] = runs[b] /\ runs[b].retry_of # r
      BY <1>3, <1>5, <2>2
    <3>2. /\ runs[b].retry_of \in DOMAIN runs
          /\ runs[runs[b].retry_of].status # "queued"
          /\ \A u \in Task : (task[u].pc \in ExecPc /\ task[u].run = runs[b].retry_of) =>
                                task[u].pc \in {"delay", "finish"}
      BY <3>1 DEF UInv, RetriedIsDone, Executing, Status
    <3>3. runs'[runs[b].retry_of] = runs[runs[b].retry_of] /\ runs[b].retry_of \in DOMAIN runs'
      BY <1>3, <3>2
    <3> QED
      BY <1>4, <1>7, <3>1, <3>2, <3>3
  <2> QED
    BY <2>1, <2>2
<1>11. RetriedOnce'
  <2> SUFFICES ASSUME NEW a \in DOMAIN runs', NEW b \in DOMAIN runs', a # b,
                      runs'[a].retry_of = runs'[b].retry_of
               PROVE  runs'[a].retry_of = 0
    BY DEF RetriedOnce
  <2>1. a \in DOMAIN runs /\ b \in DOMAIN runs
    BY <1>3, <1>5
  <2> QED
    BY <1>3, <2>1 DEF UInv, RetriedOnce
<1>12. TerminalKept
  BY <1>3 DEF TerminalKept, Status
<1> QED
  BY <1>8, <1>9, <1>10, <1>11, <1>12 DEF UInv

(* finish_run overwrites a running or a canceled row, and a canceled one   *)
(* it leaves alone.                                                        *)
LEMMA OnceFinish ==
    ASSUME IInv, UInv, NEW t \in Task, FinishRun(t)
    PROVE  UInv' /\ TerminalKept
<1> DEFINE r == task[t].run
<1>0. /\ task[t].pc = "finish" /\ pel' = pel /\ Finally(t)
      /\ UpdateStatusFrom(r, RunStatus \ {"canceled"}, task[t].result)
  BY DEF FinishRun, finish_run, redisVars
<1>1. /\ r \in DOMAIN runs /\ Status(r) \in {"running", "canceled"}
      /\ task[t].result \in Outcomes
  BY <1>0, TaskRun, TaskResult DEF ExecPc, UInv, ExecutedIsRunning, Executing
<1>2. task[t].result \in RunStatus \ {"pending", "queued"}
  BY <1>1, DispatchAssumption DEF RunStatus, ACTIVE, TERMINAL
<1>3. /\ DOMAIN runs' = DOMAIN runs
      /\ \A q \in DOMAIN runs : q # r => runs'[q] = runs[q]
      /\ runs'[r].status = IF Status(r) \in RunStatus \ {"canceled"} THEN task[t].result
                           ELSE Status(r)
      /\ runs'[r].retry_of = runs[r].retry_of
  BY <1>0, <1>1, <1>2, UpdateLemma DEF IInv, TypeOK, RunStoreTypeOK
<1>4. TasksCalm /\ \A u \in Task : task'[u].msg = task[u].msg
  BY <1>0, CalmFinally
<1>5. \A u \in Task : task'[u].pc \in ExecPc => task[u].run # r /\ task[u].pc \in ExecPc
                                                /\ task'[u].run = task[u].run
  <2>1. \A u \in Task : (task[u].pc \in ExecPc /\ task[u].run = r) => u = t
    BY <1>0, NoDouble DEF UInv, NoDoubleExecution, Executing, ExecPc
  <2>2. task'[t].pc \notin ExecPc
    BY <1>0, TaskRun, LiveTask, FinallyLemma DEF IInv, ExecPc, HoldsRun
  <2> QED
    BY <1>4, <2>1, <2>2 DEF TasksCalm
<1> HIDE DEF r
<1>6. PendingIsHeld' /\ NoneReclaimed'
  <2>1. PendingIsHeld'
    BY <1>0, <1>4, HeldStep
  <2>2. NoneReclaimed'
    BY <1>4 DEF NoneReclaimed, TasksCalm
  <2> QED
    BY <2>1, <2>2
<1>7. ExecutedIsRunning'
  <2> SUFFICES ASSUME NEW u \in Task, task'[u].pc \in ExecPc
               PROVE  runs'[task'[u].run].status \in {"running", "canceled"}
    BY DEF ExecutedIsRunning, Executing, Status
  <2>1. task[u].run \in DOMAIN runs
    BY <1>5 DEF IInv, TaskRefs, HoldsRun
  <2>2. runs[task[u].run].status \in {"running", "canceled"}
    BY <1>5 DEF UInv, ExecutedIsRunning, Executing, Status
  <2> QED
    BY <1>3, <1>5, <2>1, <2>2
<1>8. RetriedIsDone'
  <2> SUFFICES ASSUME NEW b \in DOMAIN runs', runs'[b].retry_of # 0
               PROVE  /\ runs'[b].retry_of \in DOMAIN runs'
                      /\ runs'[runs'[b].retry_of].status # "queued"
                      /\ \A u \in Task :
                            (task'[u].pc \in ExecPc /\ task'[u].run = runs'[b].retry_of) =>
                                task'[u].pc \in {"delay", "finish"}
    BY DEF RetriedIsDone, Executing, Status
  <2> DEFINE p == runs[b].retry_of
  <2>1. b \in DOMAIN runs /\ runs'[b].retry_of = p
    BY <1>3
  <2>2. /\ p \in DOMAIN runs
        /\ runs[p].status # "queued"
        /\ \A u \in Task : (task[u].pc \in ExecPc /\ task[u].run = p) =>
                                task[u].pc \in {"delay", "finish"}
    BY <2>1 DEF UInv, RetriedIsDone, Executing, Status
  <2> HIDE DEF p
  <2>3. runs'[p].status # "queued"
    BY <1>1, <1>2, <1>3, <2>2 DEF Status
  <2>4. \A u \in Task : (task'[u].pc \in ExecPc /\ task'[u].run = p) =>
                            task'[u].pc \in {"delay", "finish"}
    BY <1>4, <2>2 DEF TasksCalm
  <2> QED
    BY <1>3, <2>1, <2>2, <2>3, <2>4
<1>9. RetriedOnce'
  BY <1>3 DEF UInv, RetriedOnce
<1>10. TerminalKept
  BY <1>1, <1>3 DEF TerminalKept, Status, TERMINAL
<1> QED
  BY <1>6, <1>7, <1>8, <1>9, <1>10 DEF UInv

(* The other awaits of a task. *)
LEMMA OnceMove ==
    ASSUME IInv, UInv, NEW t \in Task,
           \/ Enter(t) \/ (\E s \in Outcomes : Execute(t, s)) \/ CheckCanceled(t)
           \/ ScheduleDelayed(t) \/ Ack(t)
    PROVE  UInv' /\ TerminalKept
<1>1. runs' = runs /\ pel' \subseteq pel
  BY DEF Enter, Execute, CheckCanceled, ScheduleDelayed, Ack, xack, schedule_delayed, redisVars
<1>2. task \in [Task -> TaskRec]
  BY Tables
<1> SUFFICES TasksCalm /\ \A u \in Task : task'[u].msg = task[u].msg
  <2>1. ASSUME TasksCalm, \A u \in Task : task'[u].msg = task[u].msg
        PROVE  RowsCalm /\ PendingIsHeld'
    BY <1>1, <2>1, CalmSame, HeldStep
  <2> QED
    BY <2>1, CalmStep
<1>3. CASE Enter(t) \/ Ack(t)
  <2>1. PICK p \in {"claim", "del"} : Goto(t, p)
    BY <1>3 DEF Enter, Ack
  <2>2. p \in Pc \ ExecPc
    BY DEF Pc, ExecPc
  <2> QED
    BY <2>1, <2>2, CalmGoto
<1>4. ASSUME NEW s \in Outcomes, Execute(t, s)
      PROVE  TasksCalm /\ \A u \in Task : task'[u].msg = task[u].msg
  <2>1. task[t].pc = "exec"
    BY <1>4 DEF Execute
  <2>2. task' = [task EXCEPT ![t].pc = "check", ![t].result = s]
    BY <1>4 DEF Execute
  <2>3. TaskMoves(t)
    BY <1>2, <1>4, <2>2, ResultLemma DEF ExecPc
  <2>4. task[t].pc \in ExecPc /\ task[t].pc \notin {"delay", "finish"}
    BY <2>1 DEF ExecPc
  <2>5. TasksCalm
    BY <2>3, <2>4, CalmMove
  <2> QED
    BY <2>3, <2>5 DEF TaskMoves
<1>5. CASE CheckCanceled(t)
  <2>1. CASE Finally(t)
    BY <2>1, CalmFinally
  <2>2. ASSUME NEW p \in {"retry", "finish"}, Goto(t, p), task[t].pc = "check"
        PROVE  TasksCalm /\ \A u \in Task : task'[u].msg = task[u].msg
    <3>0. p \in Pc /\ p \in ExecPc
      BY DEF Pc, ExecPc
    <3>1. TaskMoves(t)
      BY <1>2, <2>2, <3>0, GotoLemma DEF TaskMoves
    <3>2. task[t].pc \in ExecPc /\ task[t].pc \notin {"delay", "finish"}
      BY <2>2 DEF ExecPc
    <3>3. TasksCalm
      BY <3>1, <3>2, CalmMove
    <3> QED
      BY <3>1, <3>3 DEF TaskMoves
  <2> QED
    BY <1>5, <2>1, <2>2 DEF CheckCanceled
<1>6. CASE ScheduleDelayed(t)
  <2>1. task[t].pc = "delay"
    BY <1>6 DEF ScheduleDelayed
  <2>2. task' = [task EXCEPT ![t].pc = "finish", ![t].new_id = 0]
    BY <1>6 DEF ScheduleDelayed
  <2>3. TaskMoves(t) /\ task'[t].pc = "finish"
    BY <1>2, <2>2, NewIdLemma DEF ExecPc
  <2>4. task[t].pc \in ExecPc
    BY <2>1 DEF ExecPc
  <2>5. TasksCalm
    BY <2>3, <2>4, CalmMove
  <2> QED
    BY <2>3, <2>5 DEF TaskMoves
<1> QED
  BY <1>3, <1>4, <1>5, <1>6

(* A task ends once its message is acked. *)
LEMMA OnceDel ==
    ASSUME IInv, UInv, NEW t \in Task, Del(t)
    PROVE  UInv' /\ TerminalKept
<1>1. /\ task[t].pc = "del" /\ task' = [task EXCEPT ![t] = Idle]
      /\ runs' = runs /\ pel' = pel
  BY DEF Del
<1>2. task'[t] = Idle /\ \A u \in Task : u # t => task'[u] = task[u]
  BY <1>1 DEF IInv, TypeOK
<1>3. TasksCalm
  <2>1. Idle.pc \notin ExecPc /\ ~Idle.allow_running
    BY DEF Idle, ExecPc
  <2> QED
    BY <1>2, <2>1, CalmLeave
<1>4. task[t].msg \notin pel
  BY <1>1 DEF IInv, HeldMessages
<1>5. PendingIsHeld'
  BY <1>1, <1>2, <1>4 DEF UInv, PendingIsHeld
<1> QED
  BY <1>1, <1>3, <1>5, CalmSame, CalmStep

-----------------------------------------------------------------------------
(* Next.                                                                   *)

(* While nothing fails, the invariant is kept. *)
LEMMA OnceNext ==
    ASSUME Prompt = TRUE, IInv, Undisturbed, UInv, [Next]_vars
    PROVE  TerminalKept /\ (Undisturbed' => UInv')
<1>1. CASE UNCHANGED vars
  <2>1. UNCHANGED <<runs, pel, task>>
    BY <1>1 DEF vars, dispatchVars, redisVars
  <2>2. TasksCalm
    BY <2>1 DEF TasksCalm, UInv, NoneReclaimed
  <2> QED
    BY <2>1, <2>2, CalmSame, HeldStep, CalmStep
<1>2. ASSUME NEW j \in Jobs, trigger_job(j) PROVE UInv' /\ TerminalKept
  BY <1>2, OnceClient
<1>3. ASSUME NEW r \in DOMAIN runs, RunNext(r)
      PROVE  TerminalKept /\ (Undisturbed' => UInv')
  <2>1. ASSUME LoseEnqueue(r) PROVE TerminalKept /\ ~Undisturbed'
    <3>1. runs' = runs /\ crashes' = crashes + 1 /\ crashes = 0
      BY <2>1 DEF LoseEnqueue, Undisturbed
    <3>2. crashes' # 0
      BY <3>1, SMTT(60)
    <3> QED
      BY <3>1, <3>2 DEF TerminalKept, Undisturbed, Status
  <2>2. ASSUME NEW w \in Worker, cancel_listener(w, r) PROVE UInv' /\ TerminalKept
    BY <2>2, OnceListener
  <2>3. CASE \/ retry_run(r) \/ cancel(r) \/ requeue_orphans(r) \/ enqueue_run(r) \/ Promote(r)
    BY <2>3, OnceClient
  <2> QED
    BY <1>3, <2>1, <2>2, <2>3 DEF RunNext
<1>4. ASSUME NEW w \in Worker, Read(w) \/ Reclaim(w) PROVE UInv' /\ TerminalKept
  BY <1>4, OnceLoops DEF Read, Reclaim
<1>5. ASSUME NEW w \in Worker, Crash(w) PROVE TerminalKept /\ ~Undisturbed'
  <2>1. runs' = runs /\ crashes' = crashes + 1 /\ crashes = 0
    BY <1>5 DEF Crash, Undisturbed
  <2>2. crashes' # 0
    BY <2>1, SMTT(60)
  <2> QED
    BY <2>1, <2>2 DEF TerminalKept, Undisturbed, Status
<1>6. ASSUME NEW t \in Task, TaskStep(t) PROVE UInv' /\ TerminalKept
  BY <1>6, OnceMove, OnceClaim, OnceRetry, OnceFinish, OnceDel DEF TaskStep
<1>7. ASSUME NEW t \in Task, CallFails(t) \/ AckFails(t) PROVE TerminalKept /\ ~Undisturbed'
  <2>1. runs' = runs /\ faults' = faults + 1 /\ faults = 0
    BY <1>7 DEF CallFails, AckFails, Undisturbed
  <2>2. faults' # 0
    BY <2>1, SMTT(60)
  <2> QED
    BY <2>1, <2>2 DEF TerminalKept, Undisturbed, Status
<1> QED
  BY <1>1, <1>2, <1>3, <1>4, <1>5, <1>6, <1>7 DEF Next

(* Once a crash or a fault has been counted, the count stays. *)
LEMMA DisturbedStays ==
    ASSUME IInv, [Next]_vars, Undisturbed'
    PROVE  Undisturbed
<1>1. crashes \in Nat /\ faults \in Nat
  BY DispatchAssumption, SMTT(60) DEF IInv, TypeOK
<1>2. crashes' \in {crashes, crashes + 1} /\ faults' \in {faults, faults + 1}
  <2>1. CASE UNCHANGED vars
    BY <2>1 DEF vars, dispatchVars
  <2>2. ASSUME NEW j \in Jobs, trigger_job(j) PROVE <1>2!1 /\ <1>2!2
    BY <2>2 DEF trigger_job
  <2>3. ASSUME NEW r \in DOMAIN runs, RunNext(r) PROVE <1>2!1 /\ <1>2!2
    BY <2>3 DEF RunNext, retry_run, cancel, requeue_orphans, enqueue_run, LoseEnqueue, Promote,
                cancel_listener
  <2>4. ASSUME NEW w \in Worker, Read(w) \/ Reclaim(w) \/ Crash(w) PROVE <1>2!1 /\ <1>2!2
    BY <2>4 DEF Read, Reclaim, ReadGroup, reclaim_stale, Crash
  <2>5. ASSUME NEW t \in Task, TaskStep(t) \/ CallFails(t) \/ AckFails(t)
        PROVE  <1>2!1 /\ <1>2!2
    BY <2>5 DEF TaskStep, Enter, Claim, Execute, CheckCanceled, create_retry_run, ScheduleDelayed,
                FinishRun, Ack, Del, CallFails, AckFails
  <2> QED
    BY <2>1, <2>2, <2>3, <2>4, <2>5 DEF Next
<1> QED
  BY <1>1, <1>2, SMTT(60) DEF Undisturbed

(* The invariant of undisturbed behaviours holds until something fails. *)
LEMMA Once ==
    ASSUME Prompt = TRUE
    PROVE  Spec => [](Undisturbed => UInv)
<1>1. Init => UInv
  <2> SUFFICES ASSUME Init PROVE UInv
    OBVIOUS
  <2>1. /\ \A t \in Task : task[t] = Idle
        /\ DOMAIN runs = {} /\ pel = {}
    BY SMTT(60) DEF Init, RedisInit
  <2>2. Idle.pc \notin ExecPc /\ ~Idle.allow_running
    BY DEF Idle, ExecPc
  <2> QED
    BY <2>1, <2>2 DEF UInv, PendingIsHeld, NoneReclaimed, ExecutedIsRunning, RetriedIsDone,
                      RetriedOnce, Executing
<1>2. IInv /\ (Undisturbed => UInv) /\ [Next]_vars => (Undisturbed => UInv)'
  BY OnceNext, DisturbedStays
<1> QED
  BY <1>1, <1>2, Inductive, PTL DEF Spec

-----------------------------------------------------------------------------
(* The theorems.                                                           *)

(* "duplicate deliveries are no-ops": whatever requeue_orphans put on the  *)
(* stream a second time, no run is executed by two tasks at once while     *)
(* nothing has failed and messages are reclaimed in time.                  *)
THEOREM ExecutedOnce ==
    ASSUME Prompt = TRUE
    PROVE  Spec => []OneExecution
<1>1. IInv /\ (Undisturbed => UInv) => OneExecution
  BY NoDouble DEF OneExecution, UInv
<1> QED
  BY <1>1, Inductive, Once, PTL

(* A failed run makes the worker schedule one retry: create_retry_run is   *)
(* never called twice for the same run while nothing has failed.           *)
THEOREM RetriedOncePerRun ==
    ASSUME Prompt = TRUE
    PROVE  Spec => []OneRetryPerRun
<1>1. (Undisturbed => UInv) => OneRetryPerRun
  BY DEF OneRetryPerRun, UInv, RetriedOnce
<1> QED
  BY <1>1, Once, PTL

(* No later claim_run, finish_run or cancel_run changes a terminal status  *)
(* while nothing has failed.                                               *)
THEOREM OutcomesAreFinal ==
    ASSUME Prompt = TRUE
    PROVE  Spec => OutcomeIsFinal
<1> DEFINE A == \A r \in DOMAIN runs :
                    (Undisturbed /\ Status(r) \in TERMINAL) => runs'[r].status = Status(r)
<1>1. IInv /\ (Undisturbed => UInv) /\ [Next]_vars => [A]_vars
  BY OnceNext DEF TerminalKept
<1> HIDE DEF A
<1>2. Spec => [][A]_vars
  BY <1>1, Inductive, Once, PTL DEF Spec
<1> QED
  BY <1>2 DEF OutcomeIsFinal, A
=============================================================================
