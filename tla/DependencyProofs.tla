-------------------------- MODULE DependencyProofs --------------------------
(***************************************************************************)
(* What holds of the dependencies of jobs through all triggers, scheduled  *)
(* runs, changes of the graph, crashes and retries (the invariant BaseInv: *)
(* types, references between rows, messages and tasks, and the two         *)
(* properties of the walk of trigger_job).  And with one trigger and no    *)
(* scheduled run, crash, change of the graph or deletion a pending run is  *)
(* woken (WakeInv), for which the rows of the only trigger must be the     *)
(* first rows (OnceInv).                                                   *)
(*                                                                         *)
(* A lemma XDoes says what action X changes, by the kind of change. The    *)
(* steps are grouped by what they are about: the walk of a trigger         *)
(* (WalkAct), its commit, the graph (GraphAct), a scheduled run            *)
(* (ScheduleAct), one run (RunAct), and the start, the moves and the end   *)
(* of a task (StartAct, MoveAct, EndAct).                                  *)
(***************************************************************************)
EXTENDS Dependencies, WellFoundedInduction, TLAPS

USE ZenonT(60)

(* A row of the table that is not pending: one that may have a message. *)
Known(r) == r \in DOMAIN runs /\ Status(r) # "pending"

(* A row may be added, and its status may change, but not back to pending. *)
TableStep ==
    /\ RunStoreTypeOK'
    /\ DOMAIN runs \subseteq DOMAIN runs'
    /\ \A q \in DOMAIN runs :
          /\ runs'[q].job = runs[q].job /\ runs'[q].attempt = runs[q].attempt
          /\ runs'[q].status = "pending" => runs[q].status = "pending"

(* UPDATE job_runs SET status = s WHERE id = r. *)
Sets(r, s) ==
    /\ TableStep
    /\ DOMAIN runs' = DOMAIN runs
    /\ \A q \in DOMAIN runs : runs'[q].status = IF q = r THEN s ELSE runs[q].status

(* INSERT of a queued run of job j, whose id is r. *)
Adds(r, j) ==
    /\ TableStep
    /\ r \notin DOMAIN runs
    /\ r \in RunId
    /\ DOMAIN runs' = DOMAIN runs \union {r}
    /\ runs'[r].job = j /\ runs'[r].status = "queued"
    /\ \A q \in DOMAIN runs : runs'[q] = runs[q]

(* Task t goes to p, and stays with its run. *)
Moves(t, p) ==
    /\ task' \in [Task -> TaskRec]
    /\ task'[t].pc = p
    /\ task'[t].run = task[t].run
    /\ \A u \in Task : u # t => task'[u] = task[u]

(* Task t is over, or begins. *)
Becomes(t, rec) ==
    /\ task' \in [Task -> TaskRec]
    /\ task'[t] = rec
    /\ \A u \in Task : u # t => task'[u] = task[u]

(* The rows of job_runs are numbered from 1, and each is well typed. *)
LEMMA Rows == ASSUME RunStoreTypeOK PROVE
        /\ DOMAIN runs = 1..Len(runs)
        /\ DOMAIN runs \subseteq RunId
        /\ \A q \in DOMAIN runs : runs[q] \in JobRun /\ runs[q].job \in Jobs /\ runs[q].status \in RunStatus
<1>1. \A q \in DOMAIN runs : runs[q] \in JobRun
  BY SMTT(60) DEF RunStoreTypeOK
<1>2. /\ DOMAIN runs = 1..Len(runs)
      /\ DOMAIN runs \subseteq RunId
  BY SMTT(60), RunStoreAssumption DEF RunStoreTypeOK, RunId
<1> QED
  BY <1>1, <1>2 DEF JobRun

(* An UPDATE of the status of one row. *)
LEMMA StatusSet ==
    ASSUME RunStoreTypeOK, NEW r \in DOMAIN runs, NEW s \in RunStatus \ {"pending"},
           runs' = [runs EXCEPT ![r].status = s]
    PROVE  Sets(r, s)
<1>1. runs[r] \in JobRun /\ r \in 1..Len(runs) /\ DOMAIN runs = 1..Len(runs)
  BY Rows
<1>2. [runs[r] EXCEPT !.status = s] \in JobRun
  BY <1>1 DEF JobRun
<1>3. runs' = [runs EXCEPT ![r] = [runs[r] EXCEPT !.status = s]]
  OBVIOUS
<1>4. RunStoreTypeOK' /\ DOMAIN runs' = DOMAIN runs
  BY <1>2, <1>3, SMTT(60) DEF RunStoreTypeOK
<1>5. runs'[r] = [runs[r] EXCEPT !.status = s] /\ \A q \in DOMAIN runs : q # r => runs'[q] = runs[q]
  BY <1>3
<1>6. runs'[r].status = s /\ runs'[r].job = runs[r].job /\ runs'[r].attempt = runs[r].attempt
  BY <1>5, <1>1 DEF JobRun
<1>7. \A q \in DOMAIN runs : runs'[q].status = IF q = r THEN s ELSE runs[q].status
  BY <1>5, <1>6
<1>8. \A q \in DOMAIN runs :
          /\ runs'[q].job = runs[q].job /\ runs'[q].attempt = runs[q].attempt
          /\ runs'[q].status = "pending" => runs[q].status = "pending"
  BY <1>5, <1>6
<1> QED
  BY <1>4, <1>7, <1>8 DEF Sets, TableStep

(* An INSERT of a queued row. *)
LEMMA RowAdded ==
    ASSUME RunStoreTypeOK, NEW row \in JobRun, row.status = "queued", Len(runs) < MaxRuns, runs' = Append(runs, row)
    PROVE  Adds(Len(runs'), row.job) /\ Len(runs') \in RunId
<1>1. /\ Len(runs') = Len(runs) + 1 /\ Len(runs) \in Nat
      /\ DOMAIN runs' = 1..(Len(runs) + 1) /\ DOMAIN runs = 1..Len(runs)
      /\ runs' \in Seq(JobRun)
      /\ runs'[Len(runs) + 1] = row
      /\ \A q \in 1..Len(runs) : runs'[q] = runs[q]
  BY SMTT(60) DEF RunStoreTypeOK
<1>2. RunStoreTypeOK' /\ Len(runs') \in RunId /\ Len(runs') \notin DOMAIN runs
      /\ DOMAIN runs' = DOMAIN runs \union {Len(runs')}
  BY <1>1, RunStoreAssumption, SMTT(60) DEF RunStoreTypeOK, RunId
<1> QED
  BY <1>1, <1>2 DEF Adds, TableStep

(* A step that leaves the table alone. *)
LEMMA TableSame == ASSUME RunStoreTypeOK, runs' = runs PROVE TableStep
  BY DEF TableStep, RunStoreTypeOK

(* The task of t is replaced by another one. *)
LEMMA TaskBecomes ==
    ASSUME TypeOK, NEW t \in Task, NEW rec \in TaskRec, task' = [task EXCEPT ![t] = rec]
    PROVE  Becomes(t, rec)
  BY DEF TypeOK, Becomes

(* The record of a task that does nothing is well typed. *)
LEMMA IdleType == Idle \in TaskRec
  BY DEF Idle, TaskRec

(* The fields of a task. *)
LEMMA TaskFields ==
    ASSUME TypeOK, NEW t \in Task
    PROVE  /\ task[t] \in TaskRec
           /\ task[t].pc \in {"idle", "exec", "finish", "ready", "loop", "pending", "write", "send"}
           /\ task[t].run \in RunId \union {0}
           /\ task[t].result \in Outcomes \union {"none"}
           /\ task[t].todo \in SUBSET Jobs
           /\ task[t].dep \in Jobs \union {NoJob}
           /\ task[t].id \in RunId \union {0}
<1>1. task[t] \in TaskRec
  BY DEF TypeOK
<1> QED
  BY <1>1 DEF TaskRec

(* The task of t goes on: what it is now has the same run. *)
LEMMA TaskMoves ==
    ASSUME TypeOK, NEW t \in Task, NEW rec \in TaskRec, rec.run = task[t].run,
           task' = [task EXCEPT ![t] = rec]
    PROVE  Moves(t, rec.pc) /\ task'[t] = rec
  BY TaskBecomes DEF Becomes, Moves

(* What is known of a task at each of its steps. *)
TaskFine(t) ==
    /\ task[t].pc = "idle" => task[t] = Idle
    /\ task[t].pc # "idle" => Known(task[t].run)
    /\ task[t].pc = "finish" => task[t].result \in Outcomes
    /\ task[t].pc \in {"pending", "write"} => task[t].dep \in Jobs
    /\ (task[t].pc = "write" /\ task[t].id # 0) =>
          task[t].id \in DOMAIN runs /\ runs[task[t].id].job = task[t].dep
    /\ task[t].pc = "send" => Known(task[t].id)

(* Every task is in order. *)
TaskOK == \A t \in Task : TaskFine(t)

(* A task that has claimed run r. *)
Claimed(r) == [Idle EXCEPT !.pc = "exec", !.run = r]

(* The record of a task that has just claimed its run. *)
LEMMA ClaimedType ==
    ASSUME NEW r \in RunId
    PROVE  /\ Claimed(r) \in TaskRec
           /\ Claimed(r).pc = "exec" /\ Claimed(r).run = r
           /\ Claimed(r).todo = {} /\ Claimed(r).dep = NoJob /\ Claimed(r).id = 0
  BY DEF Claimed, Idle, TaskRec

(* claim_run: the run is running and its task executes it, or the message  *)
(* is dropped.                                                             *)
LEMMA StartDoes ==
    ASSUME TypeOK, NEW t \in Task, NEW r, Known(r), NEW allow \in BOOLEAN, Start(t, r, allow)
    PROVE  /\ task[t] = Idle
           /\ \/ runs' = runs /\ task' = task
              \/ /\ Exists(r) /\ Status(r) \in Claimable(allow)
                 /\ Sets(r, "running") /\ Becomes(t, Claimed(r))
<1>0. r \in DOMAIN runs /\ r \in RunId /\ RunStoreTypeOK
  BY Rows DEF Known, TypeOK
<1>1. CASE Exists(r) /\ Status(r) \in Claimable(allow)
  <2>1. runs' = [runs EXCEPT ![r].status = "running"]
    BY <1>1 DEF Start, claim_run, UpdateStatusFrom
  <2>2. Sets(r, "running")
    BY <2>1, <1>0, StatusSet DEF RunStatus, ACTIVE
  <2>3. task' = [task EXCEPT ![t] = Claimed(r)]
    BY <1>1 DEF Start, Claimed
  <2>4. Becomes(t, Claimed(r))
    BY <2>3, <1>0, ClaimedType, TaskBecomes
  <2> QED
    BY <1>1, <2>2, <2>4 DEF Start
<1>2. CASE ~(Exists(r) /\ Status(r) \in Claimable(allow))
  BY <1>2 DEF Start, claim_run, UpdateStatusFrom
<1> QED
  BY <1>1, <1>2

(* The executor returns: the task goes on to finish_run, unless the run    *)
(* was canceled.                                                           *)
LEMMA ExecuteDoes ==
    ASSUME TypeOK, NEW t \in Task, NEW s \in Outcomes, Execute(t, s)
    PROVE  /\ task[t].pc = "exec"
           /\ \/ Becomes(t, Idle) /\ (Exists(task[t].run) => is_run_canceled(task[t].run))
              \/ /\ Moves(t, "finish") /\ task'[t].result = s
                 /\ task'[t].todo = task[t].todo
                 /\ ~(Exists(task[t].run) /\ is_run_canceled(task[t].run))
<1>1. ASSUME task' = [task EXCEPT ![t] = Idle] PROVE Becomes(t, Idle)
  BY <1>1, IdleType, TaskBecomes
<1>2. ASSUME task' = [task EXCEPT ![t].pc = "finish", ![t].result = s]
      PROVE  Moves(t, "finish") /\ task'[t].result = s /\ task'[t].todo = task[t].todo
  <2> DEFINE rec == [task[t] EXCEPT !.pc = "finish", !.result = s]
  <2>1. task' = [task EXCEPT ![t] = rec]
    BY <1>2
  <2>2. rec \in TaskRec /\ rec.pc = "finish" /\ rec.run = task[t].run /\ rec.result = s /\ rec.todo = task[t].todo
    BY TaskFields DEF TaskRec
  <2> HIDE DEF rec
  <2> QED
    BY <2>1, <2>2, TaskMoves
<1> QED
  BY <1>1, <1>2 DEF Execute

(* finish_run spares a canceled row; a success goes on to the dependents. *)
LEMMA FinishDoes ==
    ASSUME TypeOK, TaskOK, NEW t \in Task, FinishRun(t)
    PROVE  LET r == task[t].run
               s == task[t].result
           IN /\ task[t].pc = "finish" /\ Known(r)
              /\ \/ runs' = runs /\ (~Exists(r) \/ Status(r) = "canceled")
                 \/ Exists(r) /\ Status(r) # "canceled" /\ Sets(r, s) /\ s \in Outcomes
              /\ \/ s # "succeeded" /\ Becomes(t, Idle)
                 \/ s = "succeeded" /\ Moves(t, "ready") /\ task'[t].todo = task[t].todo
<1> DEFINE r == task[t].run
           s == task[t].result
<1>0. task[t].pc = "finish" /\ Known(r) /\ r \in DOMAIN runs /\ s \in Outcomes /\ RunStoreTypeOK
  BY DEF FinishRun, TaskOK, TaskFine, Known, TypeOK
<1>a. s \in RunStatus \ {"pending"}
  BY <1>0, DependenciesAssumption DEF RunStatus, TERMINAL
<1>b. Status(r) \in RunStatus
  BY <1>0, Rows DEF Status
<1>1. \/ runs' = runs /\ (~Exists(r) \/ Status(r) = "canceled")
      \/ Exists(r) /\ Status(r) # "canceled" /\ runs' = [runs EXCEPT ![r].status = s]
  BY <1>b DEF FinishRun, finish_run, UpdateStatusFrom
<1>2. runs' = [runs EXCEPT ![r].status = s] => Sets(r, s)
  BY <1>0, <1>a, StatusSet
<1>3. CASE s = "succeeded"
  <2> DEFINE rec == [task[t] EXCEPT !.pc = "ready", !.result = "none"]
  <2>1. task' = [task EXCEPT ![t] = rec]
    BY <1>3 DEF FinishRun
  <2>2. rec \in TaskRec /\ rec.pc = "ready" /\ rec.run = task[t].run /\ rec.todo = task[t].todo
    BY TaskFields DEF TaskRec
  <2> HIDE DEF rec
  <2>3. Moves(t, "ready") /\ task'[t].todo = task[t].todo
    BY <2>1, <2>2, TaskMoves
  <2> QED
    BY <1>0, <1>1, <1>2, <1>3, <2>3
<1>4. CASE s # "succeeded"
  <2>1. task' = [task EXCEPT ![t] = Idle]
    BY <1>4 DEF FinishRun
  <2>2. Becomes(t, Idle)
    BY <2>1, IdleType, TaskBecomes
  <2> QED
    BY <1>0, <1>1, <1>2, <1>4, <2>2
<1> QED
  BY <1>3, <1>4

(* dependents_ready selects the jobs all of whose dependencies succeeded. *)
LEMMA ReadyDoes ==
    ASSUME TypeOK, NEW t \in Task, dependents_ready(t)
    PROVE  /\ task[t].pc = "ready" /\ Moves(t, "loop")
           /\ task'[t].todo = Ready(runs[task[t].run].job)
<1> DEFINE R == Ready(runs[task[t].run].job)
           rec == [task[t] EXCEPT !.pc = "loop", !.todo = R]
<1>0. R \in SUBSET Jobs
  BY DEF Ready
<1> HIDE DEF R
<1>1. task' = [task EXCEPT ![t] = rec]
  BY DEF dependents_ready, R
<1>2. rec \in TaskRec /\ rec.pc = "loop" /\ rec.run = task[t].run /\ rec.todo = R
  BY <1>0, TaskFields DEF TaskRec
<1> HIDE DEF rec
<1>3. Moves(t, "loop") /\ task'[t].todo = R
  BY <1>1, <1>2, TaskMoves
<1> QED
  BY <1>3 DEF dependents_ready, R

(* has_dispatched_run decides whether a dependent is passed over. *)
LEMMA CheckDoes ==
    ASSUME TypeOK, NEW t \in Task, NEW d \in Jobs, CheckDispatched(t, d)
    PROVE  /\ task[t].pc = "loop" /\ d \in task[t].todo
           /\ task'[t].todo = task[t].todo \ {d}
           /\ \/ has_dispatched_run(d) /\ Moves(t, "loop")
              \/ ~has_dispatched_run(d) /\ Moves(t, "pending") /\ task'[t].dep = d
<1> DEFINE p == IF has_dispatched_run(d) THEN "loop" ELSE "pending"
           k == IF has_dispatched_run(d) THEN NoJob ELSE d
           rec == [task[t] EXCEPT !.todo = @ \ {d}, !.pc = p, !.dep = k]
<1>0. p \in {"loop", "pending"} /\ k \in Jobs \union {NoJob}
  OBVIOUS
<1>a. task[t].todo \ {d} \in SUBSET Jobs
  BY TaskFields
<1>1. task' = [task EXCEPT ![t] = rec]
  BY DEF CheckDispatched
<1> HIDE DEF p, k
<1>3. rec \in TaskRec /\ rec.pc = p /\ rec.run = task[t].run /\ rec.todo = task[t].todo \ {d} /\ rec.dep = k
  BY <1>0, <1>a, TaskFields DEF TaskRec
<1>4. Moves(t, p) /\ task'[t].todo = task[t].todo \ {d} /\ task'[t].dep = k
  <2> HIDE DEF rec
  <2> QED
    BY <1>1, <1>3, TaskMoves
<1> QED
  BY <1>4 DEF CheckDispatched, p, k

(* A nonempty set of numbers has a least one. *)
LEMMA Least ==
    ASSUME NEW T, T \subseteq Nat, T # {}
    PROVE  \E x \in T : \A y \in T : x <= y
<1> DEFINE R == OpToRel(<, Nat)
<1>1. \A x, y \in Nat : x < y => <<x, y>> \in R
  BY DEF OpToRel
<1>2. IsWellFoundedOn(R, Nat)
  BY NatLessThanWellFounded
<1> HIDE DEF R
<1>3. PICK x \in T : \A y \in T : ~(<<y, x>> \in R)
  BY <1>2, WFMin
<1>4. \A y \in T : ~(y < x)
  BY <1>1, <1>3
<1> QED
  BY <1>4, SMTT(60)

(* The SELECT of a pending run finds one if there is one. *)
LEMMA PendingRun ==
    ASSUME RunStoreTypeOK, NEW j
    PROVE  \/ pending_run(j) = 0 /\ RunsOf(j, {"pending"}) = {}
           \/ pending_run(j) \in RunsOf(j, {"pending"})
<1> DEFINE P == RunsOf(j, {"pending"})
<1>1. CASE P = {}
  BY <1>1 DEF pending_run
<1>2. CASE P # {}
  <2>1. P \subseteq Nat
    BY Rows, SMTT(60) DEF RunsOf
  <2>2. \E r \in P : \A q \in P : r <= q
    BY <1>2, <2>1, Least
  <2>3. pending_run(j) = CHOOSE r \in P : \A q \in P : r <= q
    BY <1>2 DEF pending_run
  <2> HIDE DEF P
  <2> QED
    BY <2>2, <2>3 DEF P
<1> QED
  BY <1>1, <1>2

(* create_dependency_run reads the pending run that it will promote, if    *)
(* any.                                                                    *)
LEMMA SelectDoes ==
    ASSUME TypeOK, NEW t \in Task, SelectPending(t)
    PROVE  /\ task[t].pc = "pending" /\ Moves(t, "write")
           /\ task'[t].todo = task[t].todo /\ task'[t].dep = task[t].dep
           /\ \/ task'[t].id = 0 /\ RunsOf(task[t].dep, {"pending"}) = {}
              \/ task'[t].id \in RunsOf(task[t].dep, {"pending"})
<1> DEFINE r == pending_run(task[t].dep)
           rec == [task[t] EXCEPT !.pc = "write", !.id = r]
<1>1. \/ r = 0 /\ RunsOf(task[t].dep, {"pending"}) = {}
      \/ r \in RunsOf(task[t].dep, {"pending"})
  BY PendingRun DEF TypeOK
<1>2. RunsOf(task[t].dep, {"pending"}) \subseteq RunId
  BY Rows DEF RunsOf, TypeOK
<1>3. r \in RunId \union {0}
  BY <1>1, <1>2
<1> HIDE DEF r
<1>4. task' = [task EXCEPT ![t] = rec]
  BY DEF SelectPending, r
<1>5. /\ rec \in TaskRec /\ rec.pc = "write" /\ rec.run = task[t].run
      /\ rec.todo = task[t].todo /\ rec.dep = task[t].dep /\ rec.id = r
  BY <1>3, TaskFields DEF TaskRec
<1> HIDE DEF rec
<1>6. Moves(t, "write") /\ task'[t] = rec
  BY <1>4, <1>5, TaskMoves
<1> QED
  BY <1>1, <1>5, <1>6 DEF SelectPending

(* create_dependency_run promotes the run it has read, or inserts a new    *)
(* one.                                                                    *)
LEMMA WriteDoes ==
    ASSUME TypeOK, TaskOK, NEW t \in Task, create_dependency_run(t)
    PROVE  LET r == task[t].id
           IN /\ task[t].pc = "write" /\ task[t].dep \in jobs /\ task[t].dep \in Jobs
              /\ \/ r # 0 /\ Sets(r, "queued") /\ task'[t].id = r
                 \/ r = 0 /\ Adds(task'[t].id, task[t].dep)
              /\ Moves(t, "send") /\ task'[t].todo = task[t].todo
<1> DEFINE r == task[t].id
           n == IF r # 0 THEN r ELSE Len(runs')
           rec == [task[t] EXCEPT !.pc = "send", !.dep = NoJob, !.id = n]
<1>0. task[t].pc = "write" /\ task[t].dep \in jobs /\ task[t].dep \in Jobs /\ RunStoreTypeOK
  BY DEF create_dependency_run, TaskOK, TaskFine, TypeOK
<1>1. r # 0 => r \in DOMAIN runs /\ r \in RunId
  BY <1>0, Rows DEF TaskOK, TaskFine
<1>2. \/ r # 0 /\ Sets(r, "queued") /\ n = r
      \/ r = 0 /\ Adds(n, task[t].dep)
  <2>1. CASE r # 0
    <3>1. runs' = [runs EXCEPT ![r].status = "queued"]
      BY <2>1 DEF create_dependency_run
    <3>2. "queued" \in RunStatus \ {"pending"} /\ r \in DOMAIN runs
      BY <2>1, <1>1 DEF RunStatus, ACTIVE
    <3> HIDE DEF r
    <3>3. Sets(r, "queued")
      BY <3>1, <3>2, <1>0, StatusSet
    <3> QED
      BY <2>1, <3>3
  <2>2. CASE r = 0
    <3> DEFINE row == [job |-> task[t].dep, status |-> "queued", attempt |-> 1, retry_of |-> 0]
    <3>1. Len(runs) < MaxRuns /\ runs' = Append(runs, row)
      BY <2>2 DEF create_dependency_run, create_run
    <3>2. 1 \in Nat \ {0}
      BY SMTT(60)
    <3>3. row \in JobRun /\ row.status = "queued" /\ row.job = task[t].dep
      BY <1>0, <3>2 DEF JobRun, RunStatus, ACTIVE
    <3> HIDE DEF row
    <3>4. Adds(Len(runs'), task[t].dep)
      BY <3>1, <3>3, <1>0, RowAdded
    <3> QED
      BY <2>2, <3>4
  <2> QED
    BY <2>1, <2>2
<1>3. n \in RunId
  BY <1>1, <1>2 DEF Adds
<1>4. task' = [task EXCEPT ![t] = rec]
  BY DEF create_dependency_run
<1> HIDE DEF n
<1>5. /\ rec \in TaskRec /\ rec.pc = "send" /\ rec.run = task[t].run
      /\ rec.todo = task[t].todo /\ rec.id = n
  BY <1>3, TaskFields DEF TaskRec
<1> HIDE DEF rec
<1>6. Moves(t, "send") /\ task'[t] = rec
  BY <1>4, <1>5, TaskMoves
<1> QED
  BY <1>0, <1>2, <1>5, <1>6

(* The dependent's message is sent, and the fan-out goes on. *)
LEMMA EnqueueDoes ==
    ASSUME TypeOK, NEW t \in Task, EnqueueDependent(t)
    PROVE  /\ task[t].pc = "send" /\ Moves(t, "loop")
           /\ task'[t].todo = task[t].todo
<1> DEFINE rec == [task[t] EXCEPT !.pc = "loop", !.id = 0]
<1>1. task' = [task EXCEPT ![t] = rec]
  BY DEF EnqueueDependent
<1>2. rec \in TaskRec /\ rec.pc = "loop" /\ rec.run = task[t].run /\ rec.todo = task[t].todo
  BY TaskFields DEF TaskRec
<1> HIDE DEF rec
<1>3. Moves(t, "loop") /\ task'[t] = rec
  BY <1>1, <1>2, TaskMoves
<1> QED
  BY <1>2, <1>3 DEF EnqueueDependent

(* A fan-out that raises, ends, or is interrupted leaves its task idle. *)
LEMMA EndDoes ==
    ASSUME TypeOK, NEW t \in Task, FanOutFails(t) \/ FanOutDone(t) \/ Interrupt(t) \/ Crash(t)
    PROVE  Becomes(t, Idle)
<1>1. task' = [task EXCEPT ![t] = Idle]
  BY DEF FanOutFails, FanOutDone, Interrupt, Crash
<1> QED
  BY <1>1, IdleType, TaskBecomes

(* cancel_run changes a row that is active. *)
LEMMA CancelDoes ==
    ASSUME TypeOK, NEW r \in DOMAIN runs, cancel(r)
    PROVE  Exists(r) /\ Status(r) \in ACTIVE /\ Sets(r, "canceled")
<1>1. runs' = [runs EXCEPT ![r].status = "canceled"]
  BY DEF cancel, cancel_run, UpdateStatusFrom
<1>2. Sets(r, "canceled")
  BY <1>1, StatusSet DEF TypeOK, RunStatus, TERMINAL
<1> QED
  BY <1>2 DEF cancel

(* retry_run inserts a run of the same job, which is not a first attempt. *)
LEMMA RetryDoes ==
    ASSUME TypeOK, NEW r \in DOMAIN runs, retry_run(r)
    PROVE  /\ Exists(r) /\ Status(r) \in TERMINAL
           /\ Adds(Len(runs'), runs[r].job)
           /\ runs'[Len(runs')].attempt # 1
<1> DEFINE row == Row(runs[r].job, "queued", runs[r].attempt + 1)
<1>1. runs[r].job \in Jobs /\ runs[r].attempt \in Nat \ {0} /\ RunStoreTypeOK
  BY Rows DEF TypeOK, JobRun
<1>2. runs[r].attempt + 1 \in Nat \ {0} /\ runs[r].attempt + 1 # 1
  BY <1>1, SMTT(60)
<1>3. /\ row \in JobRun /\ row.status = "queued" /\ row.job = runs[r].job
      /\ row.attempt # 1
  BY <1>1, <1>2 DEF Row, JobRun, RunStatus, ACTIVE
<1>4. Len(runs) < MaxRuns /\ runs' = Append(runs, row)
  BY DEF retry_run
<1> HIDE DEF row
<1>5. Adds(Len(runs'), runs[r].job)
  BY <1>1, <1>3, <1>4, RowAdded
<1>6. runs'[Len(runs')] = row
  BY <1>1, <1>3, <1>4, SMTT(60) DEF RunStoreTypeOK
<1> QED
  BY <1>3, <1>5, <1>6 DEF retry_run

(* The scheduler inserts a queued run. *)
LEMMA ScheduleDoes ==
    ASSUME TypeOK, NEW j \in Jobs, schedule_due_jobs(j)
    PROVE  Adds(Len(runs'), j)
<1> DEFINE row == Row(j, "queued", 1)
<1>1. row \in JobRun /\ row.status = "queued" /\ row.job = j
  <2>1. 1 \in Nat \ {0}
    BY SMTT(60)
  <2> QED
    BY <2>1 DEF Row, JobRun, RunStatus, ACTIVE
<1>2. Len(runs) < MaxRuns /\ runs' = Append(runs, row) /\ RunStoreTypeOK
  BY DEF schedule_due_jobs, TypeOK
<1> HIDE DEF row
<1> QED
  BY <1>1, <1>2, RowAdded

-----------------------------------------------------------------------------
(* The walk. *)

(* A level of the walk: a job, and its dependencies yet to be visited. *)
Frame == [job : Jobs, todo : SUBSET Jobs]

(* No job is twice on the stack, or among the rows. *)
Distinct(s) == \A i, k \in DOMAIN s : s[i].job = s[k].job => i = k

(* A sequence with one element in front. *)
LEMMA Cons ==
    ASSUME NEW S, NEW e \in S, NEW s \in Seq(S)
    PROVE  /\ <<e>> \o s \in Seq(S) /\ <<e>> \o s # <<>>
           /\ Len(<<e>> \o s) = Len(s) + 1
           /\ (<<e>> \o s)[1] = e
           /\ \A i \in 1..Len(s) : (<<e>> \o s)[i + 1] = s[i]
  BY SMTT(60)

(* A job that is not on the stack is pushed: the jobs stay distinct. *)
LEMMA ConsDistinct ==
    ASSUME NEW S, NEW e \in S, NEW s \in Seq(S), Distinct(s), \A i \in DOMAIN s : s[i].job # e.job
    PROVE  Distinct(<<e>> \o s)
<1> DEFINE c == <<e>> \o s
<1>1. /\ c \in Seq(S) /\ Len(c) = Len(s) + 1 /\ c[1] = e
      /\ \A i \in 1..Len(s) : c[i + 1] = s[i]
  BY SMTT(60)
<1> HIDE DEF c
<1>2. DOMAIN c = 1..(Len(s) + 1) /\ DOMAIN s = 1..Len(s) /\ Len(s) \in Nat
  BY <1>1, SMTT(60)
<1>3. \A i \in DOMAIN c : i # 1 => i - 1 \in DOMAIN s /\ c[i] = s[i - 1]
  BY <1>1, <1>2, SMTT(60)
<1>4. \A i, k \in DOMAIN c : c[i].job = c[k].job => i = k
  <2> TAKE i, k \in DOMAIN c
  <2> HAVE c[i].job = c[k].job
  <2>1. CASE i = 1 /\ k = 1
    BY <2>1
  <2>2. CASE i = 1 /\ k # 1
    BY <2>2, <1>1, <1>3
  <2>3. CASE i # 1 /\ k = 1
    BY <2>3, <1>1, <1>3
  <2>4. CASE i # 1 /\ k # 1
    <3>1. s[i - 1].job = s[k - 1].job /\ i - 1 \in DOMAIN s /\ k - 1 \in DOMAIN s
      BY <2>4, <1>3
    <3>2. i - 1 = k - 1
      BY <3>1 DEF Distinct
    <3> QED
      BY <3>2, <1>2, SMTT(60)
  <2> QED
    BY <2>1, <2>2, <2>3, <2>4
<1> QED
  BY <1>4 DEF Distinct, c

(* The elements of a sequence with one in front. *)
LEMMA ConsElements ==
    ASSUME NEW S, NEW e \in S, NEW s \in Seq(S), NEW c, c = <<e>> \o s
    PROVE  \A i \in DOMAIN c : c[i] = e \/ \E k \in DOMAIN s : c[i] = s[k]
<1> SUFFICES ASSUME NEW i \in DOMAIN c PROVE c[i] = e \/ \E k \in DOMAIN s : c[i] = s[k]
  OBVIOUS
<1>1. i # 1 => i - 1 \in DOMAIN s /\ c[i] = s[i - 1]
  BY SMTT(60)
<1>2. c[1] = e
  BY SMTT(60)
<1> QED
  BY <1>1, <1>2

(* The elements of a sequence with one more at its end. *)
LEMMA AppendElements ==
    ASSUME NEW S, NEW e \in S, NEW s \in Seq(S)
    PROVE  /\ Append(s, e) \in Seq(S)
           /\ DOMAIN Append(s, e) = DOMAIN s \union {Len(s) + 1}
           /\ Len(s) + 1 \notin DOMAIN s
           /\ Append(s, e)[Len(s) + 1] = e
           /\ \A i \in DOMAIN s : Append(s, e)[i] = s[i]
  BY SMTT(60)

(* A row of a job that has none is added: the jobs stay distinct. *)
LEMMA AppendDistinct ==
    ASSUME NEW S, NEW e \in S, NEW s \in Seq(S), Distinct(s), \A i \in DOMAIN s : s[i].job # e.job
    PROVE  Distinct(Append(s, e))
<1> DEFINE c == Append(s, e)
           n == Len(s) + 1
<1>1. /\ DOMAIN c = DOMAIN s \union {n} /\ n \notin DOMAIN s /\ c[n] = e
      /\ \A i \in DOMAIN s : c[i] = s[i]
  BY SMTT(60)
<1> HIDE DEF c, n
<1>2. ASSUME NEW i \in DOMAIN c, NEW k \in DOMAIN c, c[i].job = c[k].job PROVE i = k
  <2>1. CASE i \in DOMAIN s /\ k \in DOMAIN s
    <3>1. s[i].job = s[k].job
      BY <2>1, <1>1, <1>2
    <3> QED
      BY <2>1, <3>1 DEF Distinct
  <2>2. CASE ~(i \in DOMAIN s /\ k \in DOMAIN s)
    BY <2>2, <1>1, <1>2
  <2> QED
    BY <2>1, <2>2
<1>3. Distinct(c)
  BY <1>2 DEF Distinct
<1> QED
  BY <1>3 DEF c

(* The first element of a sequence, and the others. *)
LEMMA HeadTail ==
    ASSUME NEW S, NEW s \in Seq(S), s # <<>>
    PROVE  /\ Head(s) \in S /\ Tail(s) \in Seq(S) /\ 1 \in DOMAIN s /\ Head(s) = s[1]
           /\ \A i \in DOMAIN Tail(s) : i + 1 \in DOMAIN s /\ i + 1 # 1 /\ Tail(s)[i] = s[i + 1]
  BY SMTT(60)

(* A job is popped: the jobs stay distinct, and it is not among them. *)
LEMMA TailDistinct ==
    ASSUME NEW S, NEW s \in Seq(S), s # <<>>, Distinct(s)
    PROVE  /\ Distinct(Tail(s))
           /\ \A i \in DOMAIN Tail(s) : Tail(s)[i].job # Head(s).job
<1> DEFINE c == Tail(s)
<1>1. /\ Head(s) = s[1] /\ 1 \in DOMAIN s
      /\ \A i \in DOMAIN c : i + 1 \in DOMAIN s /\ i + 1 # 1 /\ c[i] = s[i + 1]
  BY HeadTail
<1>2. \A i, k \in DOMAIN c : i + 1 = k + 1 => i = k
  BY SMTT(60)
<1> HIDE DEF c
<1>3. ASSUME NEW i \in DOMAIN c, NEW k \in DOMAIN c, c[i].job = c[k].job PROVE i = k
  <2>1. s[i + 1].job = s[k + 1].job /\ i + 1 \in DOMAIN s /\ k + 1 \in DOMAIN s
    BY <1>1, <1>3
  <2>2. i + 1 = k + 1
    BY <2>1 DEF Distinct
  <2> QED
    BY <1>2, <2>2
<1>4. ASSUME NEW i \in DOMAIN c PROVE c[i].job # Head(s).job
  BY <1>1 DEF Distinct
<1>5. Distinct(c)
  BY <1>3 DEF Distinct
<1> QED
  BY <1>4, <1>5 DEF c

(* A request that walks has a stack; what it inserts is queued or pending. *)
RequestOK ==
    \A a \in Request :
        /\ request[a].pc = "idle" => request[a] = NoRequest
        /\ request[a].pc = "walk" => request[a].stack # <<>>
        /\ \A i \in DOMAIN request[a].rows : request[a].rows[i].status \in {"queued", "pending"}

(* Request a goes on with this stack and these rows. *)
Walks(a, stack, rows) ==
    /\ request' \in [Request -> RequestRec]
    /\ request'[a] = [pc |-> IF stack = <<>> THEN "commit" ELSE "walk", stack |-> stack, rows |-> rows]
    /\ \A b \in Request : b # a => request'[b] = request[b]

(* Request a is rolled back, or over. *)
Ends(a) ==
    /\ request' \in [Request -> RequestRec]
    /\ request'[a] = NoRequest
    /\ \A b \in Request : b # a => request'[b] = request[b]

(* The fields of a trigger request. *)
LEMMA RequestFields ==
    ASSUME TypeOK, NEW a \in Request
    PROVE  /\ request[a] \in RequestRec
           /\ request[a].pc \in {"idle", "walk", "commit"}
           /\ request[a].stack \in Seq(Frame)
           /\ RowsOf(a) \in Seq(JobRun) /\ RowsOf(a) = request[a].rows
<1>1. request[a] \in RequestRec
  BY DEF TypeOK
<1> QED
  BY <1>1 DEF RequestRec, Frame, RowsOf

(* A step of the walk sets the stack and the rows of its request. *)
LEMMA StepDoes ==
    ASSUME TypeOK, NEW a \in Request, NEW stack \in Seq(Frame), NEW rows \in Seq(JobRun), Step(a, stack, rows)
    PROVE  Walks(a, stack, rows)
<1> DEFINE p == IF stack = <<>> THEN "commit" ELSE "walk"
           rec == [pc |-> p, stack |-> stack, rows |-> rows]
<1>1. p \in {"idle", "walk", "commit"}
  OBVIOUS
<1>2. request' = [request EXCEPT ![a] = rec]
  BY DEF Step
<1> HIDE DEF p
<1>3. rec \in RequestRec
  BY <1>1 DEF RequestRec, Frame
<1> HIDE DEF rec
<1>4. request' \in [Request -> RequestRec] /\ request'[a] = rec /\ \A b \in Request : b # a => request'[b] = request[b]
  BY <1>2, <1>3 DEF TypeOK
<1> QED
  BY <1>4 DEF Walks, rec, p

(* The empty sequence, for any element type. *)
LEMMA EmptySeq == ASSUME NEW S PROVE <<>> \in Seq(S)
  BY SMTT(60)

(* The record of no request is well typed. *)
LEMMA NoRequestType == NoRequest \in RequestRec
  BY EmptySeq DEF NoRequest, RequestRec

(* A rollback ends the request and leaves no row. *)
LEMMA EndsDoes ==
    ASSUME TypeOK, NEW a \in Request, Rollback(a)
    PROVE  Ends(a)
  BY NoRequestType DEF Rollback, Ends, TypeOK

(* What the walk of a may add to its rows in a step. *)
RowsGrow(a, rows) ==
    \/ rows = RowsOf(a)
    \/ \E j \in Jobs, s \in {"queued", "pending"} :
          /\ rows = Append(RowsOf(a), Row(j, s, 1))
          /\ \A i \in DOMAIN RowsOf(a) : RowsOf(a)[i].job # j
          /\ s = "queued" => deps[j] = {}
          /\ s = "pending" => OnStack(a, j)

(* A stack that the walk of a may go on with. *)
StackFrom(a, stack) ==
    /\ Distinct(stack)
    /\ \A i \in DOMAIN stack : OnStack(a, stack[i].job) \/ deps[stack[i].job] # {}

(* What a step of the walk leads to. *)
WalkStep(a) ==
    \/ Ends(a)
    \/ \E stack \in Seq(Frame), rows \in Seq(JobRun) :
          Walks(a, stack, rows) /\ StackFrom(a, stack) /\ RowsGrow(a, rows)

(* The row of a new run. *)
LEMMA RowType ==
    ASSUME NEW j \in Jobs, NEW s \in RunStatus
    PROVE  Row(j, s, 1) \in JobRun /\ Row(j, s, 1).job = j /\ Row(j, s, 1).status = s
<1>1. 1 \in Nat \ {0}
  BY SMTT(60)
<1> QED
  BY <1>1 DEF Row, JobRun

(* _ensure_run inserts a row for a job that has none in this request. *)
LEMMA FlushDoes ==
    ASSUME TypeOK, NEW a \in Request, NEW stack \in Seq(Frame), StackFrom(a, stack),
           NEW j \in Jobs, NEW s \in {"queued", "pending"},
           \A i \in DOMAIN RowsOf(a) : RowsOf(a)[i].job # j,
           s = "queued" => deps[j] = {}, s = "pending" => OnStack(a, j),
           Flush(a, stack, Row(j, s, 1))
    PROVE  WalkStep(a)
<1> DEFINE rows == Append(RowsOf(a), Row(j, s, 1))
<1>1. Row(j, s, 1) \in JobRun
  BY RowType DEF RunStatus, ACTIVE
<1>2. rows \in Seq(JobRun)
  BY <1>1, RequestFields, AppendElements
<1>3. RowsGrow(a, rows)
  BY DEF RowsGrow
<1>4. CASE Rollback(a)
  BY <1>4, EndsDoes DEF WalkStep
<1>5. CASE Step(a, stack, rows)
  <2> HIDE DEF rows
  <2>1. Walks(a, stack, rows)
    BY <1>2, <1>5, StepDoes
  <2> QED
    BY <2>1, <1>2, <1>3 DEF WalkStep
<1> QED
  BY <1>4, <1>5 DEF Flush

(* _ensure_run is called for a job that is not on the stack. *)
LEMMA VisitDoes ==
    ASSUME TypeOK, NEW a \in Request, NEW stack \in Seq(Frame), StackFrom(a, stack),
           NEW j \in Jobs, \A i \in DOMAIN RowsOf(a) : RowsOf(a)[i].job # j,
           \A i \in DOMAIN stack : stack[i].job # j, Visit(a, stack, j)
    PROVE  WalkStep(a)
<1>1. CASE deps[j] = {}
  BY <1>1, FlushDoes DEF Visit
<1>2. CASE deps[j] # {}
  <2> DEFINE e == [job |-> j, todo |-> deps[j]]
             new == <<e>> \o stack
  <2>1. e \in Frame /\ e.job = j
    BY DEF Frame, TypeOK
  <2>2. Step(a, new, RowsOf(a))
    BY <1>2 DEF Visit
  <2> HIDE DEF e
  <2>3. new \in Seq(Frame)
    BY <2>1, SMTT(60)
  <2>4. Distinct(new)
    BY <2>1, ConsDistinct DEF StackFrom
  <2>5. ASSUME NEW i \in DOMAIN new PROVE OnStack(a, new[i].job) \/ deps[new[i].job] # {}
    <3>1. new = <<e>> \o stack
      OBVIOUS
    <3> HIDE DEF new
    <3>2. new[i] = e \/ \E k \in DOMAIN stack : new[i] = stack[k]
      BY <2>1, <2>5, <3>1, ConsElements, SMTT(60)
    <3> QED
      BY <3>2, <2>1, <1>2 DEF StackFrom
  <2> HIDE DEF new
  <2>6. StackFrom(a, new)
    BY <2>4, <2>5 DEF StackFrom
  <2>7. Walks(a, new, RowsOf(a)) /\ RowsOf(a) \in Seq(JobRun)
    BY <2>2, <2>3, StepDoes, RequestFields
  <2> QED
    BY <2>3, <2>6, <2>7 DEF WalkStep, RowsGrow
<1> QED
  BY <1>1, <1>2

(* trigger_job starts the walk. *)
LEMMA TriggerDoes ==
    ASSUME TypeOK, RequestOK, NEW a \in Request, NEW j \in Jobs, trigger_job(a, j)
    PROVE  WalkStep(a)
<1>1. request[a] = NoRequest /\ Visit(a, <<>>, j)
  BY DEF trigger_job, RequestOK
<1>2. RowsOf(a) = <<>>
  BY <1>1, SMTT(60) DEF RowsOf, NoRequest
<1>3. DOMAIN <<>> = {} /\ <<>> \in Seq(Frame)
  BY SMTT(60)
<1>4. StackFrom(a, <<>>)
  BY <1>3 DEF StackFrom, Distinct
<1>5. /\ \A i \in DOMAIN RowsOf(a) : RowsOf(a)[i].job # j
      /\ \A i \in DOMAIN <<>> : <<>>[i].job # j
  BY <1>2, <1>3, SMTT(60)
<1> QED
  BY <1>1, <1>3, <1>4, <1>5, VisitDoes

(* The jobs of the stack are those that OnStack knows. *)
LEMMA StackSame ==
    ASSUME TypeOK, NEW a \in Request
    PROVE  \A i \in DOMAIN request[a].stack : OnStack(a, request[a].stack[i].job)
  BY DEF OnStack

(* A job all of whose dependencies were visited gets its row. *)
LEMMA LeaveDoes ==
    ASSUME TypeOK, RequestOK, WalkIsPath, NEW a \in Request, LeaveJob(a)
    PROVE  WalkStep(a)
<1> DEFINE s == request[a].stack
           j == Head(s).job
<1>1. s \in Seq(Frame) /\ s # <<>> /\ Distinct(s)
  BY RequestFields DEF LeaveJob, RequestOK, WalkIsPath, Distinct
<1>2. Head(s) \in Frame /\ Tail(s) \in Seq(Frame) /\ 1 \in DOMAIN s /\ Head(s) = s[1]
      /\ \A i \in DOMAIN Tail(s) : i + 1 \in DOMAIN s /\ i + 1 # 1 /\ Tail(s)[i] = s[i + 1]
  BY <1>1, SMTT(60)
<1>3. Distinct(Tail(s))
  BY <1>1, TailDistinct
<1>4. StackFrom(a, Tail(s))
  BY <1>2, <1>3, StackSame DEF StackFrom
<1>5. j \in Jobs /\ OnStack(a, j)
  BY <1>2, StackSame DEF Frame
<1>6. CASE active_run(a, j)
  <2>1. Step(a, Tail(s), RowsOf(a))
    BY <1>6 DEF LeaveJob
  <2>2. Walks(a, Tail(s), RowsOf(a)) /\ RowsOf(a) \in Seq(JobRun)
    BY <2>1, <1>2, StepDoes, RequestFields
  <2> QED
    BY <2>2, <1>2, <1>4 DEF WalkStep, RowsGrow
<1>7. CASE ~active_run(a, j)
  <2>1. Flush(a, Tail(s), Row(j, "pending", 1))
    BY <1>7 DEF LeaveJob
  <2>2. \A i \in DOMAIN RowsOf(a) : RowsOf(a)[i].job # j
    BY <1>7 DEF active_run
  <2> HIDE DEF j, s
  <2> QED
    BY <2>1, <2>2, <1>2, <1>4, <1>5, FlushDoes
<1> QED
  BY <1>6, <1>7

(* A dependency is visited: on the stack already it is a cycle, with an    *)
(* active run it is passed over, else it is pushed.                        *)
LEMMA DependencyDoes ==
    ASSUME TypeOK, RequestOK, WalkIsPath, NEW a \in Request, NEW d \in Jobs, VisitDependency(a, d)
    PROVE  WalkStep(a)
<1> DEFINE s == request[a].stack
           e == [Head(s) EXCEPT !.todo = @ \ {d}]
           stack == <<e>> \o Tail(s)
<1>1. s \in Seq(Frame) /\ s # <<>> /\ Distinct(s)
  BY RequestFields DEF VisitDependency, RequestOK, WalkIsPath, Distinct
<1>2. Head(s) \in Frame /\ Tail(s) \in Seq(Frame) /\ 1 \in DOMAIN s /\ Head(s) = s[1]
      /\ \A i \in DOMAIN Tail(s) : i + 1 \in DOMAIN s /\ i + 1 # 1 /\ Tail(s)[i] = s[i + 1]
  BY <1>1, SMTT(60)
<1>3. Distinct(Tail(s)) /\ \A i \in DOMAIN Tail(s) : Tail(s)[i].job # Head(s).job
  BY <1>1, TailDistinct
<1>4. e \in Frame /\ e.job = Head(s).job
  BY <1>2 DEF Frame
<1>5. \/ active_run(a, d) /\ Step(a, stack, RowsOf(a))
      \/ Rollback(a)
      \/ ~active_run(a, d) /\ ~OnStack(a, d) /\ Visit(a, stack, d)
  BY DEF VisitDependency
<1> HIDE DEF e
<1>6. stack \in Seq(Frame)
  BY <1>2, <1>4, SMTT(60)
<1>7. Distinct(stack)
  BY <1>2, <1>3, <1>4, ConsDistinct
<1>8. ASSUME NEW i \in DOMAIN stack PROVE OnStack(a, stack[i].job)
  <2>1. stack = <<e>> \o Tail(s)
    OBVIOUS
  <2> HIDE DEF stack, s
  <2>2. stack[i] = e \/ \E k \in DOMAIN Tail(s) : stack[i] = Tail(s)[k]
    BY <2>1, <1>2, <1>4, <1>8, ConsElements, SMTT(60)
  <2> USE DEF s
  <2> QED
    BY <2>2, <1>2, <1>4, StackSame
<1> HIDE DEF stack
<1>9. StackFrom(a, stack)
  BY <1>7, <1>8 DEF StackFrom
<1>10. CASE Step(a, stack, RowsOf(a))
  <2>1. Walks(a, stack, RowsOf(a)) /\ RowsOf(a) \in Seq(JobRun)
    BY <1>6, <1>10, StepDoes, RequestFields
  <2> QED
    BY <2>1, <1>6, <1>9 DEF WalkStep, RowsGrow
<1>11. CASE Rollback(a)
  BY <1>11, EndsDoes DEF WalkStep
<1>12. CASE ~active_run(a, d) /\ ~OnStack(a, d) /\ Visit(a, stack, d)
  <2>1. \A i \in DOMAIN RowsOf(a) : RowsOf(a)[i].job # d
    BY <1>12 DEF active_run
  <2>2. \A i \in DOMAIN stack : stack[i].job # d
    BY <1>8, <1>12
  <2> QED
    BY <2>1, <2>2, <1>6, <1>9, <1>12, VisitDoes
<1> QED
  BY <1>5, <1>10, <1>11, <1>12

(* The commit appends the rows of the request, in order. *)
LEMMA CommitDoes ==
    ASSUME TypeOK, NEW a \in Request, CommitTrigger(a)
    PROVE  /\ request[a].pc = "commit" /\ TableStep /\ Ends(a)
           /\ \A q \in DOMAIN runs : runs'[q] = runs[q]
           /\ \A q \in DOMAIN runs' \ DOMAIN runs :
                 q - Len(runs) \in DOMAIN RowsOf(a) /\ runs'[q] = RowsOf(a)[q - Len(runs)]
           /\ outbox' = outbox \union {r \in DOMAIN runs' \ DOMAIN runs : runs'[r].status = "queued"}
           /\ outbox' \in SUBSET RunId
<1>0. RowsOf(a) \in Seq(JobRun) /\ runs \in Seq(JobRun) /\ RunStoreTypeOK
  BY RequestFields DEF TypeOK, RunStoreTypeOK
<1>1. runs' = runs \o RowsOf(a) /\ Len(runs) + Len(RowsOf(a)) <= MaxRuns
  BY DEF CommitTrigger
<1>2. /\ runs' \in Seq(JobRun) /\ Len(runs') = Len(runs) + Len(RowsOf(a))
      /\ Len(runs) \in Nat /\ Len(RowsOf(a)) \in Nat
      /\ \A q \in 1..Len(runs) : runs'[q] = runs[q]
      /\ \A q \in (Len(runs)+1)..Len(runs') : q - Len(runs) \in DOMAIN RowsOf(a) /\ runs'[q] = RowsOf(a)[q - Len(runs)]
  BY <1>0, <1>1, SMTT(60)
<1>3. /\ RunStoreTypeOK' /\ DOMAIN runs = 1..Len(runs)
      /\ DOMAIN runs \subseteq DOMAIN runs'
      /\ DOMAIN runs' \ DOMAIN runs = (Len(runs) + 1)..Len(runs')
      /\ DOMAIN runs' \subseteq RunId
  BY <1>1, <1>2, RunStoreAssumption, SMTT(60) DEF RunStoreTypeOK, RunId
<1>4. \A q \in DOMAIN runs : runs'[q] = runs[q]
  BY <1>2, <1>3
<1>5. TableStep
  BY <1>3, <1>4 DEF TableStep
<1>6. Ends(a)
  BY NoRequestType DEF CommitTrigger, Ends, TypeOK
<1>7. outbox' = outbox \union {r \in DOMAIN runs' \ DOMAIN runs : runs'[r].status = "queued"}
  BY <1>3, SMTT(60) DEF CommitTrigger
<1>8. outbox' \in SUBSET RunId
  BY <1>3, <1>7 DEF TypeOK
<1> QED
  BY <1>2, <1>3, <1>4, <1>5, <1>6, <1>7, <1>8 DEF CommitTrigger

-----------------------------------------------------------------------------
(* Budgets. *)

(* Budgets only go down. *)
BudgetOK == \A k \in DOMAIN Budget : budget[k] <= Budget[k]

(* Spending takes one from the budget of that kind. *)
LEMMA SpendDoes ==
    ASSUME TypeOK, BudgetOK, NEW what \in DOMAIN Budget, Spend(what)
    PROVE  /\ budget' \in [DOMAIN Budget -> Nat]
           /\ \A k \in DOMAIN Budget : budget'[k] <= budget[k]
           /\ budget[what] > 0 /\ budget'[what] = budget[what] - 1
<1> DEFINE spent == IF what = "trigger" THEN {what} ELSE {what, "any"}
<1>0. DOMAIN Budget = {"trigger", "schedule", "retry", "cancel", "update", "delete", "crash", "any"}
  BY DependenciesAssumption
<1>1. /\ \A k \in spent : budget[k] > 0
      /\ budget' = [k \in DOMAIN budget |-> IF k \in spent THEN budget[k] - 1 ELSE budget[k]]
  BY DEF Spend
<1>2. what \in spent /\ spent \subseteq DOMAIN Budget
  BY <1>0
<1> HIDE DEF spent
<1> QED
  BY <1>1, <1>2, SMTT(60) DEF TypeOK

(* No step of the system undoes a disturbance. *)
BudgetStep ==
    /\ budget' \in [DOMAIN Budget -> Nat]
    /\ \A k \in DOMAIN Budget : budget'[k] <= budget[k]

(* What has not happened yet had not happened before. *)
LEMMA BudgetKept ==
    ASSUME TypeOK, BudgetOK, BudgetStep
    PROVE  /\ BudgetOK'
           /\ \A K \in SUBSET DOMAIN Budget : NoneOf(K)' => NoneOf(K)
           /\ OneTrigger' => OneTrigger
<1>0. "trigger" \in DOMAIN Budget /\ Budget \in [DOMAIN Budget -> Nat]
  BY DependenciesAssumption
<1>1. \A k \in DOMAIN Budget : budget'[k] <= Budget[k] /\ (budget'[k] = Budget[k] => budget[k] = Budget[k])
  BY <1>0, SMTT(60) DEF TypeOK, BudgetOK, BudgetStep
<1>2. OneTrigger' => OneTrigger
  BY <1>0, SMTT(60) DEF OneTrigger, TypeOK, BudgetStep
<1>3. ASSUME NEW K \in SUBSET DOMAIN Budget, NoneOf(K)' PROVE NoneOf(K)
  BY <1>1, <1>3 DEF NoneOf
<1> QED
  BY <1>1, <1>2, <1>3 DEF BudgetOK

(* A disturbance is one. *)
LEMMA Disturbs ==
    ASSUME TypeOK, BudgetOK, NEW what \in DOMAIN Budget, Spend(what), NEW K, what \in K
    PROVE  ~NoneOf(K)'
<1>1. budget[what] \in Nat /\ Budget[what] \in Nat /\ budget[what] <= Budget[what]
  BY DependenciesAssumption DEF TypeOK, BudgetOK
<1>2. budget[what] > 0 /\ budget'[what] = budget[what] - 1
  BY SpendDoes
<1>3. budget'[what] # Budget[what]
  BY <1>1, <1>2, SMTT(60)
<1> QED
  BY <1>3 DEF NoneOf

-----------------------------------------------------------------------------
(* References. *)

(* Every message names a row that is there and not pending. *)
QueueOK ==
    /\ \A i \in DOMAIN stream : Known(stream[i])
    /\ \A r \in stale : Known(r)
    /\ \A r \in outbox : Known(r)

(* The base of all that follows: types, references between the parts, and  *)
(* the two properties of the walk.                                         *)
BaseInv ==
    /\ TypeOK /\ BudgetOK /\ QueueOK /\ TaskOK /\ RequestOK
    /\ WalkIsPath /\ OneRowPerJob

(* What every step does. *)
BaseStep ==
    /\ TableStep
    /\ BudgetStep
    /\ TypeOK' /\ QueueOK' /\ TaskOK'

(* Known after the step. *)
KnownNext(r) == r \in DOMAIN runs' /\ runs'[r].status # "pending"

(* A row that may have a message stays one. *)
LEMMA KnownKept == ASSUME TableStep PROVE \A r : Known(r) => KnownNext(r)
  BY DEF TableStep, Known, KnownNext, Status

(* TaskFine(u)', with the references spelled out. *)
FineNext(u) ==
    /\ task'[u].pc = "idle" => task'[u] = Idle
    /\ task'[u].pc # "idle" => KnownNext(task'[u].run)
    /\ task'[u].pc = "finish" => task'[u].result \in Outcomes
    /\ task'[u].pc \in {"pending", "write"} => task'[u].dep \in Jobs
    /\ (task'[u].pc = "write" /\ task'[u].id # 0) =>
          task'[u].id \in DOMAIN runs' /\ runs'[task'[u].id].job = task'[u].dep
    /\ task'[u].pc = "send" => KnownNext(task'[u].id)

(* A task that does not move stays in order, whatever happens to the       *)
(* table.                                                                  *)
LEMMA TaskSame ==
    ASSUME TableStep, NEW u \in Task, TaskFine(u), task'[u] = task[u]
    PROVE  FineNext(u)
<1>1. task[u].id \in DOMAIN runs => task[u].id \in DOMAIN runs' /\ runs'[task[u].id].job = runs[task[u].id].job
  BY DEF TableStep
<1> QED
  BY <1>1, KnownKept DEF TaskFine, FineNext

(* All tasks in order make TaskOK. *)
LEMMA TasksFine == ASSUME \A u \in Task : FineNext(u) PROVE TaskOK'
  BY DEF TaskOK, TaskFine, FineNext, KnownNext, Known, Status

(* One task has moved. *)
LEMMA OneTask ==
    ASSUME TableStep, TaskOK, NEW t \in Task, FineNext(t), \A u \in Task : u # t => task'[u] = task[u]
    PROVE  TaskOK'
<1>1. \A u \in Task : FineNext(u)
  BY TaskSame DEF TaskOK
<1> QED
  BY <1>1, TasksFine

(* A step that moves no task. *)
LEMMA NoTask == ASSUME TableStep, TaskOK, task' = task PROVE TaskOK'
<1>1. \A u \in Task : FineNext(u)
  BY TaskSame DEF TaskOK
<1> QED
  BY <1>1, TasksFine

(* The messages: what was there, and what becomes known. *)
LEMMA QueueStep ==
    ASSUME TypeOK, QueueOK, TableStep,
           \/ stream' = stream
           \/ stream # <<>> /\ stream' = Tail(stream)
           \/ \E r \in RunId : KnownNext(r) /\ stream' = Append(stream, r),
           \A r \in stale' : r \in stale \/ KnownNext(r),
           \A r \in outbox' : r \in outbox \/ KnownNext(r)
    PROVE  QueueOK' /\ stream' \in Seq(RunId)
<1>1. \A i \in DOMAIN stream : KnownNext(stream[i])
  BY KnownKept DEF QueueOK
<1>2. stream \in Seq(RunId)
  BY DEF TypeOK
<1>3. (\A i \in DOMAIN stream' : KnownNext(stream'[i])) /\ stream' \in Seq(RunId)
  <2>1. CASE stream' = stream
    BY <2>1, <1>1, <1>2
  <2>2. CASE stream # <<>> /\ stream' = Tail(stream)
    <3>1. stream' \in Seq(RunId) /\ \A i \in DOMAIN stream' : i + 1 \in DOMAIN stream /\ stream'[i] = stream[i + 1]
      BY <2>2, <1>2, SMTT(60)
    <3> QED
      BY <3>1, <1>1
  <2>3. ASSUME NEW r \in RunId, KnownNext(r), stream' = Append(stream, r)
        PROVE  (\A i \in DOMAIN stream' : KnownNext(stream'[i])) /\ stream' \in Seq(RunId)
    <3> DEFINE n == Len(stream) + 1
    <3>0. /\ stream' \in Seq(RunId) /\ DOMAIN stream' = DOMAIN stream \union {n}
          /\ stream'[n] = r /\ \A i \in DOMAIN stream : stream'[i] = stream[i]
      BY <2>3, <1>2, SMTT(60)
    <3> HIDE DEF n
    <3>1. stream' \in Seq(RunId) /\ \A i \in DOMAIN stream' : stream'[i] = r \/ (i \in DOMAIN stream /\ stream'[i] = stream[i])
      BY <3>0
    <3> QED
      BY <3>1, <1>1, <2>3
  <2> QED
    BY <2>1, <2>2, <2>3
<1>4. (\A r \in stale' : KnownNext(r)) /\ (\A r \in outbox' : KnownNext(r))
  BY KnownKept DEF QueueOK
<1> QED
  BY <1>3, <1>4 DEF QueueOK, Known, KnownNext, Status

(* Types and references after a step, from what it does to each part. *)
LEMMA Assemble ==
    ASSUME BaseInv, TableStep, BudgetStep, TaskOK', task' \in [Task -> TaskRec],
           request' \in [Request -> RequestRec],
           jobs' \subseteq Jobs, deps' \in [Jobs -> SUBSET Jobs], hadSuccess' \subseteq Jobs,
           \/ stream' = stream
           \/ stream # <<>> /\ stream' = Tail(stream)
           \/ \E r \in RunId : KnownNext(r) /\ stream' = Append(stream, r),
           \A r \in stale' : r \in stale \/ KnownNext(r),
           \A r \in outbox' : r \in outbox \/ KnownNext(r),
           \A r \in scheduled' : r \in scheduled \/ KnownNext(r)
    PROVE  BaseStep
<1>1. QueueOK' /\ stream' \in Seq(RunId)
  BY QueueStep DEF BaseInv
<1>2. RunStoreTypeOK' /\ DOMAIN runs' \subseteq RunId
  <2>1. RunStoreTypeOK'
    BY DEF TableStep
  <2> QED
    BY <2>1, RunStoreAssumption, SMTT(60) DEF RunStoreTypeOK, RunId
<1>3. stale' \in SUBSET RunId /\ outbox' \in SUBSET RunId /\ scheduled' \in SUBSET RunId
  BY <1>2 DEF KnownNext, BaseInv, TypeOK
<1> QED
  BY <1>1, <1>2, <1>3 DEF BaseStep, TypeOK, BudgetStep

(* A step that spends nothing. *)
LEMMA BudgetSame == ASSUME BaseInv, budget' = budget PROVE BudgetStep
<1>1. budget \in [DOMAIN Budget -> Nat]
  BY DEF BaseInv, TypeOK
<1> QED
  BY <1>1, SMTT(60) DEF BudgetStep

(* A step that spends one. *)
LEMMA BudgetSpent == ASSUME BaseInv, NEW what \in DOMAIN Budget, Spend(what) PROVE BudgetStep
  BY SpendDoes DEF BaseInv, BudgetStep

(* The kinds of disturbance have a budget. *)
LEMMA Kinds == {"trigger", "schedule", "retry", "cancel", "update", "delete", "crash"} \subseteq DOMAIN Budget
  BY DependenciesAssumption

(* The requests that change neither runs nor messages nor tasks. *)
LEMMA BaseRequest ==
    ASSUME BaseInv, NEW a \in Request,
           \/ \E d \in Jobs : VisitDependency(a, d)
           \/ LeaveJob(a)
           \/ \E j \in Jobs : trigger_job(a, j)
    PROVE  BaseStep /\ WalkStep(a)
<1>1. WalkStep(a)
  BY TriggerDoes, LeaveDoes, DependencyDoes DEF BaseInv
<1>2. request' \in [Request -> RequestRec]
  BY <1>1 DEF WalkStep, Walks, Ends
<1>3. UNCHANGED <<runs, jobs, deps, hadSuccess, scheduled, stream, stale, outbox, task>>
  BY DEF VisitDependency, LeaveJob, trigger_job
<1>4. BudgetStep
  BY BudgetSame, BudgetSpent, Kinds DEF VisitDependency, LeaveJob, trigger_job
<1>5. TableStep
  BY <1>3, TableSame DEF BaseInv, TypeOK
<1>6. TaskOK' /\ task' \in [Task -> TaskRec] /\ jobs' \subseteq Jobs /\ deps' \in [Jobs -> SUBSET Jobs] /\ hadSuccess' \subseteq Jobs
  BY <1>3, <1>5, NoTask DEF BaseInv, TypeOK
<1>7. BaseStep
  BY <1>2, <1>3, <1>4, <1>5, <1>6, Assemble
<1> QED
  BY <1>1, <1>7

(* The commit of a trigger keeps the references. *)
LEMMA BaseCommit ==
    ASSUME BaseInv, NEW a \in Request, CommitTrigger(a)
    PROVE  BaseStep
<1>0. /\ TableStep /\ Ends(a) /\ outbox' = outbox \union {r \in DOMAIN runs' \ DOMAIN runs : runs'[r].status = "queued"}
  BY CommitDoes DEF BaseInv
<1>1. UNCHANGED <<jobs, deps, hadSuccess, scheduled, stream, stale, task, budget>>
  BY DEF CommitTrigger
<1>2. TaskOK' /\ task' \in [Task -> TaskRec] /\ jobs' \subseteq Jobs /\ deps' \in [Jobs -> SUBSET Jobs] /\ hadSuccess' \subseteq Jobs
  BY <1>0, <1>1, NoTask DEF BaseInv, TypeOK
<1>3. request' \in [Request -> RequestRec] /\ BudgetStep
  BY <1>0, <1>1, BudgetSame DEF Ends
<1>4. \A r \in outbox' : r \in outbox \/ KnownNext(r)
  BY <1>0 DEF KnownNext
<1> QED
  BY <1>0, <1>1, <1>2, <1>3, <1>4, Assemble

(* update_job and delete_job keep the references. *)
LEMMA BaseGraph ==
    ASSUME BaseInv,
           \/ \E j \in Jobs, D \in SUBSET Jobs : update_job(j, D)
           \/ \E j \in Jobs : delete_job(j)
    PROVE  BaseStep
<1>1. UNCHANGED <<runs, scheduled, stream, stale, outbox, request, task>>
  BY DEF update_job, delete_job
<1>2. BudgetStep
  BY BudgetSpent, Kinds DEF update_job, delete_job
<1>3. jobs' \subseteq Jobs /\ hadSuccess' \subseteq Jobs
  BY DEF update_job, delete_job, BaseInv, TypeOK
<1>4. deps' \in [Jobs -> SUBSET Jobs]
  <2>1. deps \in [Jobs -> SUBSET Jobs]
    BY DEF BaseInv, TypeOK
  <2>2. ASSUME NEW j \in Jobs, NEW D \in SUBSET Jobs, update_job(j, D) PROVE deps' \in [Jobs -> SUBSET Jobs]
    BY <2>1, <2>2 DEF update_job, set_dependencies
  <2>3. ASSUME NEW j \in Jobs, delete_job(j) PROVE deps' \in [Jobs -> SUBSET Jobs]
    <3>1. deps' = [k \in Jobs |-> IF k = j THEN {} ELSE deps[k] \ {j}]
      BY <2>3 DEF delete_job
    <3> QED
      BY <3>1, <2>1, SMTT(60)
  <2> QED
    BY <2>2, <2>3
<1>5. TableStep
  BY <1>1, TableSame DEF BaseInv, TypeOK
<1>6. TaskOK' /\ task' \in [Task -> TaskRec] /\ request' \in [Request -> RequestRec]
  BY <1>1, <1>5, NoTask DEF BaseInv, TypeOK
<1> QED
  BY <1>1, <1>2, <1>3, <1>4, <1>5, <1>6, Assemble

(* A scheduled run keeps the references. *)
LEMMA BaseSchedule ==
    ASSUME BaseInv, NEW j \in Jobs, schedule_due_jobs(j)
    PROVE  BaseStep
<1>1. UNCHANGED <<jobs, deps, hadSuccess, stream, stale, request, task>>
  BY DEF schedule_due_jobs
<1>2. Adds(Len(runs'), j) /\ TableStep
  BY ScheduleDoes DEF BaseInv, Adds
<1>3. BudgetStep
  BY BudgetSpent, Kinds DEF schedule_due_jobs
<1>4. /\ TaskOK' /\ task' \in [Task -> TaskRec] /\ request' \in [Request -> RequestRec]
      /\ jobs' \subseteq Jobs /\ deps' \in [Jobs -> SUBSET Jobs] /\ hadSuccess' \subseteq Jobs
  BY <1>1, <1>2, NoTask DEF BaseInv, TypeOK
<1>5. /\ outbox' = outbox \union {Len(runs')} /\ scheduled' = scheduled \union {Len(runs')}
      /\ KnownNext(Len(runs'))
  BY <1>2 DEF schedule_due_jobs, Adds, KnownNext
<1> QED
  BY <1>1, <1>2, <1>3, <1>4, <1>5, Assemble

(* The steps about one row: retry, cancel, requeue, enqueue. *)
LEMMA BaseRun ==
    ASSUME BaseInv, NEW r \in DOMAIN runs,
           retry_run(r) \/ cancel(r) \/ requeue_orphans(r) \/ enqueue_run(r)
    PROVE  BaseStep
<1>1. UNCHANGED <<jobs, deps, hadSuccess, scheduled, stale, request, task>>
  BY DEF retry_run, cancel, requeue_orphans, enqueue_run
<1>2. BudgetStep
  BY BudgetSame, BudgetSpent, Kinds DEF retry_run, cancel, requeue_orphans, enqueue_run
<1>3. TableStep
  BY TableSame, RetryDoes, CancelDoes DEF BaseInv, TypeOK, Sets, Adds, requeue_orphans, enqueue_run
<1>4. /\ TaskOK' /\ task' \in [Task -> TaskRec] /\ request' \in [Request -> RequestRec]
      /\ jobs' \subseteq Jobs /\ deps' \in [Jobs -> SUBSET Jobs] /\ hadSuccess' \subseteq Jobs
  BY <1>1, <1>3, NoTask DEF BaseInv, TypeOK
<1>5. r \in RunId
  BY Rows DEF BaseInv, TypeOK
<1>6. CASE retry_run(r)
  <2>1. stream' = stream /\ outbox' = outbox \union {Len(runs')}
    BY <1>6 DEF retry_run
  <2>2. KnownNext(Len(runs'))
    BY <1>6, RetryDoes DEF BaseInv, Adds, KnownNext
  <2> QED
    BY <2>1, <2>2, <1>1, <1>2, <1>3, <1>4, Assemble
<1>7. CASE cancel(r)
  <2>1. stream' = stream /\ outbox' = outbox
    BY <1>7 DEF cancel
  <2> QED
    BY <2>1, <1>1, <1>2, <1>3, <1>4, Assemble
<1>8. CASE requeue_orphans(r)
  <2>1. stream' = stream /\ outbox' = outbox \union {r} /\ Known(r)
    BY <1>8 DEF requeue_orphans, Known
  <2>2. KnownNext(r)
    BY <2>1, <1>3, KnownKept
  <2> QED
    BY <2>1, <2>2, <1>1, <1>2, <1>3, <1>4, Assemble
<1>9. CASE enqueue_run(r)
  <2>1. stream' = Append(stream, r) /\ outbox' = outbox \ {r} /\ Known(r)
    BY <1>9 DEF enqueue_run, BaseInv, QueueOK
  <2>2. KnownNext(r)
    BY <2>1, <1>3, KnownKept
  <2> QED
    BY <2>1, <2>2, <1>1, <1>2, <1>3, <1>4, <1>5, Assemble
<1> QED
  BY <1>6, <1>7, <1>8, <1>9

(* An idle task is in order. *)
LEMMA IdleFine == ASSUME NEW t \in Task, task'[t] = Idle PROVE FineNext(t)
<1>1. Idle.pc = "idle"
  BY DEF Idle
<1> QED
  BY <1>1 DEF FineNext

(* A message is delivered, or delivered again, and its run is claimed or skipped. *)
Delivers(t, r) ==
    /\ r \in RunId /\ Known(r) /\ task[t] = Idle
    /\ \/ stream # <<>> /\ r = Head(stream) /\ stream' = Tail(stream) /\ stale' = stale
       \/ r \in stale /\ stale' = stale \ {r} /\ stream' = stream
    /\ \/ runs' = runs /\ task' = task
       \/ /\ Exists(r) /\ Status(r) \in {"queued", "running"}
          /\ Sets(r, "running") /\ Becomes(t, Claimed(r))

(* A delivery, or a redelivery, is a claim of the run that the message     *)
(* names.                                                                  *)
LEMMA DeliveryDoes ==
    ASSUME BaseInv, NEW t \in Task, Deliver(t) \/ \E r \in RunId : Redeliver(t, r)
    PROVE  \E r : Delivers(t, r)
<1>0. TypeOK
  BY DEF BaseInv
<1>1. PICK r : /\ Known(r) /\ (Start(t, r, TRUE) \/ Start(t, r, FALSE))
               /\ \/ stream # <<>> /\ r = Head(stream) /\ stream' = Tail(stream) /\ stale' = stale
                  \/ r \in stale /\ stale' = stale \ {r} /\ stream' = stream
  <2>1. CASE Deliver(t)
    <3>1. stream \in Seq(RunId) /\ stream # <<>>
      BY <2>1 DEF Deliver, BaseInv, TypeOK
    <3>2. 1 \in DOMAIN stream /\ Head(stream) = stream[1]
      BY <3>1, SMTT(60)
    <3>3. Known(Head(stream)) /\ Start(t, Head(stream), FALSE)
      BY <2>1, <3>2 DEF Deliver, BaseInv, QueueOK
    <3> QED
      BY <2>1, <3>1, <3>3 DEF Deliver
  <2>2. CASE \E r \in RunId : Redeliver(t, r)
    BY <2>2 DEF Redeliver, BaseInv, QueueOK
  <2> QED
    BY <2>1, <2>2
<1>2. /\ TRUE \in BOOLEAN /\ FALSE \in BOOLEAN
      /\ \A s \in Claimable(TRUE) \union Claimable(FALSE) : s # "pending" => s \in {"queued", "running"}
  BY DEF Claimable, ACTIVE
<1>a. Status(r) # "pending"
  BY <1>1 DEF Known
<1>3. /\ task[t] = Idle
      /\ \/ runs' = runs /\ task' = task
         \/ /\ Exists(r) /\ Status(r) \in {"queued", "running"}
            /\ Sets(r, "running") /\ Becomes(t, Claimed(r))
  <2>1. CASE Start(t, r, TRUE)
    BY <1>0, <2>1, <1>1, <1>2, <1>a, StartDoes
  <2>2. CASE Start(t, r, FALSE)
    BY <1>0, <2>2, <1>1, <1>2, <1>a, StartDoes
  <2> QED
    BY <2>1, <2>2, <1>1
<1>4. r \in RunId
  BY <1>0, <1>1, Rows DEF Known, TypeOK
<1>5. Delivers(t, r)
  BY <1>1, <1>3, <1>4 DEF Delivers
<1> QED
  BY <1>5

(* A delivery keeps the references. *)
LEMMA BaseStart ==
    ASSUME BaseInv, NEW t \in Task, Deliver(t) \/ \E r \in RunId : Redeliver(t, r)
    PROVE  BaseStep
<1>1. PICK r : Delivers(t, r)
  BY DeliveryDoes
<1>2. /\ r \in RunId /\ Known(r)
      /\ \/ runs' = runs /\ task' = task
         \/ Sets(r, "running") /\ Becomes(t, Claimed(r))
  BY <1>1 DEF Delivers
<1>3. /\ UNCHANGED <<jobs, deps, hadSuccess, scheduled, outbox, request, budget>>
      /\ stream' = stream \/ (stream # <<>> /\ stream' = Tail(stream))
      /\ stale' \subseteq stale
  BY DEF Deliver, Redeliver
<1>4. /\ request' \in [Request -> RequestRec] /\ BudgetStep
      /\ jobs' \subseteq Jobs /\ deps' \in [Jobs -> SUBSET Jobs] /\ hadSuccess' \subseteq Jobs
  BY <1>3, BudgetSame DEF BaseInv, TypeOK
<1>5. TableStep
  BY <1>2, TableSame DEF Sets, BaseInv, TypeOK
<1>6. TaskOK' /\ task' \in [Task -> TaskRec]
  <2>1. CASE task' = task
    BY <2>1, <1>5, NoTask DEF BaseInv, TypeOK
  <2>2. CASE Becomes(t, Claimed(r))
    <3>2. KnownNext(r)
      BY <1>2, <1>5, KnownKept
    <3>3. task'[t].pc = "exec" /\ task'[t].run = r
      BY <2>2, <1>2, ClaimedType DEF Becomes
    <3>4. FineNext(t)
      BY <3>2, <3>3 DEF FineNext
    <3> QED
      BY <3>4, <2>2, <1>5, OneTask DEF Becomes, BaseInv
  <2> QED
    BY <2>1, <2>2, <1>2
<1> QED
  BY <1>3, <1>4, <1>5, <1>6, Assemble

(* A task is over. *)
LEMMA BaseEnd ==
    ASSUME BaseInv, NEW t \in Task, FanOutFails(t) \/ FanOutDone(t) \/ Interrupt(t) \/ Crash(t)
    PROVE  BaseStep
<1>1. Becomes(t, Idle)
  BY EndDoes DEF BaseInv
<1>2. UNCHANGED <<runs, jobs, deps, hadSuccess, scheduled, stream, outbox, request>>
  BY DEF FanOutFails, FanOutDone, Interrupt, Crash
<1>3. TableStep
  BY <1>2, TableSame DEF BaseInv, TypeOK
<1>4. BudgetStep
  BY BudgetSame, BudgetSpent, Kinds DEF FanOutFails, FanOutDone, Interrupt, Crash
<1>5. TaskOK' /\ task' \in [Task -> TaskRec]
  BY <1>1, <1>3, IdleFine, OneTask DEF Becomes, BaseInv
<1>6. \A r \in stale' : r \in stale \/ KnownNext(r)
  <2>1. CASE stale' = stale
    BY <2>1
  <2>2. CASE Crash(t)
    <3>1. stale' = stale \union {task[t].run} /\ task[t].pc # "idle"
      BY <2>2 DEF Crash, BaseInv, TaskOK, TaskFine
    <3>2. KnownNext(task[t].run)
      BY <3>1, <1>3, KnownKept DEF BaseInv, TaskOK, TaskFine
    <3> QED
      BY <3>1, <3>2
  <2> QED
    BY <2>1, <2>2 DEF FanOutFails, FanOutDone, Interrupt
<1>7. /\ request' \in [Request -> RequestRec]
      /\ jobs' \subseteq Jobs /\ deps' \in [Jobs -> SUBSET Jobs] /\ hadSuccess' \subseteq Jobs
  BY <1>2 DEF BaseInv, TypeOK
<1> QED
  BY <1>2, <1>3, <1>4, <1>5, <1>6, <1>7, Assemble

(* The other steps of process_run. *)
LEMMA BaseTask ==
    ASSUME BaseInv, NEW t \in Task,
           \/ \E s \in Outcomes : Execute(t, s)
           \/ FinishRun(t)
           \/ dependents_ready(t)
           \/ \E d \in Jobs : CheckDispatched(t, d)
           \/ SelectPending(t)
           \/ create_dependency_run(t)
           \/ EnqueueDependent(t)
    PROVE  BaseStep
<1>0. TypeOK /\ TaskOK /\ TaskFine(t) /\ RunStoreTypeOK
  BY DEF BaseInv, TaskOK, TypeOK
<1>1. /\ UNCHANGED <<jobs, deps, scheduled, stale, outbox, request, budget>>
      /\ stream' = stream \/ EnqueueDependent(t)
  BY DEF Execute, FinishRun, dependents_ready, CheckDispatched, SelectPending, create_dependency_run, EnqueueDependent
<1>2. TableStep
  <2>1. CASE runs' = runs
    BY <2>1, <1>0, TableSame
  <2>2. CASE FinishRun(t)
    BY <2>2, <1>0, FinishDoes, TableSame DEF Sets
  <2>3. CASE create_dependency_run(t)
    BY <2>3, <1>0, WriteDoes DEF Sets, Adds
  <2> QED
    BY <2>1, <2>2, <2>3 DEF Execute, dependents_ready, CheckDispatched, SelectPending, EnqueueDependent
<1>3. hadSuccess' \subseteq Jobs
  <2>1. hadSuccess \subseteq Jobs
    BY <1>0 DEF TypeOK
  <2>2. CASE FinishRun(t)
    BY <2>1, <2>2 DEF FinishRun, Succeeded
  <2> QED
    BY <2>1, <2>2 DEF Execute, dependents_ready, CheckDispatched, SelectPending, create_dependency_run, EnqueueDependent
<1>4. KnownNext(task[t].run) \/ task[t].pc = "idle"
  BY <1>0, <1>2, KnownKept DEF TaskFine
<1> DEFINE Fine == FineNext(t) /\ task' \in [Task -> TaskRec] /\ \A u \in Task : u # t => task'[u] = task[u]
<1>5. Fine
  <2>1. ASSUME NEW s \in Outcomes, Execute(t, s) PROVE Fine
    <3>1. CASE Becomes(t, Idle)
      BY <3>1, IdleFine DEF Becomes
    <3>2. CASE Moves(t, "finish") /\ task'[t].result = s /\ task[t].pc = "exec"
      BY <3>2, <1>4 DEF Moves, FineNext
    <3> QED
      BY <3>1, <3>2, <2>1, <1>0, ExecuteDoes
  <2>2. CASE FinishRun(t)
    <3>1. CASE Becomes(t, Idle)
      BY <3>1, IdleFine DEF Becomes
    <3>2. CASE Moves(t, "ready") /\ task[t].pc = "finish"
      BY <3>2, <1>4 DEF Moves, FineNext
    <3> QED
      BY <3>1, <3>2, <2>2, <1>0, FinishDoes
  <2>3. CASE dependents_ready(t)
    <3>1. Moves(t, "loop") /\ task[t].pc = "ready"
      BY <2>3, <1>0, ReadyDoes
    <3> QED
      BY <3>1, <1>4 DEF Moves, FineNext
  <2>4. ASSUME NEW d \in Jobs, CheckDispatched(t, d) PROVE Fine
    <3>1. CASE Moves(t, "loop") /\ task[t].pc = "loop"
      BY <3>1, <1>4 DEF Moves, FineNext
    <3>2. CASE Moves(t, "pending") /\ task'[t].dep = d /\ task[t].pc = "loop"
      BY <3>2, <1>4 DEF Moves, FineNext
    <3> HIDE DEF Fine
    <3> QED
      BY <3>1, <3>2, <2>4, <1>0, CheckDoes
  <2>5. CASE SelectPending(t)
    <3>1. /\ task[t].pc = "pending" /\ Moves(t, "write") /\ task'[t].dep = task[t].dep
          /\ task'[t].id = 0 \/ task'[t].id \in RunsOf(task[t].dep, {"pending"})
      BY <2>5, <1>0, SelectDoes
    <3>2. task'[t].id # 0 => task'[t].id \in DOMAIN runs' /\ runs'[task'[t].id].job = task'[t].dep
      BY <3>1, <1>2 DEF RunsOf, TableStep
    <3>3. task[t].dep \in Jobs
      BY <3>1, <1>0 DEF TaskFine
    <3> QED
      BY <3>1, <3>2, <3>3, <1>4 DEF Moves, FineNext
  <2>6. CASE create_dependency_run(t)
    <3>1. /\ task[t].pc = "write" /\ Moves(t, "send")
          /\ \/ task[t].id # 0 /\ Sets(task[t].id, "queued") /\ task'[t].id = task[t].id
             \/ task[t].id = 0 /\ Adds(task'[t].id, task[t].dep)
      BY <2>6, <1>0, WriteDoes
    <3>2. task[t].id # 0 => task[t].id \in DOMAIN runs
      BY <3>1, <1>0 DEF TaskFine
    <3>3. KnownNext(task'[t].id)
      BY <3>1, <3>2 DEF KnownNext, Sets, Adds
    <3> QED
      BY <3>1, <3>3, <1>4 DEF Moves, FineNext
  <2>7. CASE EnqueueDependent(t)
    <3>1. Moves(t, "loop") /\ task[t].pc = "send"
      BY <2>7, <1>0, EnqueueDoes
    <3> QED
      BY <3>1, <1>4 DEF Moves, FineNext
  <2> QED
    BY <2>1, <2>2, <2>3, <2>4, <2>5, <2>6, <2>7
<1>6. TaskOK'
  BY <1>0, <1>2, <1>5, OneTask
<1>7. stream' = stream \/ \E r \in RunId : KnownNext(r) /\ stream' = Append(stream, r)
  <2>1. CASE EnqueueDependent(t)
    <3>1. stream' = Append(stream, task[t].id) /\ Known(task[t].id)
      BY <2>1, <1>0 DEF EnqueueDependent, TaskFine
    <3>2. task[t].id \in RunId /\ KnownNext(task[t].id)
      BY <3>1, <1>0, <1>2, KnownKept, Rows DEF Known
    <3> QED
      BY <3>1, <3>2
  <2> QED
    BY <2>1, <1>1
<1>8. request' \in [Request -> RequestRec] /\ BudgetStep /\ jobs' \subseteq Jobs /\ deps' \in [Jobs -> SUBSET Jobs]
  BY <1>0, <1>1, BudgetSame DEF TypeOK
<1> QED
  BY <1>1, <1>2, <1>3, <1>5, <1>6, <1>7, <1>8, Assemble

-----------------------------------------------------------------------------
(* The invariants of the requests, and all of them together. *)

(* The steps of the walk of a trigger. *)
WalkAct(a) ==
    \/ \E d \in Jobs : VisitDependency(a, d)
    \/ LeaveJob(a)
    \/ \E j \in Jobs : trigger_job(a, j)

(* The steps that change jobs and dependencies. *)
GraphAct ==
    \/ \E j \in Jobs, D \in SUBSET Jobs : update_job(j, D)
    \/ \E j \in Jobs : delete_job(j)

(* A scheduled run. *)
ScheduleAct == \E j \in Jobs : schedule_due_jobs(j)

(* The steps about one run. *)
RunAct(r) == retry_run(r) \/ cancel(r) \/ requeue_orphans(r) \/ enqueue_run(r)

(* The steps that start a task. *)
StartAct(t) == Deliver(t) \/ \E r \in RunId : Redeliver(t, r)

(* The steps of process_run and of the fan-out. *)
MoveAct(t) ==
    \/ \E s \in Outcomes : Execute(t, s)
    \/ FinishRun(t)
    \/ dependents_ready(t)
    \/ \E d \in Jobs : CheckDispatched(t, d)
    \/ SelectPending(t)
    \/ create_dependency_run(t)
    \/ EnqueueDependent(t)

(* The steps that end a task. *)
EndAct(t) == FanOutFails(t) \/ FanOutDone(t) \/ Interrupt(t) \/ Crash(t)

(* The steps by what they change. *)
LEMMA Steps ==
    ASSUME [Next]_vars
    PROVE  \/ \E a \in Request : WalkAct(a)
           \/ \E a \in Request : CommitTrigger(a)
           \/ GraphAct
           \/ ScheduleAct
           \/ \E r \in DOMAIN runs : RunAct(r)
           \/ \E t \in Task : StartAct(t)
           \/ \E t \in Task : MoveAct(t)
           \/ \E t \in Task : EndAct(t)
           \/ UNCHANGED vars
<1>1. ASSUME NEW a \in Request, RequestStep(a) PROVE WalkAct(a) \/ CommitTrigger(a)
  BY <1>1 DEF RequestStep, WalkAct
<1>2. ASSUME NEW a \in Request, NEW j \in Jobs, trigger_job(a, j) PROVE WalkAct(a)
  BY <1>2 DEF WalkAct
<1>3. ASSUME NEW t \in Task, TaskStep(t) PROVE StartAct(t) \/ MoveAct(t) \/ EndAct(t)
  BY <1>3 DEF TaskStep, StartAct, MoveAct, EndAct
<1>4. ASSUME NEW t \in Task, Interrupt(t) \/ Crash(t) PROVE EndAct(t)
  BY <1>4 DEF EndAct
<1>5. CASE \E a \in Request : RequestStep(a) \/ \E j \in Jobs : trigger_job(a, j)
  BY <1>1, <1>2, <1>5
<1>6. CASE \E t \in Task : TaskStep(t) \/ Interrupt(t) \/ Crash(t)
  BY <1>3, <1>4, <1>6
<1>7. CASE \/ \E j \in Jobs, D \in SUBSET Jobs : update_job(j, D)
           \/ \E j \in Jobs : delete_job(j) \/ schedule_due_jobs(j)
  BY <1>7 DEF GraphAct, ScheduleAct
<1>8. CASE \E r \in DOMAIN runs : retry_run(r) \/ cancel(r) \/ requeue_orphans(r) \/ enqueue_run(r)
  BY <1>8 DEF RunAct
<1> QED
  BY <1>5, <1>6, <1>7, <1>8 DEF Next

(* Every step keeps types, budgets and references. *)
LEMMA BaseKept == ASSUME BaseInv, [Next]_vars PROVE BaseStep
<1>1. CASE UNCHANGED vars
  <2>1. UNCHANGED <<runs, jobs, deps, hadSuccess, scheduled, stream, stale, outbox, request, task, budget>>
    BY <1>1 DEF vars
  <2>2. TableStep /\ BudgetStep
    BY <2>1, TableSame, BudgetSame DEF BaseInv, TypeOK
  <2>3. /\ TaskOK' /\ task' \in [Task -> TaskRec] /\ request' \in [Request -> RequestRec]
        /\ jobs' \subseteq Jobs /\ deps' \in [Jobs -> SUBSET Jobs] /\ hadSuccess' \subseteq Jobs
    BY <2>1, <2>2, NoTask DEF BaseInv, TypeOK
  <2> QED
    BY <2>1, <2>2, <2>3, Assemble
<1>2. CASE \E a \in Request : WalkAct(a)
  BY <1>2, BaseRequest DEF WalkAct
<1>3. CASE \E a \in Request : CommitTrigger(a)
  BY <1>3, BaseCommit
<1>4. CASE GraphAct
  BY <1>4, BaseGraph DEF GraphAct
<1>5. CASE \E r \in DOMAIN runs : RunAct(r)
  BY <1>5, BaseRun DEF RunAct
<1>6. CASE \E t \in Task : StartAct(t)
  BY <1>6, BaseStart DEF StartAct
<1>7. CASE \E t \in Task : MoveAct(t)
  BY <1>7, BaseTask DEF MoveAct
<1>8. CASE \E t \in Task : EndAct(t)
  BY <1>8, BaseEnd DEF EndAct
<1>9. CASE ScheduleAct
  BY <1>9, BaseSchedule DEF ScheduleAct
<1> QED
  BY <1>1, <1>2, <1>3, <1>4, <1>5, <1>6, <1>7, <1>8, <1>9, Steps

(* The request of a after a step. *)
RequestNext(a) ==
    /\ request'[a].pc = "idle" => request'[a] = NoRequest
    /\ request'[a].pc = "walk" => request'[a].stack # <<>>
    /\ \A i \in DOMAIN request'[a].rows : request'[a].rows[i].status \in {"queued", "pending"}
    /\ Distinct(request'[a].stack)
    /\ Distinct(request'[a].rows)

(* A request that does not move. *)
LEMMA RequestSame ==
    ASSUME RequestOK, WalkIsPath, OneRowPerJob, NEW a \in Request, request'[a] = request[a]
    PROVE  RequestNext(a)
  BY DEF RequestNext, RequestOK, WalkIsPath, OneRowPerJob, RowsOf, Distinct

(* The requests, taken together. *)
LEMMA RequestsNext ==
    ASSUME \A a \in Request : RequestNext(a)
    PROVE  RequestOK' /\ WalkIsPath' /\ OneRowPerJob'
  BY DEF RequestNext, RequestOK, WalkIsPath, OneRowPerJob, RowsOf, Distinct

(* A request that ended is in order. *)
LEMMA EndsNext == ASSUME NEW a \in Request, Ends(a) PROVE RequestNext(a)
<1>1. request'[a] = [pc |-> "idle", stack |-> <<>>, rows |-> <<>>]
  BY DEF Ends, NoRequest
<1>2. request'[a].stack = <<>> /\ request'[a].rows = <<>> /\ request'[a].pc = "idle"
  BY <1>1, SMTT(60)
<1>3. DOMAIN <<>> = {}
  BY SMTT(60)
<1>4. Distinct(<<>>)
  BY <1>3 DEF Distinct
<1> QED
  BY <1>1, <1>2, <1>3, <1>4 DEF RequestNext, NoRequest

(* A request that walked on is in order: the stack is a path and each job  *)
(* has one row.                                                            *)
LEMMA WalksNext ==
    ASSUME BaseInv, NEW a \in Request, NEW stack \in Seq(Frame), NEW rows \in Seq(JobRun),
           Walks(a, stack, rows), StackFrom(a, stack), RowsGrow(a, rows)
    PROVE  RequestNext(a)
<1>1. /\ request'[a].pc = IF stack = <<>> THEN "commit" ELSE "walk"
      /\ request'[a].stack = stack /\ request'[a].rows = rows
  BY SMTT(60) DEF Walks
<1>2. Distinct(RowsOf(a)) /\ RowsOf(a) \in Seq(JobRun)
  BY RequestFields DEF BaseInv, OneRowPerJob, Distinct
<1>a. \A i \in DOMAIN RowsOf(a) : RowsOf(a)[i].status \in {"queued", "pending"}
  BY DEF BaseInv, RequestOK, RowsOf
<1>3. Distinct(rows) /\ \A i \in DOMAIN rows : rows[i].status \in {"queued", "pending"}
  <2>1. CASE rows = RowsOf(a)
    BY <2>1, <1>2, <1>a
  <2>2. ASSUME NEW j \in Jobs, NEW s \in {"queued", "pending"}, rows = Append(RowsOf(a), Row(j, s, 1)),
               \A i \in DOMAIN RowsOf(a) : RowsOf(a)[i].job # j
        PROVE  Distinct(rows) /\ \A i \in DOMAIN rows : rows[i].status \in {"queued", "pending"}
    <3> DEFINE row == Row(j, s, 1)
    <3>1. row \in JobRun /\ row.job = j /\ row.status = s
      BY RowType DEF RunStatus, ACTIVE
    <3> HIDE DEF row
    <3>2. Distinct(rows)
      BY <3>1, <2>2, <1>2, AppendDistinct DEF row
    <3>3. \A i \in DOMAIN rows : rows[i] = row \/ (i \in DOMAIN RowsOf(a) /\ rows[i] = RowsOf(a)[i])
      BY <3>1, <2>2, <1>2, SMTT(60) DEF row
    <3> QED
      BY <3>1, <3>2, <3>3, <1>a
  <2> QED
    BY <2>1, <2>2 DEF RowsGrow
<1> QED
  BY <1>1, <1>3 DEF RequestNext, StackFrom

(* Every step keeps all requests in order. *)
LEMMA RequestsKept ==
    ASSUME BaseInv, [Next]_vars
    PROVE  RequestOK' /\ WalkIsPath' /\ OneRowPerJob'
<1>0. RequestOK /\ WalkIsPath /\ OneRowPerJob
  BY DEF BaseInv
<1>1. ASSUME request' = request PROVE \A b \in Request : RequestNext(b)
  BY <1>0, <1>1, RequestSame
<1>2. ASSUME NEW a \in Request, WalkAct(a) PROVE \A b \in Request : RequestNext(b)
  <2>1. WalkStep(a)
    BY <1>2, BaseRequest DEF WalkAct
  <2>2. RequestNext(a) /\ \A b \in Request : b # a => request'[b] = request[b]
    <3>1. CASE Ends(a)
      BY <3>1, EndsNext DEF Ends
    <3>2. ASSUME NEW stack \in Seq(Frame), NEW rows \in Seq(JobRun),
                 Walks(a, stack, rows), StackFrom(a, stack), RowsGrow(a, rows)
          PROVE  RequestNext(a) /\ \A b \in Request : b # a => request'[b] = request[b]
      BY <3>2, WalksNext DEF Walks
    <3> QED
      BY <3>1, <3>2, <2>1 DEF WalkStep
  <2> QED
    BY <2>2, <1>0, RequestSame
<1>3. ASSUME NEW a \in Request, CommitTrigger(a) PROVE \A b \in Request : RequestNext(b)
  <2>1. Ends(a)
    BY <1>3, CommitDoes DEF BaseInv
  <2> QED
    BY <2>1, <1>0, EndsNext, RequestSame DEF Ends
<1>4. ASSUME NEW t \in Task, MoveAct(t) PROVE request' = request
  BY <1>4 DEF MoveAct, Execute, FinishRun, dependents_ready, CheckDispatched, SelectPending, create_dependency_run, EnqueueDependent
<1>5. ASSUME NEW t \in Task, StartAct(t) \/ EndAct(t) PROVE request' = request
  BY <1>5 DEF StartAct, EndAct, Deliver, Redeliver, FanOutFails, FanOutDone, Interrupt, Crash
<1>6. ASSUME NEW r \in DOMAIN runs, RunAct(r) PROVE request' = request
  BY <1>6 DEF RunAct, retry_run, cancel, requeue_orphans, enqueue_run
<1>7. ASSUME GraphAct \/ ScheduleAct PROVE request' = request
  BY <1>7 DEF GraphAct, update_job, delete_job, ScheduleAct, schedule_due_jobs
<1>8. ASSUME UNCHANGED vars PROVE request' = request
  BY <1>8 DEF vars
<1>9. \A b \in Request : RequestNext(b)
  BY <1>1, <1>2, <1>3, <1>4, <1>5, <1>6, <1>7, <1>8, Steps
<1> QED
  BY <1>9, RequestsNext

(* The base invariant is inductive. *)
LEMMA BaseInductive == BaseInv /\ [Next]_vars => BaseInv'
<1> SUFFICES ASSUME BaseInv, [Next]_vars PROVE BaseInv'
  OBVIOUS
<1>1. BaseStep
  BY BaseKept
<1>2. BudgetOK'
  BY <1>1, BudgetKept DEF BaseStep, BaseInv
<1> QED
  BY <1>1, <1>2, RequestsKept DEF BaseStep, BaseInv

(* The base invariant holds at first. *)
LEMMA BaseInit == Init => BaseInv
<1> SUFFICES ASSUME Init PROVE BaseInv
  OBVIOUS
<1>1. /\ runs = <<>> /\ jobs = Jobs /\ deps = depends_on /\ hadSuccess = {} /\ scheduled = {}
      /\ stream = <<>> /\ stale = {} /\ outbox = {} /\ budget = Budget
      /\ request = [a \in Request |-> NoRequest] /\ task = [t \in Task |-> Idle]
  BY DEF Init
<1>2. RunStoreTypeOK /\ stream \in Seq(RunId) /\ DOMAIN stream = {}
  BY <1>1, RunStoreAssumption, SMTT(60) DEF RunStoreTypeOK
<1>3. request \in [Request -> RequestRec] /\ task \in [Task -> TaskRec]
  BY <1>1, NoRequestType, IdleType
<1>4. TypeOK
  BY <1>1, <1>2, <1>3, DependenciesAssumption DEF TypeOK
<1>5. BudgetOK
  BY <1>1, DependenciesAssumption, SMTT(60) DEF BudgetOK
<1>6. QueueOK
  BY <1>1, <1>2 DEF QueueOK
<1>7. \A t \in Task : task[t] = Idle
  BY <1>1
<1>a. Idle.pc = "idle"
  BY DEF Idle
<1>8. TaskOK
  BY <1>7, <1>a DEF TaskOK, TaskFine
<1>9. DOMAIN <<>> = {}
  BY SMTT(60)
<1>10. \A a \in Request : request[a] = NoRequest
  BY <1>1
<1>11. NoRequest.stack = <<>> /\ NoRequest.rows = <<>> /\ NoRequest.pc = "idle"
  BY SMTT(60) DEF NoRequest
<1>12. RequestOK /\ WalkIsPath /\ OneRowPerJob
  BY <1>9, <1>10, <1>11 DEF RequestOK, WalkIsPath, OneRowPerJob, RowsOf
<1> QED
  BY <1>4, <1>5, <1>6, <1>8, <1>12 DEF BaseInv

(* The base invariant holds always. *)
LEMMA Base == Spec => []BaseInv
<1> QED
  BY BaseInit, BaseInductive, PTL DEF Spec

(* The recursion of _prepare_trigger_run never meets a job that is on its  *)
(* stack, for every graph of dependencies and every change of it during    *)
(* the walk.                                                               *)
THEOREM WalksArePaths == Spec => []WalkIsPath
<1>1. BaseInv => WalkIsPath
  BY DEF BaseInv
<1> QED
  BY <1>1, Base, PTL

(* A trigger creates one run of a job at most. *)
THEOREM RowsAreUnique == Spec => []OneRowPerJob
<1>1. BaseInv => OneRowPerJob
  BY DEF BaseInv
<1> QED
  BY <1>1, Base, PTL

-----------------------------------------------------------------------------
(* A run waits for the dependencies of its job. Succeeded is no invariant  *)
(* to build on: two fan-outs may both have selected a pending run, and the *)
(* later UPDATE puts a run that has succeeded back to queued. So the       *)
(* argument is about the successes there have been, hadSuccess.            *)

(* Task t has chosen job k, and has yet to make or to promote a run of it. *)
Aims(t, k) == k \in task[t].todo \/ (task[t].pc \in {"pending", "write"} /\ task[t].dep = k)

(* The same in the next state. *)
AimsNext(t, k) == k \in task'[t].todo \/ (task'[t].pc \in {"pending", "write"} /\ task'[t].dep = k)

(* A trigger is about to queue only runs of jobs without dependencies. *)
RowsWait == \A a \in Request : \A i \in DOMAIN RowsOf(a) :
                RowsOf(a)[i].status = "queued" => deps[RowsOf(a)[i].job] = {}

(* No task aims at a job whose dependencies have not all had a success. *)
AimsWait == \A t \in Task : \A k \in Jobs : Aims(t, k) => deps[k] \subseteq hadSuccess

(* Run q is dispatched, and the scheduler and retry_run have not made it. *)
Dispatched(q) ==
    /\ runs[q].job \in jobs /\ runs[q].status \in {"queued", "running"}
    /\ q \notin scheduled /\ runs[q].attempt = 1

(* No such run of a job whose dependencies have not all had a success. *)
RunsWait == \A q \in DOMAIN runs : Dispatched(q) => deps[runs[q].job] \subseteq hadSuccess

(* A success is remembered; and without a change of the graph, rows about  *)
(* to be inserted, the aims of fan-outs and the runs dispatched all wait   *)
(* for the dependencies.                                                   *)
AfterInv ==
    /\ Succeeded \subseteq hadSuccess
    /\ NoneOf({"update"}) => RowsWait /\ AimsWait /\ RunsWait

(* What a step of a task leaves it aiming at. *)
LEMMA AimsMove ==
    ASSUME BaseInv, NEW t \in Task, MoveAct(t), NEW k \in Jobs, AimsNext(t, k)
    PROVE  \/ Aims(t, k)
           \/ dependents_ready(t) /\ k \in Ready(runs[task[t].run].job)
<1>0. TypeOK /\ TaskOK
  BY DEF BaseInv
<1>a. Idle.todo = {} /\ Idle.pc = "idle"
  BY DEF Idle
<1>1. ASSUME NEW s \in Outcomes, Execute(t, s) PROVE Aims(t, k)
  <2>1. \/ task'[t] = Idle
        \/ task'[t].pc = "finish" /\ task'[t].todo = task[t].todo
    BY <1>0, <1>1, ExecuteDoes DEF Becomes, Moves
  <2> QED
    BY <2>1, <1>a DEF AimsNext, Aims
<1>2. CASE FinishRun(t)
  <2>1. \/ task'[t] = Idle
        \/ task'[t].pc = "ready" /\ task'[t].todo = task[t].todo
    BY <1>0, <1>2, FinishDoes DEF Becomes, Moves
  <2> QED
    BY <2>1, <1>a DEF AimsNext, Aims
<1>3. CASE dependents_ready(t)
  <2>1. task'[t].pc = "loop" /\ task'[t].todo = Ready(runs[task[t].run].job)
    BY <1>0, <1>3, ReadyDoes DEF Moves
  <2> QED
    BY <2>1, <1>3 DEF AimsNext
<1>4. ASSUME NEW d \in Jobs, CheckDispatched(t, d) PROVE Aims(t, k)
  <2>1. /\ d \in task[t].todo /\ task'[t].todo = task[t].todo \ {d}
        /\ task'[t].pc = "loop" \/ (task'[t].pc = "pending" /\ task'[t].dep = d)
    BY <1>0, <1>4, CheckDoes DEF Moves
  <2> QED
    BY <2>1 DEF AimsNext, Aims
<1>5. CASE SelectPending(t)
  <2>1. task'[t].todo = task[t].todo /\ task'[t].dep = task[t].dep /\ task[t].pc = "pending"
    BY <1>0, <1>5, SelectDoes
  <2> QED
    BY <2>1 DEF AimsNext, Aims
<1>6. CASE create_dependency_run(t)
  <2>1. task'[t].todo = task[t].todo /\ task'[t].pc = "send"
    BY <1>0, <1>6, WriteDoes DEF Moves
  <2> QED
    BY <2>1 DEF AimsNext, Aims
<1>7. CASE EnqueueDependent(t)
  <2>1. task'[t].todo = task[t].todo /\ task'[t].pc = "loop"
    BY <1>0, <1>7, EnqueueDoes DEF Moves
  <2> QED
    BY <2>1 DEF AimsNext, Aims
<1> QED
  BY <1>1, <1>2, <1>3, <1>4, <1>5, <1>6, <1>7 DEF MoveAct

(* A step of a task leaves the others alone. *)
LEMMA OthersStay ==
    ASSUME BaseInv, NEW t \in Task, MoveAct(t)
    PROVE  \A u \in Task : u # t => task'[u] = task[u]
<1>0. TypeOK /\ TaskOK
  BY DEF BaseInv
<1>1. ASSUME NEW s \in Outcomes, Execute(t, s) PROVE \A u \in Task : u # t => task'[u] = task[u]
  BY <1>0, <1>1, ExecuteDoes DEF Becomes, Moves
<1>2. CASE FinishRun(t)
  BY <1>0, <1>2, FinishDoes DEF Becomes, Moves
<1>3. ASSUME NEW d \in Jobs, CheckDispatched(t, d) PROVE \A u \in Task : u # t => task'[u] = task[u]
  BY <1>0, <1>3, CheckDoes DEF Moves
<1>4. CASE dependents_ready(t) \/ SelectPending(t) \/ create_dependency_run(t) \/ EnqueueDependent(t)
  BY <1>0, <1>4, ReadyDoes, SelectDoes, WriteDoes, EnqueueDoes DEF Moves
<1> QED
  BY <1>1, <1>2, <1>3, <1>4 DEF MoveAct

(* A task that begins or is over aims at nothing. *)
LEMMA AimsStart ==
    ASSUME BaseInv, NEW t \in Task, StartAct(t) \/ EndAct(t)
    PROVE  \A u \in Task : \A k : AimsNext(u, k) => Aims(u, k)
<1>0. TypeOK /\ TaskOK
  BY DEF BaseInv
<1>1. ASSUME NEW rec, rec.todo = {}, rec.pc \notin {"pending", "write"}, Becomes(t, rec)
      PROVE  \A u \in Task : \A k : AimsNext(u, k) => Aims(u, k)
  BY <1>1 DEF Becomes, AimsNext, Aims
<1>2. CASE EndAct(t)
  <2>1. Becomes(t, Idle) /\ Idle.todo = {} /\ Idle.pc \notin {"pending", "write"}
    BY <1>0, <1>2, EndDoes DEF EndAct, Idle
  <2> QED
    BY <2>1, <1>1
<1>3. CASE StartAct(t)
  <2>0. PICK r : Delivers(t, r)
    BY <1>3, DeliveryDoes DEF StartAct
  <2>1. r \in RunId /\ (task' = task \/ Becomes(t, Claimed(r)))
    BY <2>0 DEF Delivers
  <2>2. CASE task' = task
    BY <2>2 DEF AimsNext, Aims
  <2>3. CASE Becomes(t, Claimed(r))
    <3>1. Claimed(r).todo = {} /\ Claimed(r).pc \notin {"pending", "write"}
      BY <2>1, ClaimedType
    <3> QED
      BY <3>1, <2>3, <1>1
  <2> QED
    BY <2>1, <2>2, <2>3
<1> QED
  BY <1>2, <1>3

(* Succeeded, by the rows, before and after a step. *)
LEMMA SucceededMeans ==
    ASSUME NEW j \in Jobs
    PROVE  /\ j \in Succeeded <=> \E q \in DOMAIN runs : runs[q].job = j /\ j \in jobs /\ runs[q].status = "succeeded"
           /\ j \in Succeeded' <=> \E q \in DOMAIN runs' : runs'[q].job = j /\ j \in jobs' /\ runs'[q].status = "succeeded"
  BY DEF Succeeded, RunsOf, Exists, Status

(* A step by which no run succeeds. *)
LEMMA SuccessKept ==
    ASSUME jobs' \subseteq jobs, Succeeded \subseteq hadSuccess, hadSuccess \subseteq hadSuccess',
           \A q \in DOMAIN runs' : runs'[q].status = "succeeded" =>
               q \in DOMAIN runs /\ runs[q].status = "succeeded" /\ runs'[q].job = runs[q].job
    PROVE  Succeeded' \subseteq hadSuccess'
<1> SUFFICES ASSUME NEW j \in Succeeded' PROVE j \in hadSuccess'
  OBVIOUS
<1>1. j \in Jobs
  BY DEF Succeeded
<1>2. PICK q \in DOMAIN runs' : runs'[q].job = j /\ j \in jobs' /\ runs'[q].status = "succeeded"
  BY <1>1, SucceededMeans
<1>3. q \in DOMAIN runs /\ runs[q].job = j /\ j \in jobs /\ runs[q].status = "succeeded"
  BY <1>2
<1>4. j \in Succeeded
  BY <1>1, <1>3, SucceededMeans
<1> QED
  BY <1>4

(* A step that dispatches only scheduled runs, retries, and runs whose     *)
(* dependencies had a success.                                             *)
LEMMA RunsWaitKept ==
    ASSUME TableStep, jobs' \subseteq jobs, deps' = deps, hadSuccess \subseteq hadSuccess',
           scheduled \subseteq scheduled', RunsWait,
           \A q \in DOMAIN runs' : runs'[q].status \in {"queued", "running"} =>
               \/ q \in DOMAIN runs /\ runs[q].status \in {"queued", "running"} /\ runs'[q].job = runs[q].job
               \/ deps[runs'[q].job] \subseteq hadSuccess
               \/ q \in scheduled' \/ runs'[q].attempt # 1
    PROVE  RunsWait'
<1>1. ASSUME NEW q \in DOMAIN runs', Dispatched(q)' PROVE deps'[runs'[q].job] \subseteq hadSuccess'
  <2>1. /\ runs'[q].job \in jobs' /\ runs'[q].status \in {"queued", "running"}
        /\ q \notin scheduled' /\ runs'[q].attempt = 1
    BY <1>1 DEF Dispatched
  <2>2. CASE q \in DOMAIN runs /\ runs[q].status \in {"queued", "running"} /\ runs'[q].job = runs[q].job
    <3>1. runs[q].attempt = runs'[q].attempt
      BY <2>2 DEF TableStep
    <3>2. Dispatched(q)
      BY <2>1, <2>2, <3>1 DEF Dispatched
    <3>3. deps[runs[q].job] \subseteq hadSuccess
      BY <2>2, <3>2 DEF RunsWait
    <3> QED
      BY <2>2, <3>3
  <2>3. CASE deps[runs'[q].job] \subseteq hadSuccess
    BY <2>3
  <2> QED
    BY <2>1, <2>2, <2>3
<1> QED
  BY <1>1 DEF RunsWait

(* AimsWait after a step, when a task aims only at what it aimed at        *)
(* before, or at jobs whose dependencies have succeeded.                   *)
LEMMA AimsWaitKept ==
    ASSUME deps' = deps, hadSuccess \subseteq hadSuccess', AimsWait,
           \A t \in Task : \A k \in Jobs : AimsNext(t, k) => Aims(t, k) \/ deps[k] \subseteq hadSuccess
    PROVE  AimsWait'
<1>1. \A t \in Task : \A k \in Jobs : AimsNext(t, k) => deps[k] \subseteq hadSuccess
  BY DEF AimsWait
<1> QED
  BY <1>1 DEF AimsWait, Aims, AimsNext

(* A step that leaves the requests alone. *)
LEMMA RowsWaitSame ==
    ASSUME deps' = deps, request' = request, RowsWait
    PROVE  RowsWait'
  BY DEF RowsWait, RowsOf

(* A row that the walk of b has added. *)
Added(b, row) ==
    \E j \in Jobs, s \in {"queued", "pending"} :
        /\ row.job = j /\ row.status = s
        /\ s = "queued" => deps[j] = {}
        /\ s = "pending" => OnStack(b, j)

(* Where the rows and the stacks of the requests come from. *)
LEMMA WalkFrom ==
    ASSUME BaseInv, NEW a \in Request, WalkStep(a)
    PROVE  /\ \A b \in Request : \A i \in DOMAIN request'[b].rows :
                  (\E k \in DOMAIN RowsOf(b) : request'[b].rows[i] = RowsOf(b)[k]) \/ Added(b, request'[b].rows[i])
           /\ \A b \in Request : \A i \in DOMAIN request'[b].stack :
                  OnStack(b, request'[b].stack[i].job) \/ deps[request'[b].stack[i].job] # {}
<1> DEFINE Good(b) == /\ \A i \in DOMAIN request'[b].rows :
                             (\E k \in DOMAIN RowsOf(b) : request'[b].rows[i] = RowsOf(b)[k]) \/ Added(b, request'[b].rows[i])
                      /\ \A i \in DOMAIN request'[b].stack :
                             OnStack(b, request'[b].stack[i].job) \/ deps[request'[b].stack[i].job] # {}
<1>0. TypeOK
  BY DEF BaseInv
<1>1. ASSUME NEW b \in Request, request'[b] = request[b] PROVE Good(b)
  BY <1>1 DEF OnStack, RowsOf
<1>2. CASE Ends(a)
  <2>1. request'[a].stack = <<>> /\ request'[a].rows = <<>> /\ DOMAIN <<>> = {}
    BY <1>2, SMTT(60) DEF Ends, NoRequest
  <2>2. Good(a)
    BY <2>1
  <2> QED
    BY <2>2, <1>1, <1>2 DEF Ends
<1>3. ASSUME NEW stack \in Seq(Frame), NEW rows \in Seq(JobRun),
             Walks(a, stack, rows), StackFrom(a, stack), RowsGrow(a, rows)
      PROVE  \A b \in Request : Good(b)
  <2>1. request'[a].stack = stack /\ request'[a].rows = rows
    BY <1>3, SMTT(60) DEF Walks
  <2>2. \A i \in DOMAIN rows : (\E k \in DOMAIN RowsOf(a) : rows[i] = RowsOf(a)[k]) \/ Added(a, rows[i])
    <3>1. CASE rows = RowsOf(a)
      BY <3>1
    <3>2. ASSUME NEW j \in Jobs, NEW s \in {"queued", "pending"}, rows = Append(RowsOf(a), Row(j, s, 1)),
                 s = "queued" => deps[j] = {}, s = "pending" => OnStack(a, j)
          PROVE  \A i \in DOMAIN rows : (\E k \in DOMAIN RowsOf(a) : rows[i] = RowsOf(a)[k]) \/ Added(a, rows[i])
      <4> DEFINE row == Row(j, s, 1)
      <4>1. row \in JobRun /\ row.job = j /\ row.status = s
        BY RowType DEF RunStatus, ACTIVE
      <4>2. RowsOf(a) \in Seq(JobRun)
        BY <1>0, RequestFields
      <4> HIDE DEF row
      <4>3. \A i \in DOMAIN rows : rows[i] = row \/ (i \in DOMAIN RowsOf(a) /\ rows[i] = RowsOf(a)[i])
        BY <3>2, <4>1, <4>2, SMTT(60) DEF row
      <4>4. Added(a, row)
        BY <4>1, <3>2 DEF Added
      <4> QED
        BY <4>3, <4>4
    <3> QED
      BY <3>1, <3>2, <1>3 DEF RowsGrow
  <2>3. Good(a)
    BY <2>1, <2>2, <1>3 DEF StackFrom
  <2>4. \A b \in Request : b # a => request'[b] = request[b]
    BY <1>3 DEF Walks
  <2> HIDE DEF Good
  <2> QED
    BY <2>3, <2>4, <1>1
<1>4. \A b \in Request : Good(b)
  BY <1>2, <1>3 DEF WalkStep
<1> QED
  BY <1>4

(* No row becomes succeeded that was not. *)
NoSuccess ==
    \A q \in DOMAIN runs' : runs'[q].status = "succeeded" =>
        q \in DOMAIN runs /\ runs[q].status = "succeeded" /\ runs'[q].job = runs[q].job

-----------------------------------------------------------------------------
(* One trigger. *)

(* No trigger yet, nor a scheduled run. *)
NoTrigger == budget["trigger"] = Budget["trigger"] /\ NoneOf({"schedule"})

(* One trigger at most, and no scheduled run. *)
Single == OneTrigger /\ NoneOf({"schedule"})

(* The rows of the first trigger are the first rows. *)
OnceInv ==
    /\ NoTrigger => DOMAIN runs = {} /\ \A a \in Request : request[a].pc = "idle"
    /\ Single => \A a \in Request : request[a].pc # "idle" =>
          DOMAIN runs = {} /\ \A b \in Request : request[b].pc # "idle" => a = b

(* What triggers there were, there still are. *)
LEMMA TriggerKept ==
    ASSUME BaseInv, BaseStep
    PROVE  (NoTrigger' => NoTrigger) /\ (Single' => Single)
<1>0. TypeOK /\ BudgetOK /\ BudgetStep
  BY DEF BaseInv, BaseStep
<1>1. OneTrigger' => OneTrigger
  BY <1>0, BudgetKept
<1>2. "trigger" \in DOMAIN Budget /\ Budget \in [DOMAIN Budget -> Nat]
  BY DependenciesAssumption
<1>3. budget'["trigger"] = Budget["trigger"] => budget["trigger"] = Budget["trigger"]
  BY <1>0, <1>2, SMTT(60) DEF TypeOK, BudgetOK, BudgetStep
<1>4. {"schedule"} \in SUBSET DOMAIN Budget
  BY Kinds
<1>5. NoneOf({"schedule"})' => NoneOf({"schedule"})
  BY <1>0, <1>4, BudgetKept
<1> QED
  BY <1>1, <1>3, <1>5 DEF NoTrigger, Single

(* A trigger is the first one or the second. *)
LEMMA FirstTrigger ==
    ASSUME BaseInv, Spend("trigger")
    PROVE  ~NoTrigger' /\ (Single' => NoTrigger)
<1>0. TypeOK /\ BudgetOK
  BY DEF BaseInv
<1>1. "trigger" \in DOMAIN Budget /\ Budget \in [DOMAIN Budget -> Nat]
  BY DependenciesAssumption
<1>2. budget["trigger"] > 0 /\ budget'["trigger"] = budget["trigger"] - 1
  BY <1>0, <1>1, SpendDoes
<1>3. /\ budget'["trigger"] # Budget["trigger"]
      /\ OneTrigger' => budget["trigger"] = Budget["trigger"]
  BY <1>0, <1>1, <1>2, SMTT(60) DEF OneTrigger, TypeOK, BudgetOK
<1>4. {"schedule"} \in SUBSET DOMAIN Budget /\ BudgetStep
  BY <1>1, Kinds, BudgetSpent
<1>5. NoneOf({"schedule"})' => NoneOf({"schedule"})
  BY <1>0, <1>4, BudgetKept
<1> QED
  BY <1>3, <1>5 DEF NoTrigger, Single

(* A scheduled run is a disturbance. *)
LEMMA ScheduleEnds ==
    ASSUME BaseInv, ScheduleAct, NEW K, "schedule" \in K
    PROVE  ~NoneOf(K)'
<1>1. Spend("schedule") /\ "schedule" \in DOMAIN Budget
  BY Kinds DEF ScheduleAct, schedule_due_jobs
<1> QED
  BY <1>1, Disturbs DEF BaseInv

(* A step that leaves the requests alone. *)
LEMMA OnceSame ==
    ASSUME OnceInv, NoTrigger' => NoTrigger, Single' => Single,
           request' = request, runs' = runs \/ DOMAIN runs # {}
    PROVE  OnceInv'
<1>1. NoTrigger' => DOMAIN runs' = {} /\ \A a \in Request : request'[a].pc = "idle"
  BY DEF OnceInv
<1>2. Single' => \A a \in Request : request'[a].pc # "idle" =>
          DOMAIN runs' = {} /\ \A b \in Request : request'[b].pc # "idle" => a = b
  BY DEF OnceInv
<1> QED
  BY <1>1, <1>2 DEF OnceInv

(* The walk of the only trigger. *)
LEMMA OnceWalk ==
    ASSUME BaseInv, OnceInv, NoTrigger' => NoTrigger, Single' => Single, NEW a \in Request, WalkAct(a)
    PROVE  OnceInv'
<1>1. WalkStep(a)
  BY BaseRequest DEF WalkAct
<1>2. runs' = runs /\ \A b \in Request : b # a => request'[b] = request[b]
  BY <1>1 DEF WalkAct, VisitDependency, LeaveJob, trigger_job, WalkStep, Ends, Walks
<1>3. CASE Spend("trigger")
  <2>1. ~NoTrigger' /\ (Single' => NoTrigger)
    BY <1>3, FirstTrigger
  <2>2. Single' => DOMAIN runs' = {} /\ \A b \in Request : request'[b].pc # "idle" => b = a
    BY <2>1, <1>2 DEF OnceInv
  <2> QED
    BY <2>1, <2>2 DEF OnceInv
<1>4. CASE request[a].pc # "idle"
  <2>1. ~NoTrigger'
    BY <1>4 DEF OnceInv
  <2>2. Single' => DOMAIN runs' = {} /\ \A b \in Request : request'[b].pc # "idle" => b = a
    BY <1>2, <1>4 DEF OnceInv
  <2> QED
    BY <2>1, <2>2 DEF OnceInv
<1> QED
  BY <1>3, <1>4 DEF WalkAct, VisitDependency, LeaveJob, trigger_job

(* The commit of the only trigger. *)
LEMMA OnceCommit ==
    ASSUME BaseInv, OnceInv, NoTrigger' => NoTrigger, Single' => Single, NEW a \in Request, CommitTrigger(a)
    PROVE  OnceInv'
<1>1. request[a].pc # "idle"
  BY DEF CommitTrigger
<1>2. Ends(a)
  BY CommitDoes DEF BaseInv
<1>3. NoRequest.pc = "idle"
  BY SMTT(60) DEF NoRequest
<1>4. request'[a].pc = "idle" /\ \A b \in Request : b # a => request'[b] = request[b]
  BY <1>2, <1>3 DEF Ends
<1>5. ~NoTrigger'
  BY <1>1 DEF OnceInv
<1>6. Single' => \A b \in Request : request'[b].pc = "idle"
  BY <1>1, <1>4 DEF OnceInv
<1> QED
  BY <1>5, <1>6 DEF OnceInv

(* The invariant is inductive, given the base. *)
LEMMA OnceInductive == BaseInv /\ OnceInv /\ [Next]_vars => OnceInv'
<1> SUFFICES ASSUME BaseInv, OnceInv, [Next]_vars PROVE OnceInv'
  OBVIOUS
<1>0. (NoTrigger' => NoTrigger) /\ (Single' => Single)
  BY BaseKept, TriggerKept
<1>1. CASE UNCHANGED vars
  BY <1>0, <1>1, OnceSame DEF vars
<1>2. ASSUME NEW t \in Task, MoveAct(t) PROVE OnceInv'
  <2>1. request' = request
    BY <1>2 DEF MoveAct, Execute, FinishRun, dependents_ready, CheckDispatched, SelectPending, create_dependency_run, EnqueueDependent
  <2>2. task[t].pc # "idle"
    BY <1>2 DEF MoveAct, Execute, FinishRun, dependents_ready, CheckDispatched, SelectPending, create_dependency_run, EnqueueDependent
  <2>3. task[t].run \in DOMAIN runs
    BY <2>2 DEF BaseInv, TaskOK, TaskFine, Known
  <2> QED
    BY <2>1, <2>3, <1>0, OnceSame
<1>3. ASSUME NEW t \in Task, StartAct(t) PROVE OnceInv'
  <2>1. request' = request
    BY <1>3 DEF StartAct, Deliver, Redeliver
  <2>2. PICK r : Delivers(t, r)
    BY <1>3, DeliveryDoes DEF StartAct
  <2>3. r \in DOMAIN runs
    BY <2>2 DEF Delivers, Known
  <2> QED
    BY <2>1, <2>3, <1>0, OnceSame
<1>4. ASSUME NEW t \in Task, EndAct(t) PROVE OnceInv'
  <2>1. request' = request /\ runs' = runs
    BY <1>4 DEF EndAct, FanOutFails, FanOutDone, Interrupt, Crash
  <2> QED
    BY <2>1, <1>0, OnceSame
<1>5. ASSUME NEW r \in DOMAIN runs, RunAct(r) PROVE OnceInv'
  <2>1. request' = request
    BY <1>5 DEF RunAct, retry_run, cancel, requeue_orphans, enqueue_run
  <2> QED
    BY <2>1, <1>0, OnceSame
<1>6. ASSUME GraphAct PROVE OnceInv'
  <2>1. request' = request /\ runs' = runs
    BY <1>6 DEF GraphAct, update_job, delete_job
  <2> QED
    BY <2>1, <1>0, OnceSame
<1>7. ASSUME ScheduleAct PROVE OnceInv'
  <2>1. ~NoneOf({"schedule"})'
    BY <1>7, ScheduleEnds
  <2>2. ~NoTrigger' /\ ~Single'
    BY <2>1 DEF NoTrigger, Single
  <2> QED
    BY <2>2 DEF OnceInv
<1> QED
  BY <1>0, <1>1, <1>2, <1>3, <1>4, <1>5, <1>6, <1>7, Steps, OnceWalk, OnceCommit

(* The invariant holds at first. *)
LEMMA OnceInit == Init => OnceInv
<1> SUFFICES ASSUME Init PROVE OnceInv
  OBVIOUS
<1>0. DOMAIN <<>> = {} /\ NoRequest.pc = "idle"
  BY SMTT(60) DEF NoRequest
<1> QED
  BY <1>0 DEF Init, OnceInv

-----------------------------------------------------------------------------
(* NoLostWakeup. *)

(* No second trigger, no scheduled run, no crash, no change of the graph,  *)
(* no deletion.                                                            *)
Peace == OneTrigger /\ NoneOf({"schedule", "crash", "update", "delete"})

(* The walk makes pending rows only of jobs that have dependencies. *)
StackWaits == \A a \in Request : \A i \in DOMAIN request[a].stack : deps[request[a].stack[i].job] # {}

(* What a trigger inserts as pending has dependencies. *)
RowsPend == \A a \in Request : \A i \in DOMAIN RowsOf(a) :
                RowsOf(a)[i].status = "pending" => deps[RowsOf(a)[i].job] # {}

(* A pending run is the only run of its job. *)
Alone == \A r, q \in DOMAIN runs : (runs[r].status = "pending" /\ runs[q].job = runs[r].job) => q = r

(* A task that will insert a run has a job without a pending one. *)
Fresh ==
    \A t \in Task : (task[t].pc = "write" /\ task[t].id = 0) =>
        \A q \in DOMAIN runs : runs[q].job = task[t].dep => runs[q].status # "pending"

(* A job with a pending run has a dependency d such that each task that    *)
(* has made a success of d is yet to look for that pending run.            *)
Woken ==
    \A r \in DOMAIN runs : runs[r].status = "pending" =>
        \E d \in deps[runs[r].job] : \A s \in DOMAIN runs :
            (runs[s].job = d /\ runs[s].status = "succeeded") =>
                \E t \in Task : task[t].run = s /\ FanningOut(t, runs[r].job)

(* While nothing but one trigger, retries and cancels happened, all of     *)
(* this holds.                                                             *)
WakeInv == Peace => jobs = Jobs /\ StackWaits /\ RowsPend /\ Alone /\ Fresh /\ Woken

(* FanningOut(t, j)', with the references spelled out. *)
FanNext(t, j) ==
    \/ task'[t].pc = "ready" /\ runs'[task'[t].run].job \in deps'[j]
    \/ AimsNext(t, j)

(* FanningOut, by what the task aims at. *)
LEMMA FanningIs ==
    ASSUME NEW t, NEW j
    PROVE  /\ FanningOut(t, j) <=> (task[t].pc = "ready" /\ runs[task[t].run].job \in deps[j]) \/ Aims(t, j)
  BY DEF FanningOut, Aims

(* A row that is new is not pending. *)
NewRows == \A q \in DOMAIN runs' : q \in DOMAIN runs \/ runs'[q].status # "pending"

(* A new row is of a job without a pending run. *)
NewAlone == \A q \in DOMAIN runs' \ DOMAIN runs : \A p \in DOMAIN runs :
                runs[p].job = runs'[q].job => runs[p].status # "pending"

(* A step that makes no second pending run of a job. *)
LEMMA AloneKept ==
    ASSUME TableStep, Alone, NewRows, NewAlone
    PROVE  Alone'
<1>1. ASSUME NEW r \in DOMAIN runs', NEW q \in DOMAIN runs', runs'[r].status = "pending", runs'[q].job = runs'[r].job
      PROVE  q = r
  <2>1. r \in DOMAIN runs
    BY <1>1 DEF NewRows
  <2>2. runs[r].status = "pending" /\ runs'[r].job = runs[r].job
    BY <2>1, <1>1 DEF TableStep
  <2>3. q \in DOMAIN runs
    BY <1>1, <2>1, <2>2 DEF NewAlone
  <2>4. runs'[q].job = runs[q].job
    BY <2>3 DEF TableStep
  <2> QED
    BY <1>1, <2>1, <2>2, <2>3, <2>4 DEF Alone
<1> QED
  BY <1>1 DEF Alone

(* A step that makes no pending run behind the back of a fan-out that has  *)
(* looked for one.                                                         *)
LEMMA FreshKept ==
    ASSUME TableStep, Fresh, NewRows,
           \A u \in Task : (task'[u].pc = "write" /\ task'[u].id = 0) =>
               \/ task'[u] = task[u]
               \/ \A q \in DOMAIN runs : runs[q].job = task'[u].dep => runs[q].status # "pending"
    PROVE  Fresh'
<1>1. ASSUME NEW u \in Task, task'[u].pc = "write", task'[u].id = 0,
             NEW q \in DOMAIN runs', runs'[q].job = task'[u].dep, runs'[q].status = "pending"
      PROVE  FALSE
  <2>1. q \in DOMAIN runs
    BY <1>1 DEF NewRows
  <2>2. runs[q].status = "pending" /\ runs[q].job = task'[u].dep
    BY <2>1, <1>1 DEF TableStep
  <2>3. CASE task'[u] = task[u]
    BY <2>1, <2>2, <2>3, <1>1 DEF Fresh
  <2> QED
    BY <2>1, <2>2, <2>3, <1>1
<1> QED
  BY <1>1 DEF Fresh

(* A pending run after the step was one before. *)
LEMMA PendingWas ==
    ASSUME TableStep, NewRows, NEW r \in DOMAIN runs', runs'[r].status = "pending"
    PROVE  r \in DOMAIN runs /\ runs[r].status = "pending" /\ runs'[r].job = runs[r].job
<1>1. r \in DOMAIN runs
  BY DEF NewRows
<1> QED
  BY <1>1 DEF TableStep

(* Woken', with the references spelled out. *)
WokenNext(r) ==
    \E d \in deps'[runs'[r].job] : \A s \in DOMAIN runs' :
        (runs'[s].job = d /\ runs'[s].status = "succeeded") =>
            \E t \in Task : task'[t].run = s /\ FanNext(t, runs'[r].job)

(* Each pending run is woken or has someone to wake it. *)
LEMMA WokenIs ==
    ASSUME \A r \in DOMAIN runs' : runs'[r].status = "pending" => WokenNext(r)
    PROVE  Woken'
  BY DEF Woken, WokenNext, FanNext, AimsNext, FanningOut

(* The steps after which no run is a success that was none. *)
LEMMA WokenKept ==
    ASSUME TableStep, deps' = deps, Woken, NewRows, NoSuccess,
           \A u \in Task : \A r \in DOMAIN runs :
               (runs'[r].status = "pending" /\ runs'[task[u].run].status = "succeeded" /\ FanningOut(u, runs[r].job)) =>
                   task'[u].run = task[u].run /\ FanNext(u, runs[r].job)
    PROVE  Woken'
<1>1. ASSUME NEW r \in DOMAIN runs', runs'[r].status = "pending" PROVE WokenNext(r)
  <2>1. r \in DOMAIN runs /\ runs[r].status = "pending" /\ runs'[r].job = runs[r].job
    BY <1>1, PendingWas
  <2> DEFINE j == runs[r].job
  <2>2. PICK d \in deps[j] : \A s \in DOMAIN runs :
            (runs[s].job = d /\ runs[s].status = "succeeded") => \E t \in Task : task[t].run = s /\ FanningOut(t, j)
    BY <2>1 DEF Woken
  <2>3. ASSUME NEW s \in DOMAIN runs', runs'[s].job = d, runs'[s].status = "succeeded"
        PROVE  \E t \in Task : task'[t].run = s /\ FanNext(t, runs'[r].job)
    <3>1. s \in DOMAIN runs /\ runs[s].status = "succeeded" /\ runs[s].job = d
      BY <2>3 DEF NoSuccess
    <3>2. PICK t \in Task : task[t].run = s /\ FanningOut(t, j)
      BY <3>1, <2>2
    <3>3. task'[t].run = task[t].run /\ FanNext(t, j)
      BY <3>2, <2>1, <2>3, <1>1
    <3>4. FanNext(t, runs'[r].job)
      BY <3>3, <2>1
    <3> QED
      BY <3>2, <3>3, <3>4
  <2>4. d \in deps'[runs'[r].job]
    BY <2>1, <2>2
  <2> QED
    BY <2>3, <2>4 DEF WokenNext
<1> QED
  BY <1>1, WokenIs

(* Any other status than succeeded makes no success. *)
LEMMA SetNoSuccess == ASSUME NEW r, NEW s, Sets(r, s), s # "succeeded" PROVE NoSuccess
<1>1. DOMAIN runs' = DOMAIN runs /\ \A q \in DOMAIN runs :
          runs'[q].job = runs[q].job /\ runs'[q].status = IF q = r THEN s ELSE runs[q].status
  BY DEF Sets, TableStep
<1>2. \A q \in DOMAIN runs : runs'[q].status = "succeeded" => runs[q].status = "succeeded"
  BY <1>1
<1> QED
  BY <1>1, <1>2 DEF NoSuccess

(* If there is peace after a step, there was before. *)
LEMMA PeaceKept ==
    ASSUME BaseInv, [Next]_vars
    PROVE  (Peace' => Peace) /\ TableStep
<1>1. BaseStep
  BY BaseKept
<1>2. (\A K \in SUBSET DOMAIN Budget : NoneOf(K)' => NoneOf(K)) /\ (OneTrigger' => OneTrigger)
  BY <1>1, BudgetKept DEF BaseStep, BaseInv
<1>3. {"schedule", "crash", "update", "delete"} \in SUBSET DOMAIN Budget
  BY Kinds
<1>4. NoneOf({"schedule", "crash", "update", "delete"})' => NoneOf({"schedule", "crash", "update", "delete"})
  BY <1>2, <1>3
<1> QED
  BY <1>1, <1>2, <1>4 DEF BaseStep, Peace

(* What the steps spend that end the peace. *)
LEMMA PeaceEnds ==
    ASSUME BaseInv, Peace'
    PROVE  /\ ~Spend("crash") /\ ~Spend("update") /\ ~Spend("delete")
<1>0. TypeOK /\ BudgetOK
  BY DEF BaseInv
<1>1. "crash" \in DOMAIN Budget /\ "update" \in DOMAIN Budget /\ "delete" \in DOMAIN Budget
  BY Kinds
<1> DEFINE K == {"schedule", "crash", "update", "delete"}
<1>2. "crash" \in K /\ "update" \in K /\ "delete" \in K
  OBVIOUS
<1>3. NoneOf(K)'
  BY DEF Peace
<1> HIDE DEF K
<1>4. (Spend("crash") => ~NoneOf(K)') /\ (Spend("update") => ~NoneOf(K)') /\ (Spend("delete") => ~NoneOf(K)')
  BY <1>0, <1>1, <1>2, Disturbs
<1> QED
  BY <1>3, <1>4

(* What holds before a step of peace. *)
LEMMA WakeBefore ==
    ASSUME WakeInv, Peace
    PROVE  jobs = Jobs /\ StackWaits /\ RowsPend /\ Alone /\ Fresh /\ Woken
  BY DEF WakeInv

(* A step that changes no run and no task. *)
LEMMA WakeSame ==
    ASSUME RunStoreTypeOK, UNCHANGED <<runs, deps, task>>, Alone, Fresh, Woken
    PROVE  Alone' /\ Fresh' /\ Woken'
<1>1. TableStep /\ NewRows /\ NewAlone /\ NoSuccess
  BY TableSame DEF NewRows, NewAlone, NoSuccess
<1>2. Alone'
  BY <1>1, AloneKept
<1>3. Fresh'
  BY <1>1, FreshKept
<1>4. ASSUME NEW u \in Task, NEW j, FanningOut(u, j) PROVE FanNext(u, j)
  BY <1>4 DEF FanningOut, FanNext, AimsNext
<1>5. Woken'
  BY <1>1, <1>4, WokenKept
<1> QED
  BY <1>2, <1>3, <1>5

(* The walk of the trigger. *)
LEMMA WakeWalk ==
    ASSUME BaseInv, WakeInv, Peace, NEW a \in Request, WalkAct(a)
    PROVE  WakeInv'
<1>0. jobs = Jobs /\ StackWaits /\ RowsPend /\ Alone /\ Fresh /\ Woken
  BY WakeBefore
<1>1. UNCHANGED <<runs, jobs, deps, task>>
  BY DEF WalkAct, VisitDependency, LeaveJob, trigger_job
<1>2. jobs' = Jobs /\ Alone' /\ Fresh' /\ Woken'
  BY <1>0, <1>1, WakeSame DEF BaseInv, TypeOK
<1>3. WalkStep(a)
  BY BaseRequest DEF WalkAct
<1>4. /\ \A b \in Request : \A i \in DOMAIN request'[b].rows :
             (\E k \in DOMAIN RowsOf(b) : request'[b].rows[i] = RowsOf(b)[k]) \/ Added(b, request'[b].rows[i])
      /\ \A b \in Request : \A i \in DOMAIN request'[b].stack :
             OnStack(b, request'[b].stack[i].job) \/ deps[request'[b].stack[i].job] # {}
  BY <1>3, WalkFrom
<1>5. \A b \in Request : \A j : OnStack(b, j) => deps[j] # {}
  BY <1>0 DEF OnStack, StackWaits
<1>6. StackWaits'
  BY <1>1, <1>4, <1>5 DEF StackWaits
<1>7. ASSUME NEW b \in Request, NEW i \in DOMAIN request'[b].rows, request'[b].rows[i].status = "pending"
      PROVE  deps[request'[b].rows[i].job] # {}
  <2> DEFINE row == request'[b].rows[i]
  <2>1. CASE \E k \in DOMAIN RowsOf(b) : row = RowsOf(b)[k]
    <3>1. PICK k \in DOMAIN RowsOf(b) : row = RowsOf(b)[k]
      BY <2>1
    <3>2. RowsOf(b)[k].status = "pending" => deps[RowsOf(b)[k].job] # {}
      BY <1>0 DEF RowsPend
    <3>3. row.status = "pending"
      BY <1>7
    <3> HIDE DEF row
    <3>4. deps[row.job] # {}
      BY <3>1, <3>2, <3>3
    <3> QED
      BY <3>4 DEF row
  <2>2. CASE Added(b, row)
    BY <2>2, <1>5, <1>7 DEF Added
  <2> QED
    BY <2>1, <2>2, <1>4
<1>8. RowsPend'
  BY <1>1, <1>7 DEF RowsPend, RowsOf
<1> QED
  BY <1>2, <1>6, <1>8 DEF WakeInv

(* The commit of the trigger: none of its pending runs has been waited for *)
(* yet.                                                                    *)
LEMMA WakeCommit ==
    ASSUME BaseInv, OnceInv, WakeInv, Peace, NEW a \in Request, CommitTrigger(a)
    PROVE  WakeInv'
<1>0. jobs = Jobs /\ StackWaits /\ RowsPend /\ Alone /\ Fresh /\ Woken /\ TypeOK
  BY WakeBefore DEF BaseInv
<1>1. UNCHANGED <<jobs, deps, task>> /\ request[a].pc # "idle"
  BY DEF CommitTrigger
<1>2. DOMAIN runs = {}
  BY <1>1 DEF OnceInv, Single, Peace, NoneOf
<1>3. /\ Ends(a)
      /\ \A q \in DOMAIN runs' : q - Len(runs) \in DOMAIN RowsOf(a) /\ runs'[q] = RowsOf(a)[q - Len(runs)]
  BY <1>0, <1>2, CommitDoes
<1>4. \A t \in Task : task[t] = Idle
  BY <1>2 DEF BaseInv, TaskOK, TaskFine, Known
<1>5. Idle.pc = "idle"
  BY DEF Idle
<1>6. Fresh'
  BY <1>1, <1>4, <1>5 DEF Fresh
<1>7. Alone'
  <2>1. ASSUME NEW r \in DOMAIN runs', NEW q \in DOMAIN runs', runs'[q].job = runs'[r].job PROVE q = r
    <3>1. q - Len(runs) = r - Len(runs)
      BY <2>1, <1>3 DEF BaseInv, OneRowPerJob
    <3>2. runs' \in Seq(JobRun) /\ Len(runs) \in Nat
      BY <1>0, CommitDoes, SMTT(60) DEF TypeOK, TableStep, RunStoreTypeOK
    <3>3. q \in Int /\ r \in Int
      BY <3>2, SMTT(60)
    <3> QED
      BY <3>1, <3>2, <3>3, SMTT(60)
  <2> QED
    BY <2>1 DEF Alone
<1>8. Woken'
  <2>1. \A i \in DOMAIN RowsOf(a) : RowsOf(a)[i].status # "succeeded"
    BY DEF BaseInv, RequestOK, RowsOf
  <2>2. \A q \in DOMAIN runs' : runs'[q].status # "succeeded"
    BY <2>1, <1>3
  <2>3. ASSUME NEW r \in DOMAIN runs', runs'[r].status = "pending" PROVE WokenNext(r)
    <3>1. deps'[runs'[r].job] # {}
      BY <2>3, <1>0, <1>1, <1>3 DEF RowsPend
    <3> QED
      BY <3>1, <2>2 DEF WokenNext
  <2> QED
    BY <2>3, WokenIs
<1>9. StackWaits' /\ RowsPend'
  <2>1. request'[a].rows = <<>> /\ request'[a].stack = <<>> /\ DOMAIN <<>> = {}
    BY <1>3, SMTT(60) DEF Ends, NoRequest
  <2>2. \A b \in Request : b = a \/ request'[b] = request[b]
    BY <1>3 DEF Ends
  <2>3. ASSUME NEW b \in Request
        PROVE  /\ \A i \in DOMAIN request'[b].rows :
                      request'[b].rows[i].status = "pending" => deps[request'[b].rows[i].job] # {}
               /\ \A i \in DOMAIN request'[b].stack : deps[request'[b].stack[i].job] # {}
    <3>1. CASE b = a
      BY <3>1, <2>1
    <3>2. CASE request'[b] = request[b]
      BY <3>2, <1>0 DEF StackWaits, RowsPend, RowsOf
    <3> QED
      BY <3>1, <3>2, <2>2
  <2> QED
    BY <2>3, <1>1 DEF StackWaits, RowsPend, RowsOf
<1> QED
  BY <1>0, <1>1, <1>6, <1>7, <1>8, <1>9 DEF WakeInv

(* The steps after the trigger: what is left of the invariant to show. *)
LEMMA WakeRest ==
    ASSUME BaseInv, WakeInv, Peace, UNCHANGED <<jobs, deps, request>>, Alone', Fresh', Woken'
    PROVE  WakeInv'
<1>0. jobs = Jobs /\ StackWaits /\ RowsPend
  BY WakeBefore
<1>1. StackWaits' /\ RowsPend'
  BY <1>0 DEF StackWaits, RowsPend, RowsOf
<1> QED
  BY <1>0, <1>1 DEF WakeInv

(* The job of the run of a task stays what it is. *)
LEMMA FanSame ==
    ASSUME BaseInv, TableStep, deps' = deps, NEW u \in Task, task'[u] = task[u], NEW j, FanningOut(u, j)
    PROVE  task'[u].run = task[u].run /\ FanNext(u, j)
<1>1. task[u].pc = "ready" => runs'[task[u].run].job = runs[task[u].run].job
  BY DEF BaseInv, TaskOK, TaskFine, Known, TableStep
<1> QED
  BY <1>1 DEF FanningOut, FanNext, AimsNext

(* The steps about one run. *)
LEMMA WakeRun ==
    ASSUME BaseInv, WakeInv, Peace, TableStep, NEW r \in DOMAIN runs, RunAct(r)
    PROVE  WakeInv'
<1>0. Alone /\ Fresh /\ Woken /\ TypeOK
  BY WakeBefore DEF BaseInv
<1>1. UNCHANGED <<jobs, deps, request, task>>
  BY DEF RunAct, retry_run, cancel, requeue_orphans, enqueue_run
<1>2. NewRows /\ NewAlone /\ NoSuccess
  <2>1. CASE runs' = runs
    BY <2>1 DEF NewRows, NewAlone, NoSuccess
  <2>2. CASE cancel(r)
    <3>1. Sets(r, "canceled") /\ "canceled" # "succeeded"
      BY <2>2, <1>0, CancelDoes
    <3>2. NoSuccess
      BY <3>1, SetNoSuccess
    <3> QED
      BY <3>1, <3>2 DEF Sets, NewRows, NewAlone
  <2>3. CASE retry_run(r)
    <3>1. Status(r) \in TERMINAL /\ Adds(Len(runs'), runs[r].job)
      BY <2>3, <1>0, RetryDoes
    <3>2. runs[r].status # "pending"
      BY <3>1 DEF Status, TERMINAL
    <3>3. \A p \in DOMAIN runs : runs[p].job = runs[r].job => runs[p].status # "pending"
      BY <3>2, <1>0 DEF Alone
    <3>4. \A q \in DOMAIN runs' \ DOMAIN runs : runs'[q].job = runs[r].job /\ runs'[q].status = "queued"
      BY <3>1 DEF Adds
    <3>5. NoSuccess
      BY <3>1 DEF Adds, NoSuccess
    <3> QED
      BY <3>3, <3>4, <3>5 DEF NewRows, NewAlone
  <2> QED
    BY <2>1, <2>2, <2>3 DEF RunAct, requeue_orphans, enqueue_run
<1>3. Alone' /\ Fresh'
  BY <1>0, <1>1, <1>2, AloneKept, FreshKept
<1>4. Woken'
  BY <1>0, <1>1, <1>2, FanSame, WokenKept
<1> QED
  BY <1>1, <1>3, <1>4, WakeRest

(* A claim. *)
LEMMA WakeStart ==
    ASSUME BaseInv, WakeInv, Peace, TableStep, NEW t \in Task, StartAct(t)
    PROVE  WakeInv'
<1>0. Alone /\ Fresh /\ Woken /\ TypeOK
  BY WakeBefore DEF BaseInv
<1>1. UNCHANGED <<jobs, deps, request>>
  BY DEF StartAct, Deliver, Redeliver
<1>2. PICK r : Delivers(t, r)
  BY DeliveryDoes DEF StartAct
<1>3. NewRows /\ NewAlone /\ NoSuccess
  <2>1. CASE runs' = runs
    BY <2>1 DEF NewRows, NewAlone, NoSuccess
  <2>2. CASE Sets(r, "running")
    <3>1. "running" # "succeeded"
      OBVIOUS
    <3>2. NoSuccess
      BY <2>2, <3>1, SetNoSuccess
    <3> QED
      BY <2>2, <3>2 DEF Sets, NewRows, NewAlone
  <2> QED
    BY <2>1, <2>2, <1>2 DEF Delivers
<1>4. /\ task[t] = Idle
      /\ task'[t] = task[t] \/ task'[t].pc = "exec"
      /\ \A u \in Task : u # t => task'[u] = task[u]
  BY <1>2, ClaimedType DEF Delivers, Becomes
<1>5. \A u \in Task : task'[u].pc = "write" => task'[u] = task[u]
  BY <1>4
<1>6. Alone' /\ Fresh'
  BY <1>0, <1>3, <1>5, AloneKept, FreshKept
<1>7. \A j : ~FanningOut(t, j)
  <2>1. Idle.pc = "idle" /\ Idle.todo = {}
    BY DEF Idle
  <2> QED
    BY <2>1, <1>4 DEF FanningOut
<1>8. \A u \in Task : \A j : FanningOut(u, j) => task'[u].run = task[u].run /\ FanNext(u, j)
  BY <1>1, <1>4, <1>7, FanSame
<1>9. Woken'
  BY <1>0, <1>1, <1>3, <1>8, WokenKept
<1> QED
  BY <1>1, <1>6, <1>9, WakeRest

(* A fan-out that ends has nothing left to do. *)
LEMMA WakeEnd ==
    ASSUME BaseInv, WakeInv, Peace, Peace', TableStep, NEW t \in Task, EndAct(t)
    PROVE  WakeInv'
<1>0. Alone /\ Fresh /\ Woken /\ TypeOK /\ jobs = Jobs /\ TaskFine(t)
  BY WakeBefore DEF BaseInv, TaskOK
<1>1. UNCHANGED <<runs, jobs, deps, request>>
  BY DEF EndAct, FanOutFails, FanOutDone, Interrupt, Crash
<1>2. Becomes(t, Idle) /\ Idle.pc = "idle"
  BY <1>0, EndDoes DEF EndAct, Idle
<1>3. NewRows /\ NewAlone /\ NoSuccess
  BY <1>1 DEF NewRows, NewAlone, NoSuccess
<1>4. \A u \in Task : task'[u].pc = "write" => task'[u] = task[u]
  BY <1>2 DEF Becomes
<1>5. Alone' /\ Fresh'
  BY <1>0, <1>3, <1>4, AloneKept, FreshKept
<1>6. ASSUME NEW j, runs[task[t].run].status = "succeeded" PROVE ~FanningOut(t, j)
  <2>1. CASE FanOutFails(t)
    BY <2>1, <1>0 DEF FanOutFails, TaskFine
  <2>2. CASE FanOutDone(t)
    BY <2>2 DEF FanOutDone, FanningOut
  <2>3. CASE Interrupt(t)
    BY <2>3, <1>6 DEF Interrupt, is_run_canceled, Status
  <2>4. CASE Crash(t)
    BY <2>4, PeaceEnds DEF Crash
  <2> QED
    BY <2>1, <2>2, <2>3, <2>4 DEF EndAct
<1>7. ASSUME NEW u \in Task, NEW j, runs'[task[u].run].status = "succeeded", FanningOut(u, j)
      PROVE  task'[u].run = task[u].run /\ FanNext(u, j)
  <2>1. u # t
    BY <1>1, <1>6, <1>7
  <2>2. task'[u] = task[u]
    BY <2>1, <1>2 DEF Becomes
  <2> QED
    BY <2>2, <1>1, <1>7, FanSame
<1>8. Woken'
  BY <1>0, <1>1, <1>3, <1>7, WokenKept
<1> QED
  BY <1>1, <1>5, <1>8, WakeRest

(* dependents_ready: the loop will go through every job whose pending run  *)
(* this task is to wake up, or else the job has a dependency without a     *)
(* success.                                                                *)
LEMMA WakeReady ==
    ASSUME BaseInv, WakeInv, Peace, TableStep, NEW t \in Task, dependents_ready(t)
    PROVE  Woken'
<1>0. Alone /\ Fresh /\ Woken /\ TypeOK /\ jobs = Jobs /\ TaskFine(t)
  BY WakeBefore DEF BaseInv, TaskOK
<1>1. UNCHANGED <<runs, jobs, deps>>
  BY DEF dependents_ready
<1>2. task[t].pc = "ready" /\ Moves(t, "loop") /\ task'[t].todo = Ready(runs[task[t].run].job)
  BY <1>0, ReadyDoes
<1>3. ASSUME NEW r \in DOMAIN runs, runs[r].status = "pending" PROVE WokenNext(r)
  <2> DEFINE j == runs[r].job
  <2>0. j \in Jobs /\ deps[j] \in SUBSET Jobs
    BY <1>0, Rows DEF TypeOK
  <2>1. CASE deps[j] \subseteq Succeeded
    <3>1. PICK d \in deps[j] : \A s \in DOMAIN runs :
              (runs[s].job = d /\ runs[s].status = "succeeded") => \E u \in Task : task[u].run = s /\ FanningOut(u, j)
      BY <1>0, <1>3 DEF Woken
    <3>2. ASSUME runs[task[t].run].job = d PROVE j \in task'[t].todo
      <4>1. r \in RunsOf(j, {"pending"})
        BY <1>3, <1>0, <2>0 DEF RunsOf, Exists, Status
      <4>2. ~has_dispatched_run(j)
        <5>1. \A q \in DOMAIN runs : runs[q].job = j => runs[q].status = "pending"
          BY <1>0, <1>3 DEF Alone
        <5> QED
          BY <5>1 DEF has_dispatched_run, RunsOf, Status
      <4>3. d \in deps[j]
        BY <3>1
      <4> HIDE DEF j
      <4>4. j \in Ready(d)
        BY <4>1, <4>2, <4>3, <2>0, <2>1 DEF Ready, all_dependencies_succeeded
      <4> QED
        BY <4>4, <3>2, <1>2
    <3>3. ASSUME NEW s \in DOMAIN runs, runs[s].job = d, runs[s].status = "succeeded"
          PROVE  \E u \in Task : task'[u].run = s /\ FanNext(u, j)
      <4>1. PICK u \in Task : task[u].run = s /\ FanningOut(u, j)
        BY <3>1, <3>3
      <4>2. CASE u = t
        <5>1. AimsNext(t, j) /\ task'[t].run = s
          BY <4>1, <4>2, <3>2, <3>3, <1>2 DEF AimsNext, Moves
        <5> QED
          BY <5>1 DEF FanNext
      <4>3. CASE u # t
        <5>1. task'[u] = task[u]
          BY <4>3, <1>2 DEF Moves
        <5>2. task'[u].run = task[u].run /\ FanNext(u, j)
          BY <5>1, <4>1, <1>1, FanSame
        <5> QED
          BY <5>2, <4>1
      <4> QED
        BY <4>2, <4>3
    <3>4. runs'[r].job = j /\ d \in deps'[runs'[r].job]
      BY <3>1, <1>1
    <3> HIDE DEF j
    <3>5. \A s \in DOMAIN runs' : (runs'[s].job = d /\ runs'[s].status = "succeeded") =>
              \E u \in Task : task'[u].run = s /\ FanNext(u, runs'[r].job)
      BY <3>3, <3>4, <1>1
    <3> QED
      BY <3>4, <3>5 DEF WokenNext
  <2>2. CASE ~(deps[j] \subseteq Succeeded)
    <3>1. PICK d \in deps[j] : d \notin Succeeded
      BY <2>2
    <3>2. d \in Jobs
      BY <2>0, <3>1
    <3>3. \A s \in DOMAIN runs : ~(runs[s].job = d /\ runs[s].status = "succeeded")
      BY <3>1, <3>2, <1>0, SucceededMeans
    <3>4. d \in deps'[runs'[r].job]
      BY <3>1, <1>1
    <3>5. \A s \in DOMAIN runs' : ~(runs'[s].job = d /\ runs'[s].status = "succeeded")
      BY <3>3, <1>1
    <3> QED
      BY <3>4, <3>5 DEF WokenNext
  <2> QED
    BY <2>1, <2>2
<1> QED
  BY <1>1, <1>3, WokenIs

(* finish_run: a task that makes a success goes on to dependents_ready. *)
LEMMA WakeFinish ==
    ASSUME BaseInv, WakeInv, Peace, TableStep, NEW t \in Task, FinishRun(t)
    PROVE  Woken' /\ NewRows /\ NewAlone /\ DOMAIN runs' = DOMAIN runs
<1>0. Alone /\ Fresh /\ Woken /\ TypeOK /\ jobs = Jobs /\ TaskOK
  BY WakeBefore DEF BaseInv
<1>1. deps' = deps
  BY DEF FinishRun
<1> DEFINE r0 == task[t].run
           s0 == task[t].result
<1>2. /\ task[t].pc = "finish" /\ Known(r0)
      /\ \/ runs' = runs /\ (~Exists(r0) \/ Status(r0) = "canceled")
         \/ Exists(r0) /\ Status(r0) # "canceled" /\ Sets(r0, s0) /\ s0 \in Outcomes
      /\ \/ s0 # "succeeded" /\ Becomes(t, Idle)
         \/ s0 = "succeeded" /\ Moves(t, "ready")
  BY <1>0, FinishDoes
<1>3. r0 \in DOMAIN runs /\ Exists(r0)
  BY <1>0, <1>2, Rows DEF Known, Exists, TypeOK
<1> HIDE DEF r0, s0
<1>4. DOMAIN runs' = DOMAIN runs /\ \A q \in DOMAIN runs : q # r0 => runs'[q].status = runs[q].status
  BY <1>2 DEF Sets
<1>5. runs'[r0].status = "succeeded" => s0 = "succeeded"
  BY <1>2, <1>3 DEF Sets, Status
<1>6. NewRows /\ NewAlone
  BY <1>4 DEF NewRows, NewAlone
<1>7. \A u \in Task : u # t => task'[u] = task[u]
  BY <1>2 DEF Becomes, Moves
<1>8. ASSUME NEW r \in DOMAIN runs', runs'[r].status = "pending" PROVE WokenNext(r)
  <2> DEFINE j == runs[r].job
  <2>1. r \in DOMAIN runs /\ runs[r].status = "pending" /\ runs'[r].job = j
    BY <1>6, <1>8, PendingWas
  <2>2. PICK d \in deps[j] : \A s \in DOMAIN runs :
            (runs[s].job = d /\ runs[s].status = "succeeded") => \E u \in Task : task[u].run = s /\ FanningOut(u, j)
    BY <2>1, <1>0 DEF Woken
  <2>3. ASSUME NEW s \in DOMAIN runs', runs'[s].job = d, runs'[s].status = "succeeded"
        PROVE  \E u \in Task : task'[u].run = s /\ FanNext(u, runs'[r].job)
    <3>1. CASE s = r0
      <4>1. Moves(t, "ready")
        BY <3>1, <2>3, <1>2, <1>5
      <4>2. task'[t].pc = "ready" /\ task'[t].run = s
        BY <4>1, <3>1 DEF Moves, r0
      <4>3. runs'[task'[t].run].job \in deps'[runs'[r].job]
        BY <4>2, <2>1, <2>2, <2>3, <1>1
      <4> QED
        BY <4>2, <4>3 DEF FanNext
    <3>2. CASE s # r0
      <4>1. s \in DOMAIN runs /\ runs[s].status = "succeeded" /\ runs[s].job = d
        BY <3>2, <2>3, <1>4 DEF TableStep
      <4>2. PICK u \in Task : task[u].run = s /\ FanningOut(u, j)
        BY <4>1, <2>2
      <4>3. u # t
        BY <4>2, <3>2 DEF r0
      <4>4. task'[u] = task[u]
        BY <4>3, <1>7
      <4>5. task'[u].run = task[u].run /\ FanNext(u, j)
        BY <4>2, <4>4, <1>1, FanSame
      <4>6. FanNext(u, runs'[r].job)
        BY <4>5, <2>1
      <4> QED
        BY <4>2, <4>5, <4>6
    <3> QED
      BY <3>1, <3>2
  <2>4. d \in deps'[runs'[r].job]
    BY <2>1, <2>2, <1>1
  <2> QED
    BY <2>3, <2>4 DEF WokenNext
<1> QED
  BY <1>4, <1>6, <1>8, WokenIs

(* create_dependency_run: no pending run of the job is left over. *)
LEMMA WakeWrite ==
    ASSUME BaseInv, WakeInv, Peace, TableStep, NEW t \in Task, create_dependency_run(t)
    PROVE  WakeInv'
<1>0. Alone /\ Fresh /\ Woken /\ TypeOK /\ TaskOK /\ TaskFine(t)
  BY WakeBefore DEF BaseInv, TaskOK
<1>1. UNCHANGED <<jobs, deps, request>>
  BY DEF create_dependency_run
<1>2. /\ task[t].pc = "write"
      /\ \/ task[t].id # 0 /\ Sets(task[t].id, "queued")
         \/ task[t].id = 0 /\ Adds(task'[t].id, task[t].dep)
      /\ Moves(t, "send") /\ task'[t].todo = task[t].todo
  BY <1>0, WriteDoes
<1>3. /\ NewRows /\ NewAlone /\ NoSuccess
      /\ \A r \in DOMAIN runs : runs'[r].status = "pending" => runs[r].job # task[t].dep
  <2>1. CASE task[t].id # 0 /\ Sets(task[t].id, "queued")
    <3>1. task[t].id \in DOMAIN runs /\ runs[task[t].id].job = task[t].dep
      BY <2>1, <1>0, <1>2 DEF TaskFine
    <3>2. NewRows /\ NewAlone
      BY <2>1 DEF Sets, NewRows, NewAlone
    <3>3. "queued" # "succeeded"
      OBVIOUS
    <3>4. NoSuccess
      BY <2>1, <3>3, SetNoSuccess
    <3>5. ASSUME NEW r \in DOMAIN runs, runs'[r].status = "pending" PROVE runs[r].job # task[t].dep
      <4>1. runs[r].status = "pending" /\ r # task[t].id
        BY <2>1, <3>5 DEF Sets, TableStep
      <4> QED
        BY <4>1, <3>1, <1>0 DEF Alone
    <3> QED
      BY <3>2, <3>4, <3>5
  <2>2. CASE task[t].id = 0 /\ Adds(task'[t].id, task[t].dep)
    <3>1. \A q \in DOMAIN runs : runs[q].job = task[t].dep => runs[q].status # "pending"
      BY <2>2, <1>0, <1>2 DEF Fresh
    <3>2. \A q \in DOMAIN runs' \ DOMAIN runs : runs'[q].job = task[t].dep /\ runs'[q].status = "queued"
      BY <2>2 DEF Adds
    <3>3. \A q \in DOMAIN runs : runs'[q] = runs[q]
      BY <2>2 DEF Adds
    <3> QED
      BY <3>1, <3>2, <3>3 DEF NewRows, NewAlone, NoSuccess
  <2> QED
    BY <2>1, <2>2, <1>2
<1>4. \A u \in Task : task'[u].pc = "write" => task'[u] = task[u]
  BY <1>2 DEF Moves
<1>5. Alone' /\ Fresh'
  BY <1>0, <1>3, <1>4, AloneKept, FreshKept
<1>6. ASSUME NEW u \in Task, NEW r \in DOMAIN runs, runs'[r].status = "pending", FanningOut(u, runs[r].job)
      PROVE  task'[u].run = task[u].run /\ FanNext(u, runs[r].job)
  <2>1. CASE u = t
    <3>1. runs[r].job \in task[t].todo
      BY <2>1, <1>2, <1>3, <1>6 DEF FanningOut
    <3> QED
      BY <2>1, <3>1, <1>2 DEF FanNext, AimsNext, Moves
  <2>2. CASE u # t
    <3>1. task'[u] = task[u]
      BY <2>2, <1>2 DEF Moves
    <3> QED
      BY <3>1, <1>1, <1>6, FanSame
  <2> QED
    BY <2>1, <2>2
<1>7. Woken'
  BY <1>0, <1>1, <1>3, <1>6, WokenKept
<1> QED
  BY <1>1, <1>5, <1>7, WakeRest

(* The steps of a task that write no run. *)
LEMMA WakeGoesOn ==
    ASSUME BaseInv, WakeInv, Peace, TableStep, NEW t \in Task,
           \/ \E s \in Outcomes : Execute(t, s)
           \/ \E d \in Jobs : CheckDispatched(t, d)
           \/ SelectPending(t)
           \/ EnqueueDependent(t)
    PROVE  WakeInv'
<1>0. Alone /\ Fresh /\ Woken /\ TypeOK /\ jobs = Jobs /\ TaskFine(t)
  BY WakeBefore DEF BaseInv, TaskOK
<1>1. UNCHANGED <<runs, jobs, deps, request>>
  BY DEF Execute, CheckDispatched, SelectPending, EnqueueDependent
<1>2. NewRows /\ NewAlone /\ NoSuccess
  BY <1>1 DEF NewRows, NewAlone, NoSuccess
<1>3. \A u \in Task : u # t => task'[u] = task[u]
  BY OthersStay DEF MoveAct
<1> DEFINE Good == /\ (task'[t].pc = "write" /\ task'[t].id = 0) =>
                         \A q \in DOMAIN runs : runs[q].job = task'[t].dep => runs[q].status # "pending"
                   /\ \A r \in DOMAIN runs : (/\ runs[r].status = "pending"
                                              /\ runs[task[t].run].status = "succeeded"
                                              /\ FanningOut(t, runs[r].job)) =>
                         task'[t].run = task[t].run /\ FanNext(t, runs[r].job)
<1>4. Good
  <2>1. ASSUME NEW s \in Outcomes, Execute(t, s) PROVE Good
    <3>1. task[t].pc = "exec" /\ task[t].run \in DOMAIN runs
      BY <2>1, <1>0 DEF Execute, TaskFine, Known
    <3>a. Exists(task[t].run)
      BY <1>0, <3>1, Rows DEF Exists, TypeOK
    <3>2. CASE Becomes(t, Idle) /\ (Exists(task[t].run) => is_run_canceled(task[t].run))
      <4>1. runs[task[t].run].status # "succeeded"
        BY <3>a, <3>2 DEF is_run_canceled, Status
      <4>2. task'[t].pc # "write"
        <5>1. Idle.pc # "write"
          BY DEF Idle
        <5> QED
          BY <3>2, <5>1 DEF Becomes
      <4> QED
        BY <4>1, <4>2
    <3>3. CASE Moves(t, "finish") /\ task'[t].todo = task[t].todo
      <4>1. task'[t].pc = "finish" /\ task'[t].run = task[t].run
        BY <3>3 DEF Moves
      <4>2. \A j : FanningOut(t, j) => FanNext(t, j)
        BY <3>1, <3>3 DEF FanningOut, FanNext, AimsNext
      <4> QED
        BY <4>1, <4>2
    <3> QED
      BY <3>2, <3>3, <2>1, <1>0, ExecuteDoes
  <2>2. ASSUME NEW d \in Jobs, CheckDispatched(t, d) PROVE Good
    <3>1. /\ task[t].pc = "loop" /\ task'[t].todo = task[t].todo \ {d} /\ task'[t].run = task[t].run
          /\ \/ has_dispatched_run(d) /\ task'[t].pc = "loop"
             \/ task'[t].pc = "pending" /\ task'[t].dep = d
      BY <2>2, <1>0, CheckDoes DEF Moves
    <3>2. ASSUME NEW r \in DOMAIN runs, runs[r].status = "pending", FanningOut(t, runs[r].job)
          PROVE  FanNext(t, runs[r].job)
      <4>1. runs[r].job \in task[t].todo
        BY <3>1, <3>2 DEF FanningOut
      <4>2. CASE runs[r].job = d
        <5>1. \A q \in DOMAIN runs : runs[q].job = d => runs[q].status = "pending"
          BY <4>2, <3>2, <1>0 DEF Alone
        <5>2. ~has_dispatched_run(d)
          BY <5>1 DEF has_dispatched_run, RunsOf, Status
        <5> QED
          BY <5>2, <4>2, <3>1 DEF FanNext, AimsNext
      <4>3. CASE runs[r].job # d
        BY <4>1, <4>3, <3>1 DEF FanNext, AimsNext
      <4> QED
        BY <4>2, <4>3
    <3>3. task'[t].pc # "write"
      BY <3>1
    <3> QED
      BY <3>1, <3>2, <3>3
  <2>3. CASE SelectPending(t)
    <3>1. /\ task[t].pc = "pending" /\ task'[t].pc = "write" /\ task'[t].run = task[t].run
          /\ task'[t].todo = task[t].todo /\ task'[t].dep = task[t].dep
          /\ \/ task'[t].id = 0 /\ RunsOf(task[t].dep, {"pending"}) = {}
             \/ task'[t].id \in RunsOf(task[t].dep, {"pending"})
      BY <2>3, <1>0, SelectDoes DEF Moves
    <3>2. RunsOf(task[t].dep, {"pending"}) \subseteq RunId /\ 0 \notin RunId
      BY <1>0, Rows, SMTT(60) DEF RunsOf, TypeOK, RunId
    <3>3. task'[t].id = 0 => RunsOf(task[t].dep, {"pending"}) = {}
      BY <3>1, <3>2
    <3>4. \A q \in DOMAIN runs : runs[q].job \in jobs
      BY <1>0, Rows DEF TypeOK
    <3>5. task'[t].id = 0 => \A q \in DOMAIN runs : runs[q].job = task'[t].dep => runs[q].status # "pending"
      BY <3>1, <3>3, <3>4 DEF RunsOf, Exists, Status
    <3>6. \A j : FanningOut(t, j) => FanNext(t, j)
      BY <3>1 DEF FanningOut, FanNext, AimsNext
    <3> QED
      BY <3>1, <3>5, <3>6
  <2>4. CASE EnqueueDependent(t)
    <3>1. task[t].pc = "send" /\ task'[t].pc = "loop" /\ task'[t].run = task[t].run /\ task'[t].todo = task[t].todo
      BY <2>4, <1>0, EnqueueDoes DEF Moves
    <3>2. \A j : FanningOut(t, j) => FanNext(t, j)
      BY <3>1 DEF FanningOut, FanNext, AimsNext
    <3> QED
      BY <3>1, <3>2
  <2> HIDE DEF Good
  <2> QED
    BY <2>1, <2>2, <2>3, <2>4
<1>5. Alone'
  BY <1>0, <1>2, AloneKept
<1>6. Fresh'
  BY <1>0, <1>2, <1>3, <1>4, FreshKept
<1>7. ASSUME NEW u \in Task, NEW r \in DOMAIN runs, runs'[r].status = "pending",
             runs'[task[u].run].status = "succeeded", FanningOut(u, runs[r].job)
      PROVE  task'[u].run = task[u].run /\ FanNext(u, runs[r].job)
  <2>1. CASE u = t
    BY <2>1, <1>1, <1>4, <1>7
  <2>2. CASE u # t
    BY <2>2, <1>1, <1>3, <1>7, FanSame
  <2> QED
    BY <2>1, <2>2
<1>8. Woken'
  BY <1>0, <1>1, <1>2, <1>7, WokenKept
<1> QED
  BY <1>1, <1>5, <1>6, <1>8, WakeRest

(* The steps of process_run and of the fan-out. *)
LEMMA WakeMove ==
    ASSUME BaseInv, WakeInv, Peace, TableStep, NEW t \in Task, MoveAct(t)
    PROVE  WakeInv'
<1>0. Alone /\ Fresh /\ TypeOK /\ TaskOK
  BY WakeBefore DEF BaseInv
<1>1. CASE FinishRun(t)
  <2>1. Woken' /\ NewRows /\ NewAlone
    BY <1>1, WakeFinish
  <2>2. UNCHANGED <<jobs, deps, request>>
    BY <1>1 DEF FinishRun
  <2>3. Idle.pc = "idle"
    BY DEF Idle
  <2>4. \A u \in Task : task'[u].pc = "write" => task'[u] = task[u]
    BY <1>0, <1>1, <2>3, FinishDoes DEF Becomes, Moves
  <2>5. Alone' /\ Fresh'
    BY <1>0, <2>1, <2>4, AloneKept, FreshKept
  <2> QED
    BY <2>1, <2>2, <2>5, WakeRest
<1>2. CASE dependents_ready(t)
  <2>1. Woken'
    BY <1>2, WakeReady
  <2>2. UNCHANGED <<runs, jobs, deps, request>>
    BY <1>2 DEF dependents_ready
  <2>3. NewRows /\ NewAlone
    BY <2>2 DEF NewRows, NewAlone
  <2>4. \A u \in Task : task'[u].pc = "write" => task'[u] = task[u]
    BY <1>0, <1>2, ReadyDoes DEF Moves
  <2>5. Alone' /\ Fresh'
    BY <1>0, <2>3, <2>4, AloneKept, FreshKept
  <2> QED
    BY <2>1, <2>2, <2>5, WakeRest
<1> QED
  BY <1>1, <1>2, WakeWrite, WakeGoesOn DEF MoveAct

(* The invariant is inductive, given the base. *)
LEMMA WakeInductive == BaseInv /\ OnceInv /\ WakeInv /\ [Next]_vars => WakeInv'
<1> SUFFICES ASSUME BaseInv, OnceInv, WakeInv, [Next]_vars, Peace' PROVE WakeInv'
  BY DEF WakeInv
<1>0. Peace /\ TableStep
  BY PeaceKept
<1>1. CASE UNCHANGED vars
  <2>1. UNCHANGED <<runs, jobs, deps, request, task>>
    BY <1>1 DEF vars
  <2>2. Alone' /\ Fresh' /\ Woken'
    BY <2>1, <1>0, WakeBefore, WakeSame DEF BaseInv, TypeOK
  <2> QED
    BY <2>1, <2>2, <1>0, WakeRest
<1>2. CASE GraphAct
  BY <1>2, PeaceEnds DEF GraphAct, update_job, delete_job
<1>3. CASE ScheduleAct
  BY <1>3, ScheduleEnds DEF Peace
<1> QED
  BY <1>0, <1>1, <1>2, <1>3, Steps, WakeWalk, WakeCommit, WakeRun, WakeStart, WakeMove, WakeEnd

(* The invariant holds at first. *)
LEMMA WakeInit == Init => WakeInv
<1> SUFFICES ASSUME Init PROVE WakeInv
  OBVIOUS
<1>0. DOMAIN <<>> = {} /\ NoRequest.rows = <<>> /\ NoRequest.stack = <<>>
  BY SMTT(60) DEF NoRequest
<1>1. DOMAIN runs = {} /\ jobs = Jobs
  BY <1>0 DEF Init
<1>2. \A a \in Request : request[a] = NoRequest
  BY DEF Init
<1>3. StackWaits /\ RowsPend
  BY <1>0, <1>2 DEF StackWaits, RowsPend, RowsOf
<1>4. Alone /\ Fresh /\ Woken
  BY <1>1 DEF Alone, Fresh, Woken
<1> QED
  BY <1>1, <1>3, <1>4 DEF WakeInv

(* Until a second trigger, a scheduled run, a crash, a change of the graph *)
(* or a deletion, a pending run whose dependencies have succeeded has a    *)
(* task that is yet to look for it.                                        *)
THEOREM WakeupsKept == Spec => []NoLostWakeup
<1>1. ASSUME WakeInv, TypeOK PROVE NoLostWakeup
  <2>1. ASSUME Peace, NEW r \in DOMAIN runs, Status(r) = "pending", deps[runs[r].job] \subseteq Succeeded
        PROVE  \E t \in Task : FanningOut(t, runs[r].job)
    <3>1. PICK d \in deps[runs[r].job] : \A s \in DOMAIN runs :
              (runs[s].job = d /\ runs[s].status = "succeeded") =>
                  \E t \in Task : task[t].run = s /\ FanningOut(t, runs[r].job)
      BY <1>1, <2>1, WakeBefore DEF Woken, Status
    <3>2. d \in Succeeded /\ d \in Jobs
      BY <2>1, <3>1 DEF Succeeded
    <3>3. PICK s \in DOMAIN runs : runs[s].job = d /\ runs[s].status = "succeeded"
      BY <3>2, SucceededMeans
    <3> QED
      BY <3>1, <3>3
  <2> QED
    BY <2>1 DEF NoLostWakeup, Peace
<1>2. BaseInv => TypeOK
  BY DEF BaseInv
<1> QED
  BY <1>1, <1>2, BaseInit, BaseInductive, OnceInit, OnceInductive, WakeInit, WakeInductive, PTL DEF Spec
=============================================================================
