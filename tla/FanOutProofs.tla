---------------------------- MODULE FanOutProofs ----------------------------
(***************************************************************************)
(* The fan-out starts a run only after the dependencies of its job: until  *)
(* the graph is changed, no run but those of the scheduler and of          *)
(* retry_run is dispatched before each of them has had a success           *)
(* (AfterInv); and with one trigger and no scheduled run, retry or change  *)
(* of the graph, and crashes and deletions allowed, a pending run is       *)
(* promoted only when the dependencies that have none themselves are done  *)
(* (RootInv).                                                              *)
(*                                                                         *)
(* The grouping of the steps is that of DependencyProofs.                  *)
(***************************************************************************)
EXTENDS DependencyProofs

USE ZenonT(60)

-----------------------------------------------------------------------------
(* RunsAfterDependencies.                                                  *)

(* No user has changed the graph. *)
Calm == NoneOf({"update"})

(* If there is calm after a step, there was before. *)
LEMMA CalmKept ==
    ASSUME BaseInv, [Next]_vars
    PROVE  /\ Calm' => Calm
           /\ TableStep
<1>1. BaseStep
  BY BaseKept
<1>2. \A K \in SUBSET DOMAIN Budget : NoneOf(K)' => NoneOf(K)
  BY <1>1, BudgetKept DEF BaseStep, BaseInv
<1>3. {"update"} \in SUBSET DOMAIN Budget
  BY Kinds
<1>4. NoneOf({"update"})' => NoneOf({"update"})
  BY <1>2, <1>3
<1> QED
  BY <1>1, <1>4 DEF BaseStep, Calm

(* A change of the graph is a disturbance. *)
LEMMA CalmEnds ==
    ASSUME BaseInv, Calm'
    PROVE  ~Spend("update")
<1>0. TypeOK /\ BudgetOK /\ "update" \in DOMAIN Budget
  BY Kinds DEF BaseInv
<1>1. Spend("update") => ~NoneOf({"update"})'
  BY <1>0, Disturbs
<1> QED
  BY <1>1 DEF Calm

(* The walk queues a row only for a job without dependencies. *)
LEMMA AfterWalk ==
    ASSUME BaseInv, AfterInv, Calm' => Calm, NEW a \in Request, WalkAct(a)
    PROVE  AfterInv'
<1>1. WalkStep(a)
  BY BaseRequest DEF WalkAct
<1>2. UNCHANGED <<runs, jobs, deps, hadSuccess, scheduled, task>>
  BY DEF WalkAct, VisitDependency, LeaveJob, trigger_job
<1>3. Succeeded' \subseteq hadSuccess'
  BY <1>2 DEF AfterInv, Succeeded, RunsOf, Exists, Status
<1>4. ASSUME Calm' PROVE RowsWait' /\ AimsWait' /\ RunsWait'
  <2>1. RowsWait /\ AimsWait /\ RunsWait
    BY <1>4 DEF AfterInv, Calm
  <2>2. AimsWait' /\ RunsWait'
    BY <2>1, <1>2 DEF AimsWait, Aims, RunsWait, Dispatched
  <2>3. \A b \in Request : \A i \in DOMAIN request'[b].rows :
            (\E k \in DOMAIN RowsOf(b) : request'[b].rows[i] = RowsOf(b)[k]) \/ Added(b, request'[b].rows[i])
    BY <1>1, WalkFrom
  <2>4. ASSUME NEW b \in Request, NEW i \in DOMAIN request'[b].rows, request'[b].rows[i].status = "queued"
        PROVE  deps[request'[b].rows[i].job] = {}
    <3>1. CASE \E k \in DOMAIN RowsOf(b) : request'[b].rows[i] = RowsOf(b)[k]
      <4> DEFINE row == request'[b].rows[i]
      <4>1. PICK k \in DOMAIN RowsOf(b) : row = RowsOf(b)[k]
        BY <3>1
      <4>2. RowsOf(b)[k].status = "queued" => deps[RowsOf(b)[k].job] = {}
        BY <2>1 DEF RowsWait
      <4>3. row.status = "queued"
        BY <2>4
      <4> HIDE DEF row
      <4>4. deps[row.job] = {}
        BY <4>1, <4>2, <4>3
      <4> QED
        BY <4>4 DEF row
    <3>2. CASE Added(b, request'[b].rows[i])
      BY <3>2, <2>4 DEF Added
    <3> QED
      BY <3>1, <3>2, <2>3
  <2>5. RowsWait'
    BY <2>4, <1>2 DEF RowsWait, RowsOf
  <2> QED
    BY <2>2, <2>5
<1> QED
  BY <1>3, <1>4 DEF AfterInv, Calm

(* The commit of the trigger dispatches those rows. *)
LEMMA AfterCommit ==
    ASSUME BaseInv, AfterInv, Calm' => Calm, TableStep, NEW a \in Request, CommitTrigger(a)
    PROVE  AfterInv'
<1>1. /\ Ends(a)
      /\ \A q \in DOMAIN runs : runs'[q] = runs[q]
      /\ \A q \in DOMAIN runs' \ DOMAIN runs : \E i \in DOMAIN RowsOf(a) : runs'[q] = RowsOf(a)[i]
  <2>1. TypeOK
    BY DEF BaseInv
  <2>2. /\ Ends(a)
        /\ \A q \in DOMAIN runs : runs'[q] = runs[q]
        /\ \A q \in DOMAIN runs' \ DOMAIN runs :
              q - Len(runs) \in DOMAIN RowsOf(a) /\ runs'[q] = RowsOf(a)[q - Len(runs)]
    BY <2>1, CommitDoes
  <2> QED
    BY <2>2
<1>2. UNCHANGED <<jobs, deps, hadSuccess, scheduled, task>>
  BY DEF CommitTrigger
<1>3. \A i \in DOMAIN RowsOf(a) : RowsOf(a)[i].status \in {"queued", "pending"}
  BY DEF BaseInv, RequestOK, RowsOf
<1>4. Succeeded' \subseteq hadSuccess'
  <2>1. \A q \in DOMAIN runs' : runs'[q].status = "succeeded" =>
             q \in DOMAIN runs /\ runs[q].status = "succeeded" /\ runs'[q].job = runs[q].job
    BY <1>1, <1>3
  <2> QED
    BY <2>1, <1>2, SuccessKept DEF AfterInv
<1>5. ASSUME Calm' PROVE RowsWait' /\ AimsWait' /\ RunsWait'
  <2>1. RowsWait /\ AimsWait /\ RunsWait
    BY <1>5 DEF AfterInv, Calm
  <2>2. AimsWait'
    BY <2>1, <1>2 DEF AimsWait, Aims
  <2>3. \A q \in DOMAIN runs' : runs'[q].status \in {"queued", "running"} =>
           \/ q \in DOMAIN runs /\ runs[q].status \in {"queued", "running"} /\ runs'[q].job = runs[q].job
           \/ deps[runs'[q].job] \subseteq hadSuccess
    <3>1. ASSUME NEW q \in DOMAIN runs' \ DOMAIN runs, runs'[q].status \in {"queued", "running"}
          PROVE  deps[runs'[q].job] = {}
      <4>1. PICK i \in DOMAIN RowsOf(a) : runs'[q] = RowsOf(a)[i]
        BY <3>1, <1>1
      <4>2. RowsOf(a)[i].status = "queued" => deps[RowsOf(a)[i].job] = {}
        BY <2>1 DEF RowsWait
      <4>3. RowsOf(a)[i].status = "queued"
        BY <3>1, <4>1, <1>3
      <4> QED
        BY <4>1, <4>2, <4>3
    <3> QED
      BY <3>1, <1>1
  <2>4. RunsWait'
    BY <2>1, <2>3, <1>2, RunsWaitKept
  <2>5. RowsWait'
    <3>1. request'[a].rows = <<>> /\ DOMAIN <<>> = {}
      BY <1>1, SMTT(60) DEF Ends, NoRequest
    <3>2. \A b \in Request : request'[b].rows = <<>> \/ request'[b] = request[b]
      BY <1>1, <3>1 DEF Ends
    <3>3. ASSUME NEW b \in Request PROVE \A i \in DOMAIN request'[b].rows :
                request'[b].rows[i].status = "queued" => deps[request'[b].rows[i].job] = {}
      <4>1. CASE request'[b].rows = <<>>
        BY <4>1, <3>1
      <4>2. CASE request'[b] = request[b]
        BY <4>2, <2>1 DEF RowsWait, RowsOf
      <4> QED
        BY <4>1, <4>2, <3>2
    <3> QED
      BY <3>3, <1>2 DEF RowsWait, RowsOf
  <2> QED
    BY <2>2, <2>4, <2>5
<1> QED
  BY <1>4, <1>5 DEF AfterInv, Calm

(* A change of the graph ends the calm; a deletion only removes. *)
LEMMA AfterGraph ==
    ASSUME BaseInv, AfterInv, Calm' => Calm, GraphAct
    PROVE  AfterInv'
<1>0. UNCHANGED <<runs, scheduled, request, task>>
  BY DEF GraphAct, update_job, delete_job
<1>1. ASSUME NEW j \in Jobs, NEW D \in SUBSET Jobs, update_job(j, D) PROVE AfterInv'
  <2>1. jobs' = jobs /\ hadSuccess' = hadSuccess /\ Spend("update")
    BY <1>1 DEF update_job
  <2>2. Succeeded' \subseteq hadSuccess'
    BY <2>1, <1>0 DEF AfterInv, Succeeded, RunsOf, Exists, Status
  <2>3. ~Calm'
    BY <2>1, CalmEnds
  <2> QED
    BY <2>2, <2>3 DEF AfterInv, Calm
<1>2. ASSUME NEW j \in Jobs, delete_job(j) PROVE AfterInv'
  <2>1. /\ jobs' = jobs \ {j} /\ hadSuccess' = hadSuccess \ {j}
        /\ deps' = [k \in Jobs |-> IF k = j THEN {} ELSE deps[k] \ {j}]
    BY <1>2 DEF delete_job
  <2>2. \A k \in Jobs : j \notin deps'[k] /\ deps'[k] \subseteq deps[k]
    BY <2>1
  <2>3. ASSUME NEW k \in Succeeded' PROVE k \in hadSuccess'
    <3>1. k \in Jobs
      BY DEF Succeeded
    <3>2. PICK q \in DOMAIN runs' : runs'[q].job = k /\ k \in jobs' /\ runs'[q].status = "succeeded"
      BY <2>3, <3>1, SucceededMeans
    <3>3. k \in Succeeded
      BY <3>1, <3>2, <2>1, <1>0, SucceededMeans
    <3> QED
      BY <3>2, <3>3, <2>1 DEF AfterInv
  <2>4. ASSUME NEW k \in Jobs, deps[k] \subseteq hadSuccess PROVE deps'[k] \subseteq hadSuccess'
    BY <2>1, <2>2, <2>4
  <2>5. ASSUME Calm' PROVE RowsWait' /\ AimsWait' /\ RunsWait'
    <3>1. RowsWait /\ AimsWait /\ RunsWait
      BY <2>5 DEF AfterInv, Calm
    <3>2. RowsWait'
      <4>1. ASSUME NEW a \in Request, NEW i \in DOMAIN RowsOf(a), RowsOf(a)[i].status = "queued"
            PROVE  deps'[RowsOf(a)[i].job] = {}
        <5>1. deps[RowsOf(a)[i].job] = {}
          BY <4>1, <3>1 DEF RowsWait
        <5>2. RowsOf(a)[i].job \in Jobs
          <6>1. RowsOf(a) \in Seq(JobRun)
            BY RequestFields DEF BaseInv
          <6>2. RowsOf(a)[i] \in JobRun
            BY <6>1, SMTT(60)
          <6> QED
            BY <6>2 DEF JobRun
        <5> QED
          BY <5>1, <5>2, <2>2
      <4> QED
        BY <4>1, <1>0 DEF RowsWait, RowsOf
    <3>3. AimsWait'
      <4>1. \A t \in Task : \A k \in Jobs : Aims(t, k) => deps'[k] \subseteq hadSuccess'
        BY <3>1, <2>4 DEF AimsWait
      <4> QED
        BY <4>1, <1>0 DEF AimsWait, Aims
    <3>4. RunsWait'
      <4>1. ASSUME NEW q \in DOMAIN runs, Dispatched(q)' PROVE deps'[runs[q].job] \subseteq hadSuccess'
        <5>1. Dispatched(q)
          BY <4>1, <2>1, <1>0 DEF Dispatched
        <5>2. deps[runs[q].job] \subseteq hadSuccess /\ runs[q].job \in Jobs
          BY <5>1, <3>1, Rows DEF RunsWait, BaseInv, TypeOK
        <5> QED
          BY <5>2, <2>4
      <4> QED
        BY <4>1, <1>0 DEF RunsWait
    <3> QED
      BY <3>2, <3>3, <3>4
  <2> QED
    BY <2>3, <2>5 DEF AfterInv, Calm
<1> QED
  BY <1>1, <1>2 DEF GraphAct

(* No row becomes queued or running that was neither. *)
NoDispatch ==
    \A q \in DOMAIN runs' : runs'[q].status \in {"queued", "running"} =>
        q \in DOMAIN runs /\ runs[q].status \in {"queued", "running"} /\ runs'[q].job = runs[q].job

(* Which changes of a status dispatch a run or make it succeed. *)
LEMMA TableDispatch ==
    ASSUME NEW r, NEW s, runs' = runs \/ Sets(r, s)
    PROVE  /\ s # "succeeded" => NoSuccess
           /\ s \notin {"queued", "running"} => NoDispatch
           /\ (s = "running" /\ runs[r].status \in {"queued", "running"}) => NoDispatch
<1>1. CASE runs' = runs
  BY <1>1 DEF NoDispatch, NoSuccess
<1>2. CASE Sets(r, s)
  <2>1. DOMAIN runs' = DOMAIN runs /\ \A q \in DOMAIN runs :
          runs'[q].job = runs[q].job /\ runs'[q].status = IF q = r THEN s ELSE runs[q].status
    BY <1>2 DEF Sets, TableStep
  <2>2. \A q \in DOMAIN runs : (q = r /\ runs'[q].status = s) \/ runs'[q].status = runs[q].status
    BY <2>1
  <2> QED
    BY <2>1, <2>2 DEF NoDispatch, NoSuccess
<1> QED
  BY <1>1, <1>2

(* The steps about one run; a retry is no first attempt. *)
LEMMA AfterRun ==
    ASSUME BaseInv, AfterInv, Calm' => Calm, TableStep, NEW r \in DOMAIN runs, RunAct(r)
    PROVE  AfterInv'
<1>0. UNCHANGED <<jobs, deps, hadSuccess, scheduled, request, task>> /\ TypeOK
  BY DEF RunAct, retry_run, cancel, requeue_orphans, enqueue_run, BaseInv
<1>1. ASSUME NoSuccess, NoDispatch \/ (Adds(Len(runs'), runs[r].job) /\ runs'[Len(runs')].attempt # 1)
      PROVE  AfterInv'
  <2>1. Succeeded' \subseteq hadSuccess'
    BY <1>0, <1>1, SuccessKept DEF AfterInv, NoSuccess
  <2>2. ASSUME Calm' PROVE RowsWait' /\ AimsWait' /\ RunsWait'
    <3>1. RowsWait /\ AimsWait /\ RunsWait
      BY <2>2 DEF AfterInv, Calm
    <3>2. RowsWait' /\ AimsWait'
      BY <3>1, <1>0 DEF RowsWait, RowsOf, AimsWait, Aims
    <3>3. \A q \in DOMAIN runs' : runs'[q].status \in {"queued", "running"} =>
             \/ q \in DOMAIN runs /\ runs[q].status \in {"queued", "running"} /\ runs'[q].job = runs[q].job
             \/ runs'[q].attempt # 1
      BY <1>1 DEF NoDispatch, Adds
    <3>4. RunsWait'
      BY <3>1, <3>3, <1>0, RunsWaitKept
    <3> QED
      BY <3>2, <3>4
  <2> QED
    BY <2>1, <2>2 DEF AfterInv, Calm
<1>2. CASE retry_run(r)
  <2>1. Adds(Len(runs'), runs[r].job) /\ runs'[Len(runs')].attempt # 1
    BY <1>0, <1>2, RetryDoes
  <2>2. NoSuccess
    BY <2>1 DEF Adds, NoSuccess
  <2> QED
    BY <2>1, <2>2, <1>1
<1>3. CASE cancel(r)
  <2>1. Sets(r, "canceled")
    BY <1>0, <1>3, CancelDoes
  <2>2. NoSuccess /\ NoDispatch
    <3>1. "canceled" # "succeeded" /\ "canceled" \notin {"queued", "running"}
      OBVIOUS
    <3> QED
      BY <2>1, <3>1, TableDispatch
  <2> QED
    BY <2>2, <1>1
<1>4. CASE runs' = runs
  <2>1. NoSuccess /\ NoDispatch
    BY <1>4 DEF NoSuccess, NoDispatch
  <2> QED
    BY <2>1, <1>1
<1> QED
  BY <1>2, <1>3, <1>4 DEF RunAct, requeue_orphans, enqueue_run

(* A scheduled run is dispatched whatever its job depends on. *)
LEMMA AfterSchedule ==
    ASSUME BaseInv, AfterInv, Calm' => Calm, TableStep, ScheduleAct
    PROVE  AfterInv'
<1>1. PICK j \in Jobs : schedule_due_jobs(j)
  BY DEF ScheduleAct
<1>2. UNCHANGED <<jobs, deps, hadSuccess, request, task>> /\ scheduled' = scheduled \union {Len(runs')}
  BY <1>1 DEF schedule_due_jobs
<1>3. Adds(Len(runs'), j)
  BY <1>1, ScheduleDoes DEF BaseInv
<1>4. NoSuccess
  BY <1>3 DEF Adds, NoSuccess
<1>5. Succeeded' \subseteq hadSuccess'
  BY <1>2, <1>4, SuccessKept DEF AfterInv, NoSuccess
<1>6. ASSUME Calm' PROVE RowsWait' /\ AimsWait' /\ RunsWait'
  <2>1. RowsWait /\ AimsWait /\ RunsWait
    BY <1>6 DEF AfterInv, Calm
  <2>2. RowsWait' /\ AimsWait'
    BY <2>1, <1>2 DEF RowsWait, RowsOf, AimsWait, Aims
  <2>3. \A q \in DOMAIN runs' : runs'[q].status \in {"queued", "running"} =>
           \/ q \in DOMAIN runs /\ runs[q].status \in {"queued", "running"} /\ runs'[q].job = runs[q].job
           \/ q \in scheduled'
    BY <1>2, <1>3 DEF Adds
  <2>4. RunsWait'
    BY <2>1, <2>3, <1>2, RunsWaitKept
  <2> QED
    BY <2>2, <2>4
<1> QED
  BY <1>5, <1>6 DEF AfterInv, Calm

(* The steps of tasks that leave the graph alone. *)
LEMMA AfterTask ==
    ASSUME AfterInv, Calm' => Calm, TableStep, UNCHANGED <<jobs, deps, scheduled, request>>,
           hadSuccess \subseteq hadSuccess', Succeeded' \subseteq hadSuccess',
           \A u \in Task : \A k \in Jobs : AimsNext(u, k) => Aims(u, k) \/ deps[k] \subseteq Succeeded,
           Calm => \A q \in DOMAIN runs' : runs'[q].status \in {"queued", "running"} =>
               \/ q \in DOMAIN runs /\ runs[q].status \in {"queued", "running"} /\ runs'[q].job = runs[q].job
               \/ deps[runs'[q].job] \subseteq hadSuccess
    PROVE  AfterInv'
<1>1. ASSUME Calm' PROVE RowsWait' /\ AimsWait' /\ RunsWait'
  <2>1. RowsWait /\ AimsWait /\ RunsWait
    BY <1>1 DEF AfterInv, Calm
  <2>2. RowsWait'
    BY <2>1, RowsWaitSame
  <2>3. \A u \in Task : \A k \in Jobs : AimsNext(u, k) => Aims(u, k) \/ deps[k] \subseteq hadSuccess
    BY DEF AfterInv
  <2>4. AimsWait'
    BY <2>1, <2>3, AimsWaitKept
  <2>5. RunsWait'
    BY <2>1, <1>1, RunsWaitKept
  <2> QED
    BY <2>2, <2>4, <2>5
<1> QED
  BY <1>1 DEF AfterInv, Calm

(* A claimed run was dispatched before. *)
LEMMA AfterStart ==
    ASSUME BaseInv, AfterInv, Calm' => Calm, TableStep, NEW t \in Task, StartAct(t)
    PROVE  AfterInv'
<1>1. PICK r : Delivers(t, r)
  BY DeliveryDoes DEF StartAct
<1>2. UNCHANGED <<jobs, deps, scheduled, request, hadSuccess>>
  BY DEF StartAct, Deliver, Redeliver
<1>3. NoSuccess /\ NoDispatch
  <2>1. CASE runs' = runs
    BY <2>1 DEF NoSuccess, NoDispatch
  <2>2. CASE Sets(r, "running") /\ Status(r) \in {"queued", "running"}
    <3>1. "running" # "succeeded" /\ runs[r].status \in {"queued", "running"}
      BY <2>2 DEF Status
    <3> QED
      BY <2>2, <3>1, TableDispatch
  <2> QED
    BY <2>1, <2>2, <1>1 DEF Delivers
<1>4. Succeeded' \subseteq hadSuccess'
  BY <1>2, <1>3, SuccessKept DEF AfterInv, NoSuccess
<1>5. \A u \in Task : \A k : AimsNext(u, k) => Aims(u, k)
  BY AimsStart
<1> QED
  BY <1>2, <1>3, <1>4, <1>5, AfterTask DEF NoDispatch

(* A task that ends aims at nothing. *)
LEMMA AfterEnd ==
    ASSUME BaseInv, AfterInv, Calm' => Calm, TableStep, NEW t \in Task, EndAct(t)
    PROVE  AfterInv'
<1>1. UNCHANGED <<runs, jobs, deps, scheduled, request, hadSuccess>>
  BY DEF EndAct, FanOutFails, FanOutDone, Interrupt, Crash
<1>2. NoSuccess /\ NoDispatch
  BY <1>1 DEF NoSuccess, NoDispatch
<1>3. Succeeded' \subseteq hadSuccess'
  BY <1>1, <1>2, SuccessKept DEF AfterInv, NoSuccess
<1>4. \A u \in Task : \A k : AimsNext(u, k) => Aims(u, k)
  BY AimsStart
<1> QED
  BY <1>1, <1>2, <1>3, <1>4, AfterTask DEF NoDispatch

(* The fan-out aims only at what dependents_ready selected. *)
LEMMA AfterMove ==
    ASSUME BaseInv, AfterInv, Calm' => Calm, TableStep, NEW t \in Task, MoveAct(t)
    PROVE  AfterInv'
<1>0. TypeOK /\ TaskOK /\ TaskFine(t)
  BY DEF BaseInv, TaskOK
<1>1. UNCHANGED <<jobs, deps, scheduled, request>>
  BY DEF MoveAct, Execute, FinishRun, dependents_ready, CheckDispatched, SelectPending, create_dependency_run, EnqueueDependent
<1>2. \A u \in Task : \A k \in Jobs : AimsNext(u, k) => Aims(u, k) \/ deps[k] \subseteq Succeeded
  <2>1. \A k \in Jobs : AimsNext(t, k) => Aims(t, k) \/ deps[k] \subseteq Succeeded
    BY AimsMove DEF Ready, all_dependencies_succeeded
  <2>2. \A u \in Task : u # t => task'[u] = task[u]
    BY OthersStay
  <2>3. ASSUME NEW u \in Task, u # t, NEW k \in Jobs, AimsNext(u, k) PROVE Aims(u, k)
    BY <2>2, <2>3 DEF AimsNext, Aims
  <2> QED
    BY <2>1, <2>3
<1>3. CASE runs' = runs /\ hadSuccess' = hadSuccess
  <2>1. NoSuccess /\ NoDispatch
    BY <1>3 DEF NoSuccess, NoDispatch
  <2>2. Succeeded' \subseteq hadSuccess'
    BY <1>1, <1>3, <2>1, SuccessKept DEF AfterInv, NoSuccess
  <2> QED
    BY <1>1, <1>2, <1>3, <2>1, <2>2, AfterTask DEF NoDispatch
<1>4. CASE FinishRun(t)
  <2>1. hadSuccess' = hadSuccess \union Succeeded'
    BY <1>4 DEF FinishRun
  <2>2. NoDispatch
    <3>1. task[t].result \in Outcomes
      BY <1>0, <1>4 DEF FinishRun, TaskFine
    <3>2. task[t].result \notin {"queued", "running"}
      BY <3>1, DependenciesAssumption
    <3>3. runs' = runs \/ Sets(task[t].run, task[t].result)
      BY <1>0, <1>4, FinishDoes
    <3> QED
      BY <3>2, <3>3, TableDispatch
  <2> QED
    BY <1>1, <1>2, <2>1, <2>2, AfterTask DEF NoDispatch
<1>5. CASE create_dependency_run(t)
  <2>1. hadSuccess' = hadSuccess
    BY <1>5 DEF create_dependency_run
  <2>2. /\ task[t].pc = "write" /\ task[t].dep \in Jobs
        /\ \/ task[t].id # 0 /\ Sets(task[t].id, "queued")
           \/ Adds(task'[t].id, task[t].dep)
    BY <1>0, <1>5, WriteDoes
  <2>3. task[t].id # 0 => runs[task[t].id].job = task[t].dep
    BY <2>2, <1>0 DEF TaskFine
  <2>4. \A q \in DOMAIN runs' :
          \/ q \in DOMAIN runs /\ runs'[q].status = runs[q].status /\ runs'[q].job = runs[q].job
          \/ runs'[q].status = "queued" /\ runs'[q].job = task[t].dep
    <3>1. CASE task[t].id # 0 /\ Sets(task[t].id, "queued")
      BY <3>1, <2>3 DEF Sets, TableStep
    <3>2. CASE Adds(task'[t].id, task[t].dep)
      BY <3>2 DEF Adds
    <3> QED
      BY <3>1, <3>2, <2>2
  <2>5. NoSuccess
    BY <2>4 DEF NoSuccess
  <2>6. Succeeded' \subseteq hadSuccess'
    BY <1>1, <2>1, <2>5, SuccessKept DEF AfterInv, NoSuccess
  <2>7. Calm => deps[task[t].dep] \subseteq hadSuccess
    BY <2>2 DEF AfterInv, AimsWait, Aims, Calm
  <2>8. Calm => \A q \in DOMAIN runs' : runs'[q].status \in {"queued", "running"} =>
           \/ q \in DOMAIN runs /\ runs[q].status \in {"queued", "running"} /\ runs'[q].job = runs[q].job
           \/ deps[runs'[q].job] \subseteq hadSuccess
    BY <2>4, <2>7
  <2> QED
    BY <1>1, <1>2, <2>1, <2>6, <2>8, AfterTask
<1> QED
  BY <1>3, <1>4, <1>5 DEF MoveAct, Execute, dependents_ready, CheckDispatched, SelectPending, EnqueueDependent

(* The invariant is inductive, given the base. *)
LEMMA AfterInductive == BaseInv /\ AfterInv /\ [Next]_vars => AfterInv'
<1> SUFFICES ASSUME BaseInv, AfterInv, [Next]_vars PROVE AfterInv'
  OBVIOUS
<1>0. (Calm' => Calm) /\ TableStep
  BY CalmKept
<1>1. CASE UNCHANGED vars
  <2>1. UNCHANGED <<runs, jobs, deps, hadSuccess, scheduled, request, task, budget>>
    BY <1>1 DEF vars
  <2>2. (Succeeded \subseteq hadSuccess)' /\ (RowsWait <=> RowsWait') /\ (AimsWait <=> AimsWait') /\ (RunsWait <=> RunsWait')
    BY <2>1 DEF AfterInv, Succeeded, RunsOf, Exists, Status, RowsWait, RowsOf, AimsWait, Aims, RunsWait, Dispatched
  <2> QED
    BY <2>2, <1>0 DEF AfterInv, Calm
<1> QED
  BY <1>0, <1>1, Steps, AfterWalk, AfterCommit, AfterGraph, AfterSchedule, AfterRun, AfterStart, AfterMove, AfterEnd

(* The invariant holds at first. *)
LEMMA AfterInit == Init => AfterInv
<1> SUFFICES ASSUME Init PROVE AfterInv
  OBVIOUS
<1>0. DOMAIN <<>> = {} /\ NoRequest.rows = <<>>
  BY SMTT(60) DEF NoRequest
<1>1. DOMAIN runs = {}
  BY <1>0 DEF Init
<1>2. (\A a \in Request : request[a] = NoRequest) /\ (\A t \in Task : task[t] = Idle)
  BY DEF Init
<1>3. \A a \in Request : RowsOf(a) = <<>>
  BY <1>0, <1>2 DEF RowsOf
<1>4. \A t \in Task : \A k : ~Aims(t, k)
  <2>1. Idle.todo = {} /\ Idle.pc = "idle"
    BY DEF Idle
  <2> QED
    BY <2>1, <1>2 DEF Aims
<1>5. RowsWait
  BY <1>0, <1>3 DEF RowsWait
<1>6. \A j : RunsOf(j, {"succeeded"}) = {}
  BY <1>1 DEF RunsOf
<1> QED
  BY <1>1, <1>4, <1>5, <1>6 DEF AfterInv, AimsWait, RunsWait, Succeeded

(* The invariant holds always. *)
LEMMA After == Spec => [](BaseInv /\ AfterInv)
<1> QED
  BY BaseInit, BaseInductive, AfterInit, AfterInductive, PTL DEF Spec

(* Until a user changes the graph, a run that a trigger or a fan-out has   *)
(* made or promoted is queued or running only after a success of each      *)
(* dependency of its job, through scheduled runs, retries, cancels,        *)
(* deletions and crashes.                                                  *)
THEOREM DependenciesFirst == Spec => []RunsAfterDependencies
<1>1. AfterInv => RunsAfterDependencies
  BY DEF AfterInv, RunsAfterDependencies, RunsWait, Dispatched, Exists, Status
<1> QED
  BY <1>1, After, PTL

-----------------------------------------------------------------------------
(* A pending run is promoted after its dependencies. A job without         *)
(* dependencies has one run, which is in one place at a time, and no fan-  *)
(* out reaches it: so once it has succeeded it stays so.                   *)

(* No second trigger, no scheduled run, no retry, no change of the graph. *)
Solo == OneTrigger /\ NoneOf({"schedule", "retry", "update"})

(* A run of a job that was created without dependencies. *)
Root(q) == depends_on[runs[q].job] = {}

(* Task t has run q. *)
Holds(t, q) == task[t].pc # "idle" /\ task[t].run = q

(* Some task has run q. *)
Held(q) == \E t \in Task : Holds(t, q)

(* A message of run q waits in the stream. *)
InStream(q) == \E i \in DOMAIN stream : stream[i] = q

(* No two do. *)
OnceIn(q) == \A i, k \in DOMAIN stream : (stream[i] = q /\ stream[k] = q) => i = k

(* A run is in the outbox, or has one message in the stream, or one with a *)
(* dead worker, or a task; or none of these.                               *)
OnePlace(q) ==
    /\ OnceIn(q)
    /\ InStream(q) => q \notin outbox /\ q \notin stale /\ ~Held(q)
    /\ q \in outbox => q \notin stale /\ ~Held(q)
    /\ q \in stale => ~Held(q)
    /\ \A t, u \in Task : (Holds(t, q) /\ Holds(u, q)) => t = u

(* What its status says of it. *)
StatusFits(q) ==
    /\ runs[q].status = "queued" => q \notin stale /\ ~Held(q)
    /\ \A t \in Task : (Holds(t, q) /\ task[t].pc \in {"exec", "finish"}) => runs[q].status \in {"running", "canceled"}
    /\ runs[q].job \in hadSuccess => runs[q].status = "succeeded"

(* All runs of jobs without dependencies have one place, and a status that *)
(* fits it.                                                                *)
RootsFit == \A q \in DOMAIN runs : Root(q) => OnePlace(q) /\ StatusFits(q)

(* A job without dependencies has one run. *)
RootsOnce == \A q, r \in DOMAIN runs : (Root(q) /\ runs[r].job = runs[q].job) => r = q

(* The fan-out is of jobs with dependencies. *)
FanOutDown ==
    /\ \A t \in Task : \A k \in Jobs : Aims(t, k) => depends_on[k] # {}
    /\ \A t \in Task : task[t].pc = "send" => ~Root(task[t].id)

(* Without update_job the graph only loses dependencies. *)
GraphShrinks == \A k \in Jobs : deps[k] \subseteq depends_on[k]

(* Before the first row nothing has had a success. *)
NoneYet == DOMAIN runs = {} => hadSuccess = {}

(* While there is one trigger, no retry and no change of the graph, all of *)
(* this holds.                                                             *)
RootInv == Solo => GraphShrinks /\ NoneYet /\ FanOutDown /\ RootsOnce /\ RootsFit

(* The invariant, with its condition. *)
LEMMA RootBefore ==
    ASSUME RootInv, Solo
    PROVE  GraphShrinks /\ NoneYet /\ FanOutDown /\ RootsOnce /\ RootsFit
  BY DEF RootInv

(* If the condition holds after a step, it did before; and it implies      *)
(* calm.                                                                   *)
LEMMA SoloKept ==
    ASSUME BaseInv, [Next]_vars
    PROVE  (Solo' => Solo) /\ TableStep /\ (Solo => Calm)
<1>1. BaseStep
  BY BaseKept
<1>2. (\A K \in SUBSET DOMAIN Budget : NoneOf(K)' => NoneOf(K)) /\ (OneTrigger' => OneTrigger)
  BY <1>1, BudgetKept DEF BaseStep, BaseInv
<1>3. {"schedule", "retry", "update"} \in SUBSET DOMAIN Budget
  BY Kinds
<1>4. NoneOf({"schedule", "retry", "update"})' => NoneOf({"schedule", "retry", "update"})
  BY <1>2, <1>3
<1>5. Solo => Calm
  BY DEF Solo, Calm, NoneOf
<1> QED
  BY <1>1, <1>2, <1>4, <1>5 DEF BaseStep, Solo

(* The steps that end it. *)
LEMMA SoloEnds ==
    ASSUME BaseInv, Solo'
    PROVE  ~Spend("retry") /\ ~Spend("update") /\ ~ScheduleAct
<1> DEFINE K == {"schedule", "retry", "update"}
<1>0. TypeOK /\ BudgetOK /\ "retry" \in DOMAIN Budget /\ "update" \in DOMAIN Budget
  BY Kinds DEF BaseInv
<1>1. "schedule" \in K /\ "retry" \in K /\ "update" \in K
  OBVIOUS
<1>2. NoneOf(K)'
  BY DEF Solo
<1> HIDE DEF K
<1>3. (Spend("retry") => ~NoneOf(K)') /\ (Spend("update") => ~NoneOf(K)') /\ (ScheduleAct => ~NoneOf(K)')
  BY <1>0, <1>1, Disturbs, ScheduleEnds
<1> QED
  BY <1>2, <1>3

(* The first message is delivered. *)
LEMMA StreamTail ==
    ASSUME stream \in Seq(RunId), stream # <<>>, stream' = Tail(stream), NEW q, OnceIn(q)
    PROVE  /\ OnceIn(q)'
           /\ InStream(q)' => InStream(q)
           /\ q = Head(stream) => InStream(q) /\ ~InStream(q)'
<1>1. /\ \A i \in DOMAIN stream' : i + 1 \in DOMAIN stream /\ i + 1 # 1 /\ stream'[i] = stream[i + 1]
      /\ \A i, k \in DOMAIN stream' : i + 1 = k + 1 => i = k
      /\ 1 \in DOMAIN stream /\ Head(stream) = stream[1]
  BY SMTT(60)
<1>2. ASSUME NEW i \in DOMAIN stream', NEW k \in DOMAIN stream', stream'[i] = q, stream'[k] = q PROVE i = k
  <2>1. i + 1 = k + 1
    BY <1>1, <1>2 DEF OnceIn
  <2> QED
    BY <1>1, <2>1
<1>3. OnceIn(q)'
  BY <1>2 DEF OnceIn
<1>4. InStream(q)' => InStream(q)
  BY <1>1 DEF InStream
<1>5. ASSUME q = Head(stream), NEW i \in DOMAIN stream', stream'[i] = q PROVE FALSE
  BY <1>1, <1>5 DEF OnceIn
<1> QED
  BY <1>1, <1>3, <1>4, <1>5 DEF InStream

(* A message is sent. *)
LEMMA StreamAppend ==
    ASSUME stream \in Seq(RunId), NEW r, stream' = Append(stream, r), NEW q, OnceIn(q)
    PROVE  /\ r # q => OnceIn(q)' /\ (InStream(q)' => InStream(q))
           /\ (r = q /\ ~InStream(q)) => OnceIn(q)'
<1> DEFINE n == Len(stream) + 1
<1>1. /\ DOMAIN stream' = DOMAIN stream \union {n} /\ stream'[n] = r
      /\ \A i \in DOMAIN stream : stream'[i] = stream[i]
  BY SMTT(60)
<1> HIDE DEF n
<1>2. ASSUME r # q PROVE OnceIn(q)' /\ (InStream(q)' => InStream(q))
  <2>1. \A i \in DOMAIN stream' : stream'[i] = q => i \in DOMAIN stream /\ stream[i] = q
    BY <1>1, <1>2
  <2>2. OnceIn(q)'
    BY <2>1 DEF OnceIn
  <2> QED
    BY <2>1, <2>2 DEF InStream
<1>3. ASSUME r = q, ~InStream(q) PROVE OnceIn(q)'
  <2>1. \A i \in DOMAIN stream' : stream'[i] = q => i = n
    BY <1>1, <1>3 DEF InStream
  <2> QED
    BY <2>1 DEF OnceIn
<1> QED
  BY <1>2, <1>3

(* The run has no more places than before. *)
LEMMA PlaceKept ==
    ASSUME NEW q, OnePlace(q), OnceIn(q)', InStream(q)' => InStream(q),
           q \in outbox' => q \in outbox, q \in stale' => q \in stale,
           \A t \in Task : Holds(t, q)' => Holds(t, q)
    PROVE  OnePlace(q)' /\ (Held(q)' => Held(q))
<1>1. Held(q)' => Held(q)
  BY DEF Held
<1> QED
  BY <1>1 DEF OnePlace

(* The stream does not change. *)
LEMMA StreamSame ==
    ASSUME stream' = stream, NEW q, OnceIn(q)
    PROVE  OnceIn(q)' /\ (InStream(q)' => InStream(q))
  BY DEF OnceIn, InStream

(* A step that changes nothing that the status of run q has to fit. *)
LEMMA FitsKept ==
    ASSUME NEW q, StatusFits(q), runs'[q].status = runs[q].status, runs'[q].job = runs[q].job,
           q \in stale' => q \in stale, Held(q)' => Held(q),
           \A t \in Task : (Holds(t, q)' /\ task'[t].pc \in {"exec", "finish"}) =>
                               Holds(t, q) /\ task[t].pc \in {"exec", "finish"},
           runs[q].job \in hadSuccess' => runs[q].job \in hadSuccess
    PROVE  StatusFits(q)'
  BY DEF StatusFits

(* The two clauses about one run. *)
Fit(q) == OnePlace(q) /\ StatusFits(q)

(* The steps but for the commit of the trigger: none makes another run of  *)
(* a job without dependencies.                                             *)
LEMMA RootAssemble ==
    ASSUME BaseInv, RootInv, Solo, TableStep,
           \A k \in Jobs : deps'[k] \subseteq deps[k],
           hadSuccess' \subseteq hadSuccess \/ DOMAIN runs # {},
           \A q \in DOMAIN runs' \ DOMAIN runs : depends_on[runs'[q].job] # {},
           \A t \in Task : \A k \in Jobs : AimsNext(t, k) => Aims(t, k) \/ depends_on[k] # {},
           \A t \in Task : task'[t].pc = "send" =>
               \/ task[t].pc = "send" /\ task'[t].id = task[t].id
               \/ depends_on[runs'[task'[t].id].job] # {},
           \A q \in DOMAIN runs : (Root(q) /\ Fit(q)) => Fit(q)'
    PROVE  RootInv'
<1>0. GraphShrinks /\ NoneYet /\ FanOutDown /\ RootsOnce /\ RootsFit
  BY RootBefore
<1>1. GraphShrinks' /\ NoneYet'
  BY <1>0 DEF GraphShrinks, NoneYet, TableStep
<1>2. FanOutDown'
  <2>1. \A t \in Task : \A k \in Jobs : AimsNext(t, k) => depends_on[k] # {}
    BY <1>0 DEF FanOutDown
  <2>2. ASSUME NEW t \in Task, task'[t].pc = "send" PROVE depends_on[runs'[task'[t].id].job] # {}
    <3>1. CASE task[t].pc = "send" /\ task'[t].id = task[t].id
      <4>1. task[t].id \in DOMAIN runs
        BY <3>1 DEF BaseInv, TaskOK, TaskFine, Known
      <4>2. runs'[task[t].id].job = runs[task[t].id].job
        BY <4>1 DEF TableStep
      <4> QED
        BY <3>1, <4>2, <1>0 DEF FanOutDown, Root
    <3> QED
      BY <3>1, <2>2
  <2> QED
    BY <2>1, <2>2 DEF FanOutDown, Root, AimsNext, Aims
<1>3. ASSUME NEW q \in DOMAIN runs', Root(q)' PROVE q \in DOMAIN runs /\ Root(q)
  <2>1. q \in DOMAIN runs
    BY <1>3 DEF Root
  <2> QED
    BY <2>1, <1>3 DEF Root, TableStep
<1>4. RootsOnce'
  <2>1. ASSUME NEW q \in DOMAIN runs', NEW r \in DOMAIN runs', Root(q)', runs'[r].job = runs'[q].job PROVE r = q
    <3>1. Root(r)'
      BY <2>1 DEF Root
    <3>2. q \in DOMAIN runs /\ r \in DOMAIN runs /\ Root(q)
      BY <2>1, <3>1, <1>3
    <3>3. runs[r].job = runs[q].job
      BY <3>2, <2>1 DEF TableStep
    <3> QED
      BY <3>2, <3>3, <1>0 DEF RootsOnce
  <2> QED
    BY <2>1 DEF RootsOnce
<1>5. RootsFit'
  <2>1. ASSUME NEW q \in DOMAIN runs', Root(q)' PROVE Fit(q)'
    BY <2>1, <1>0, <1>3 DEF RootsFit, Fit
  <2> QED
    BY <2>1 DEF RootsFit, Fit
<1> QED
  BY <1>1, <1>2, <1>4, <1>5 DEF RootInv

(* A step that changes neither tasks nor runs nor messages. *)
LEMMA FitSame ==
    ASSUME UNCHANGED <<stream, stale, outbox, task, runs>>, hadSuccess' \subseteq hadSuccess, NEW q, Fit(q)
    PROVE  Fit(q)'
<1>1. OnePlace(q) /\ StatusFits(q)
  BY DEF Fit
<1>2. OnceIn(q)' /\ (InStream(q)' => InStream(q))
  BY <1>1, StreamSame DEF OnePlace
<1>3. \A t \in Task : Holds(t, q)' => Holds(t, q)
  BY DEF Holds
<1>4. OnePlace(q)' /\ (Held(q)' => Held(q))
  BY <1>1, <1>2, <1>3, PlaceKept
<1>5. StatusFits(q)'
  BY <1>1, <1>3, <1>4, FitsKept
<1> QED
  BY <1>4, <1>5 DEF Fit

(* The walk of the trigger. *)
LEMMA RootWalk ==
    ASSUME BaseInv, RootInv, Solo, TableStep, NEW a \in Request, WalkAct(a)
    PROVE  RootInv'
<1>1. UNCHANGED <<stream, stale, outbox, task, runs>> /\ UNCHANGED <<jobs, deps, hadSuccess>>
  BY DEF WalkAct, VisitDependency, LeaveJob, trigger_job
<1>2. \A q \in DOMAIN runs : (Root(q) /\ Fit(q)) => Fit(q)'
  BY <1>1, FitSame
<1>3. \A t \in Task : \A k \in Jobs : AimsNext(t, k) => Aims(t, k)
  BY <1>1 DEF AimsNext, Aims
<1> QED
  BY <1>1, <1>2, <1>3, RootAssemble

(* A deletion. *)
LEMMA RootGraph ==
    ASSUME BaseInv, RootInv, Solo, Solo', TableStep, GraphAct
    PROVE  RootInv'
<1>1. PICK j \in Jobs : delete_job(j)
  BY SoloEnds DEF GraphAct, update_job
<1>2. UNCHANGED <<stream, stale, outbox, task, runs>> /\ hadSuccess' \subseteq hadSuccess
  BY <1>1 DEF delete_job
<1>3. \A k \in Jobs : deps'[k] \subseteq deps[k]
  <2>1. deps' = [k \in Jobs |-> IF k = j THEN {} ELSE deps[k] \ {j}]
    BY <1>1 DEF delete_job
  <2> QED
    BY <2>1
<1>4. \A q \in DOMAIN runs : (Root(q) /\ Fit(q)) => Fit(q)'
  BY <1>2, FitSame
<1>5. \A t \in Task : \A k \in Jobs : AimsNext(t, k) => Aims(t, k)
  BY <1>2 DEF AimsNext, Aims
<1> QED
  BY <1>2, <1>3, <1>4, <1>5, RootAssemble

(* The commit of the only trigger makes the only runs of jobs without      *)
(* dependencies.                                                           *)
LEMMA RootCommit ==
    ASSUME BaseInv, OnceInv, RootInv, Solo, NEW a \in Request, CommitTrigger(a)
    PROVE  RootInv'
<1>0. GraphShrinks /\ NoneYet /\ FanOutDown /\ TypeOK
  BY RootBefore DEF BaseInv
<1>1. UNCHANGED <<deps, hadSuccess, stream, stale, task>> /\ request[a].pc # "idle"
  BY DEF CommitTrigger
<1>2. DOMAIN runs = {}
  BY <1>1 DEF OnceInv, Single, Solo, NoneOf
<1>3. /\ \A q \in DOMAIN runs' : q - Len(runs) \in DOMAIN RowsOf(a) /\ runs'[q] = RowsOf(a)[q - Len(runs)]
      /\ outbox' = outbox \union {r \in DOMAIN runs' \ DOMAIN runs : runs'[r].status = "queued"}
  BY <1>0, <1>2, CommitDoes
<1>4. \A t \in Task : task[t] = Idle
  BY <1>2 DEF BaseInv, TaskOK, TaskFine, Known
<1>5. (\A q : ~InStream(q)) /\ stale = {} /\ hadSuccess = {}
  BY <1>0, <1>2 DEF BaseInv, QueueOK, Known, InStream, NoneYet
<1>6. Idle.pc = "idle" /\ Idle.todo = {}
  BY DEF Idle
<1>7. GraphShrinks' /\ NoneYet'
  BY <1>0, <1>1, <1>5 DEF GraphShrinks, NoneYet
<1>8. FanOutDown'
  BY <1>1, <1>4, <1>6 DEF FanOutDown, Aims
<1>9. RootsOnce'
  <2>1. ASSUME NEW r \in DOMAIN runs', NEW q \in DOMAIN runs', runs'[q].job = runs'[r].job PROVE q = r
    <3>1. q - Len(runs) = r - Len(runs)
      BY <2>1, <1>3 DEF BaseInv, OneRowPerJob
    <3>2. runs' \in Seq(JobRun) /\ Len(runs) \in Nat
      BY <1>0, CommitDoes, SMTT(60) DEF TypeOK, TableStep, RunStoreTypeOK
    <3>3. q \in Int /\ r \in Int
      BY <3>2, SMTT(60)
    <3> QED
      BY <3>1, <3>2, <3>3, SMTT(60)
  <2> QED
    BY <2>1 DEF RootsOnce
<1>10. ASSUME NEW q PROVE OnePlace(q)' /\ StatusFits(q)'
  <2>1. ~InStream(q)' /\ ~Held(q)' /\ q \notin stale' /\ \A t \in Task : ~Holds(t, q)'
    BY <1>1, <1>4, <1>5, <1>6 DEF InStream, Held, Holds
  <2>2. OnceIn(q)'
    BY <2>1 DEF OnceIn, InStream
  <2>3. hadSuccess' = {}
    BY <1>1, <1>5
  <2> QED
    BY <2>1, <2>2, <2>3 DEF OnePlace, StatusFits
<1>11. RootsFit'
  BY <1>10 DEF RootsFit
<1> QED
  BY <1>7, <1>8, <1>9, <1>11 DEF RootInv

(* cancel, requeue_orphans and enqueue_run. *)
LEMMA RootRun ==
    ASSUME BaseInv, RootInv, Solo, Solo', TableStep, NEW r \in DOMAIN runs, RunAct(r)
    PROVE  RootInv'
<1>0. TypeOK /\ stream \in Seq(RunId)
  BY DEF BaseInv, TypeOK
<1>1. ~retry_run(r)
  BY SoloEnds DEF retry_run
<1>2. UNCHANGED <<jobs, deps, hadSuccess, stale, request, task>>
  BY <1>1 DEF RunAct, cancel, requeue_orphans, enqueue_run
<1>3. DOMAIN runs' = DOMAIN runs
  BY <1>0, <1>1, CancelDoes DEF RunAct, requeue_orphans, enqueue_run, Sets
<1>4. \A t \in Task : \A k \in Jobs : AimsNext(t, k) => Aims(t, k)
  BY <1>2 DEF AimsNext, Aims
<1>5. ASSUME NEW q \in DOMAIN runs, Fit(q) PROVE Fit(q)'
  <2>0. OnePlace(q) /\ StatusFits(q) /\ OnceIn(q)
    BY <1>5 DEF Fit, OnePlace
  <2>1. (\A t \in Task : Holds(t, q)' <=> Holds(t, q)) /\ (Held(q)' <=> Held(q))
    BY <1>2 DEF Held, Holds
  <2>2. CASE cancel(r)
    <3>1. Status(r) \in ACTIVE /\ Sets(r, "canceled") /\ stream' = stream /\ outbox' = outbox
      BY <2>2, <1>0, CancelDoes DEF cancel
    <3>2. OnceIn(q)' /\ (InStream(q)' => InStream(q))
      BY <2>0, <3>1, StreamSame
    <3>3. OnePlace(q)'
      BY <2>0, <2>1, <3>1, <3>2, <1>2, PlaceKept
    <3>4. runs'[q].job = runs[q].job /\ runs'[q].status = IF q = r THEN "canceled" ELSE runs[q].status
      BY <3>1 DEF Sets, TableStep
    <3>5. CASE q = r
      <4>1. runs[q].job \notin hadSuccess
        BY <2>0, <3>1, <3>5 DEF StatusFits, Status, ACTIVE
      <4>2. runs'[q].status = "canceled"
        BY <3>4, <3>5
      <4> QED
        BY <4>1, <4>2, <3>3, <3>4, <1>2 DEF Fit, StatusFits
    <3>6. CASE q # r
      <4>1. StatusFits(q)'
        BY <2>0, <2>1, <3>4, <3>6, <1>2, FitsKept
      <4> QED
        BY <4>1, <3>3 DEF Fit
    <3> QED
      BY <3>5, <3>6
  <2>3. CASE requeue_orphans(r)
    <3>1. /\ Status(r) = "queued" /\ ~InStream(r)
          /\ outbox' = outbox \union {r} /\ UNCHANGED <<runs, stream>>
      BY <2>3 DEF requeue_orphans, InStream
    <3>2. StatusFits(q)'
      BY <2>0, <2>1, <3>1, <1>2, FitsKept
    <3>3. InStream(q)' <=> InStream(q)
      BY <3>1 DEF InStream
    <3>4. OnceIn(q)'
      BY <2>0, <3>1 DEF OnceIn
    <3>5. q \in outbox' => q \in outbox \/ (~InStream(q) /\ q \notin stale /\ ~Held(q))
      BY <2>0, <3>1 DEF StatusFits, Status
    <3>6. OnePlace(q)'
      BY <2>0, <2>1, <3>3, <3>4, <3>5, <1>2 DEF OnePlace
    <3> QED
      BY <3>2, <3>6 DEF Fit
  <2>4. CASE enqueue_run(r)
    <3>1. r \in outbox /\ outbox' = outbox \ {r} /\ stream' = Append(stream, r) /\ runs' = runs
      BY <2>4 DEF enqueue_run
    <3>2. StatusFits(q)'
      BY <2>0, <2>1, <3>1, <1>2, FitsKept
    <3>3. CASE q = r
      <4>1. ~InStream(q) /\ q \notin stale /\ ~Held(q)
        BY <2>0, <3>1, <3>3 DEF OnePlace
      <4>2. OnceIn(q)'
        BY <4>1, <2>0, <3>1, <3>3, <1>0, StreamAppend
      <4>3. q \notin outbox' /\ q \notin stale' /\ ~Held(q)'
        BY <4>1, <2>1, <3>1, <3>3, <1>2
      <4> QED
        BY <4>2, <4>3, <3>2, <2>0, <2>1 DEF Fit, OnePlace
    <3>4. CASE q # r
      <4>1. OnceIn(q)' /\ (InStream(q)' => InStream(q))
        BY <2>0, <3>1, <3>4, <1>0, StreamAppend
      <4>2. OnePlace(q)'
        BY <4>1, <2>0, <2>1, <3>1, <1>2, PlaceKept
      <4> QED
        BY <4>2, <3>2 DEF Fit
    <3> QED
      BY <3>3, <3>4
  <2> QED
    BY <2>2, <2>3, <2>4, <1>1 DEF RunAct
<1> QED
  BY <1>2, <1>3, <1>4, <1>5, RootAssemble

(* A delivery takes the run from the stream to a task. *)
LEMMA RootStart ==
    ASSUME BaseInv, RootInv, Solo, TableStep, NEW t \in Task, StartAct(t)
    PROVE  RootInv'
<1>0. TypeOK /\ stream \in Seq(RunId)
  BY DEF BaseInv, TypeOK
<1>1. UNCHANGED <<jobs, deps, hadSuccess, outbox, request>>
  BY DEF StartAct, Deliver, Redeliver
<1>2. PICK r : Delivers(t, r)
  BY DeliveryDoes DEF StartAct
<1>3. \A u \in Task : \A k : AimsNext(u, k) => Aims(u, k)
  BY AimsStart
<1>4. DOMAIN runs' = DOMAIN runs /\ r \in RunId
  BY <1>2 DEF Delivers, Sets
<1>5. /\ task[t] = Idle /\ Idle.pc = "idle"
      /\ task'[t] = Idle \/ (task'[t].pc = "exec" /\ task'[t].run = r)
      /\ \A u \in Task : u # t => task'[u] = task[u]
  <2>1. Idle.pc = "idle"
    BY DEF Idle
  <2>2. task[t] = Idle /\ (task' = task \/ Becomes(t, Claimed(r)))
    BY <1>2 DEF Delivers
  <2>3. Claimed(r).pc = "exec" /\ Claimed(r).run = r
    BY <1>4, ClaimedType
  <2> QED
    BY <2>1, <2>2, <2>3 DEF Becomes
<1>6. \A u \in Task : task'[u].pc = "send" => task[u].pc = "send" /\ task'[u].id = task[u].id
  BY <1>5
<1>7. ASSUME NEW q \in DOMAIN runs, Fit(q) PROVE Fit(q)'
  <2>0. OnePlace(q) /\ StatusFits(q) /\ OnceIn(q)
    BY <1>7 DEF Fit, OnePlace
  <2>1. /\ OnceIn(q)' /\ (InStream(q)' => InStream(q)) /\ (q \in stale' => q \in stale)
        /\ q = r => (InStream(q) \/ q \in stale) /\ ~InStream(q)' /\ q \notin stale'
    <3>1. CASE stream # <<>> /\ r = Head(stream) /\ stream' = Tail(stream) /\ stale' = stale
      <4>1. /\ OnceIn(q)' /\ (InStream(q)' => InStream(q))
            /\ q = Head(stream) => InStream(q) /\ ~InStream(q)'
        BY <3>1, <2>0, <1>0, StreamTail
      <4>2. InStream(q) => q \notin stale
        BY <2>0 DEF OnePlace
      <4> QED
        BY <3>1, <4>1, <4>2
    <3>2. CASE r \in stale /\ stale' = stale \ {r} /\ stream' = stream
      <4>1. OnceIn(q)' /\ (InStream(q)' => InStream(q))
        BY <3>2, <2>0, StreamSame
      <4>2. InStream(q) => q \notin stale
        BY <2>0 DEF OnePlace
      <4> QED
        BY <3>2, <4>1, <4>2
    <3> QED
      BY <3>1, <3>2, <1>2 DEF Delivers
  <2>2. CASE q # r \/ (runs' = runs /\ task' = task)
    <3>1. runs'[q].status = runs[q].status /\ runs'[q].job = runs[q].job
      BY <2>2, <1>2 DEF Delivers, Sets, TableStep
    <3>2. \A u \in Task : Holds(u, q)' => Holds(u, q) /\ task'[u] = task[u]
      BY <2>2, <1>5 DEF Holds
    <3>3. OnePlace(q)' /\ (Held(q)' => Held(q))
      BY <2>0, <2>1, <3>2, <1>1, PlaceKept
    <3>4. StatusFits(q)'
      BY <2>0, <2>1, <3>1, <3>2, <3>3, <1>1, FitsKept
    <3> QED
      BY <3>3, <3>4 DEF Fit
  <2>3. CASE q = r /\ ~(runs' = runs /\ task' = task)
    <3>1. Status(q) \in {"queued", "running"} /\ Sets(q, "running") /\ task'[t].run = q /\ task'[t].pc = "exec"
      BY <2>3, <1>2, <1>4, ClaimedType DEF Delivers, Becomes
    <3>2. ~Held(q) /\ q \notin outbox
      BY <2>0, <2>1, <2>3 DEF OnePlace
    <3>3. \A u \in Task : Holds(u, q)' => u = t
      BY <3>2, <1>5 DEF Held, Holds
    <3>4. ~InStream(q)' /\ q \notin outbox' /\ q \notin stale'
      BY <2>1, <2>3, <3>2, <1>1
    <3>5. OnePlace(q)'
      BY <2>1, <3>3, <3>4 DEF OnePlace
    <3>6. runs'[q].status = "running" /\ runs'[q].job = runs[q].job
      BY <3>1 DEF Sets, TableStep
    <3>7. runs[q].job \notin hadSuccess
      BY <2>0, <3>1 DEF StatusFits, Status
    <3>8. StatusFits(q)'
      BY <3>6, <3>7, <1>1 DEF StatusFits
    <3> QED
      BY <3>5, <3>8 DEF Fit
  <2> QED
    BY <2>2, <2>3
<1> QED
  BY <1>1, <1>3, <1>4, <1>6, <1>7, RootAssemble

(* A task ends. *)
LEMMA RootEnd ==
    ASSUME BaseInv, RootInv, Solo, TableStep, NEW t \in Task, EndAct(t)
    PROVE  RootInv'
<1>0. TypeOK /\ TaskFine(t)
  BY DEF BaseInv, TaskOK
<1>1. UNCHANGED <<runs, jobs, deps, hadSuccess, stream, outbox, request>>
  BY DEF EndAct, FanOutFails, FanOutDone, Interrupt, Crash
<1>2. Becomes(t, Idle) /\ Idle.pc = "idle"
  BY <1>0, EndDoes DEF EndAct, Idle
<1>3. \A u \in Task : \A k : AimsNext(u, k) => Aims(u, k)
  BY AimsStart
<1>4. \A u \in Task : task'[u].pc # "idle" => u # t /\ task'[u] = task[u]
  BY <1>2 DEF Becomes
<1>5. \A u \in Task : task'[u].pc = "send" => task[u].pc = "send" /\ task'[u].id = task[u].id
  BY <1>4
<1>6. \/ stale' = stale
      \/ stale' = stale \union {task[t].run} /\ task[t].pc # "idle"
  BY <1>0 DEF EndAct, FanOutFails, FanOutDone, Interrupt, Crash, TaskFine
<1>7. ASSUME NEW q \in DOMAIN runs, Fit(q) PROVE Fit(q)'
  <2>0. OnePlace(q) /\ StatusFits(q) /\ OnceIn(q)
    BY <1>7 DEF Fit, OnePlace
  <2>1. \A u \in Task : Holds(u, q)' => Holds(u, q) /\ u # t /\ task'[u] = task[u]
    BY <1>4 DEF Holds
  <2>2. OnceIn(q)' /\ (InStream(q)' => InStream(q))
    BY <2>0, <1>1, StreamSame
  <2>3. CASE q \in stale' => q \in stale
    <3>1. OnePlace(q)' /\ (Held(q)' => Held(q))
      BY <2>0, <2>1, <2>2, <2>3, <1>1, PlaceKept
    <3>2. StatusFits(q)'
      BY <2>0, <2>1, <2>3, <3>1, <1>1, FitsKept
    <3> QED
      BY <3>1, <3>2 DEF Fit
  <2>4. CASE Holds(t, q)
    <3>1. ~InStream(q) /\ q \notin outbox /\ runs[q].status # "queued"
      BY <2>0, <2>4 DEF OnePlace, StatusFits, Held
    <3>2. ~Held(q)' /\ \A u \in Task : ~Holds(u, q)'
      BY <2>0, <2>1, <2>4 DEF Held, OnePlace
    <3>3. ~InStream(q)' /\ q \notin outbox'
      BY <3>1, <2>2, <1>1
    <3>4. OnePlace(q)'
      BY <2>2, <3>2, <3>3 DEF OnePlace
    <3>5. StatusFits(q)'
      BY <2>0, <3>1, <3>2, <1>1 DEF StatusFits
    <3> QED
      BY <3>4, <3>5 DEF Fit
  <2> QED
    BY <2>3, <2>4, <1>6 DEF Holds
<1> QED
  BY <1>1, <1>3, <1>5, <1>7, RootAssemble

(* A step of a task that stays with its run, or is over, and leaves the    *)
(* messages alone.                                                         *)
LEMMA PlaceMove ==
    ASSUME NEW t \in Task, task[t].pc # "idle", \A u \in Task : u # t => task'[u] = task[u],
           task'[t].pc = "idle" \/ task'[t].run = task[t].run,
           stale' = stale, outbox' = outbox, NEW q, OnePlace(q), OnceIn(q)', InStream(q)' => InStream(q)
    PROVE  OnePlace(q)' /\ (Held(q)' => Held(q)) /\ \A u \in Task : Holds(u, q)' => Holds(u, q)
<1>1. \A u \in Task : Holds(u, q)' => Holds(u, q)
  BY DEF Holds
<1> QED
  BY <1>1, PlaceKept

(* finish_run of a run without dependencies: the only success of its job   *)
(* is its own.                                                             *)
LEMMA RootFinish ==
    ASSUME BaseInv, RootInv, Solo, TableStep, NEW t \in Task, FinishRun(t)
    PROVE  RootInv'
<1>0. TypeOK /\ TaskOK /\ RootsOnce
  BY RootBefore DEF BaseInv
<1>1. UNCHANGED <<jobs, deps, stream, stale, outbox, request>> /\ hadSuccess' = hadSuccess \union Succeeded'
  BY DEF FinishRun
<1> DEFINE r == task[t].run
           s == task[t].result
<1>2. /\ task[t].pc = "finish" /\ Known(r)
      /\ runs' = runs \/ (Sets(r, s) /\ s \in Outcomes)
      /\ \/ s # "succeeded" /\ Becomes(t, Idle)
         \/ s = "succeeded" /\ Moves(t, "ready")
  BY <1>0, FinishDoes
<1>3. r \in DOMAIN runs /\ DOMAIN runs' = DOMAIN runs
  BY <1>2 DEF Known, Sets
<1>4. Idle.pc = "idle"
  BY DEF Idle
<1>5. /\ \A u \in Task : u # t => task'[u] = task[u]
      /\ task'[t].pc \in {"idle", "ready"}
      /\ task'[t].pc = "idle" \/ task'[t].run = r
  BY <1>2, <1>4 DEF Becomes, Moves
<1> HIDE DEF r, s
<1>6. \A q \in DOMAIN runs : runs'[q].job = runs[q].job /\ (q # r => runs'[q].status = runs[q].status)
  BY <1>2 DEF Sets, TableStep
<1>7. \A u \in Task : task'[u].pc = "send" => task[u].pc = "send" /\ task'[u].id = task[u].id
  BY <1>5
<1>8. \A u \in Task : \A k \in Jobs : AimsNext(u, k) => Aims(u, k)
  <2>1. ~dependents_ready(t)
    BY <1>2 DEF dependents_ready
  <2>2. \A k \in Jobs : AimsNext(t, k) => Aims(t, k)
    BY <2>1, AimsMove DEF MoveAct
  <2>3. \A u \in Task : u # t => \A k : AimsNext(u, k) => Aims(u, k)
    BY <1>5 DEF AimsNext, Aims
  <2> QED
    BY <2>2, <2>3
<1>9. ASSUME NEW q \in DOMAIN runs, Root(q), Fit(q) PROVE Fit(q)'
  <2>0. OnePlace(q) /\ StatusFits(q) /\ OnceIn(q)
    BY <1>9 DEF Fit, OnePlace
  <2>1. OnceIn(q)' /\ (InStream(q)' => InStream(q))
    BY <2>0, <1>1, StreamSame
  <2>2. OnePlace(q)' /\ (Held(q)' => Held(q)) /\ \A u \in Task : Holds(u, q)' => Holds(u, q)
    BY <2>0, <2>1, <1>1, <1>2, <1>5, PlaceMove DEF r
  <2>3. runs[q].job \in Succeeded' => runs'[q].status = "succeeded"
    <3>1. ASSUME runs[q].job \in Succeeded' PROVE runs'[q].status = "succeeded"
      <4>1. runs[q].job \in Jobs
        BY <3>1 DEF Succeeded
      <4>2. PICK p \in DOMAIN runs' : runs'[p].job = runs[q].job /\ runs'[p].status = "succeeded"
        BY <3>1, <4>1, SucceededMeans
      <4>3. p \in DOMAIN runs /\ runs[p].job = runs[q].job
        BY <4>2, <1>3, <1>6
      <4>4. p = q
        BY <4>3, <1>0, <1>9 DEF RootsOnce
      <4> QED
        BY <4>2, <4>4
    <3> QED
      BY <3>1
  <2>4. CASE q # r
    <3>1. runs'[q].status = runs[q].status /\ runs'[q].job = runs[q].job
      BY <2>4, <1>6
    <3>2. \A u \in Task : (Holds(u, q)' /\ task'[u].pc \in {"exec", "finish"}) => Holds(u, q) /\ task[u].pc \in {"exec", "finish"}
      BY <2>2, <1>5
    <3>3. runs[q].job \in hadSuccess' => runs'[q].status = "succeeded"
      BY <2>0, <2>3, <3>1, <1>1 DEF StatusFits
    <3>4. StatusFits(q)'
      BY <2>0, <2>2, <3>1, <3>2, <3>3, <1>1 DEF StatusFits
    <3> QED
      BY <2>2, <3>4 DEF Fit
  <2>5. CASE q = r
    <3>1. Holds(t, q)
      BY <2>5, <1>2 DEF Holds, r
    <3>2. runs[q].status \in {"running", "canceled"}
      BY <2>0, <3>1, <1>2 DEF StatusFits
    <3>3. runs[q].job \notin hadSuccess
      BY <2>0, <3>2 DEF StatusFits
    <3>4. runs'[q].job \in hadSuccess' => runs'[q].status = "succeeded"
      BY <2>3, <3>3, <1>1, <1>6
    <3>5. runs'[q].status # "queued"
      <4>1. CASE runs' = runs
        BY <4>1, <3>2
      <4>2. CASE Sets(r, s) /\ s \in Outcomes
        BY <4>2, <2>5, DependenciesAssumption DEF Sets
      <4> QED
        BY <4>1, <4>2, <1>2
    <3>6. \A u \in Task : Holds(u, q)' => task'[u].pc \notin {"exec", "finish"}
      <4>1. \A u \in Task : Holds(u, q)' => u = t
        BY <2>0, <2>2, <3>1 DEF OnePlace
      <4> QED
        BY <4>1, <1>5
    <3>7. StatusFits(q)'
      BY <3>4, <3>5, <3>6 DEF StatusFits
    <3> QED
      BY <2>2, <3>7 DEF Fit
  <2> QED
    BY <2>4, <2>5
<1> QED
  BY <1>1, <1>3, <1>7, <1>8, <1>9, RootAssemble

(* The steps of a task but finish_run. *)
LEMMA MoveFacts ==
    ASSUME BaseInv, NEW t \in Task, MoveAct(t), ~FinishRun(t)
    PROVE  /\ task[t].pc # "idle"
           /\ task'[t].pc = "idle" \/ task'[t].run = task[t].run
           /\ task'[t].pc \in {"exec", "finish"} => task[t].pc = "exec"
           /\ task'[t].pc = "send" => create_dependency_run(t)
           /\ UNCHANGED <<jobs, deps, hadSuccess, stale, outbox, request>>
           /\ runs' = runs \/ create_dependency_run(t)
           /\ stream' = stream \/ EnqueueDependent(t)
<1>0. TypeOK /\ TaskOK
  BY DEF BaseInv
<1>1. /\ UNCHANGED <<jobs, deps, hadSuccess, stale, outbox, request>>
      /\ runs' = runs \/ create_dependency_run(t)
      /\ stream' = stream \/ EnqueueDependent(t)
  BY DEF MoveAct, Execute, dependents_ready, CheckDispatched, SelectPending, create_dependency_run, EnqueueDependent
<1> DEFINE Good == /\ task[t].pc # "idle"
                   /\ task'[t].pc = "idle" \/ task'[t].run = task[t].run
                   /\ task'[t].pc \in {"exec", "finish"} => task[t].pc = "exec"
                   /\ task'[t].pc = "send" => create_dependency_run(t)
<1>2. ASSUME NEW s \in Outcomes, Execute(t, s) PROVE Good
  <2>1. Idle.pc = "idle"
    BY DEF Idle
  <2>2. task[t].pc = "exec" /\ (task'[t] = Idle \/ (task'[t].pc = "finish" /\ task'[t].run = task[t].run))
    BY <1>0, <1>2, ExecuteDoes DEF Becomes, Moves
  <2> QED
    BY <2>1, <2>2
<1>3. ASSUME NEW d \in Jobs, CheckDispatched(t, d) PROVE Good
  <2>1. task[t].pc = "loop" /\ task'[t].run = task[t].run /\ (task'[t].pc = "loop" \/ task'[t].pc = "pending")
    BY <1>0, <1>3, CheckDoes DEF Moves
  <2> QED
    BY <2>1
<1>4. ASSUME dependents_ready(t) PROVE Good
  <2>1. task[t].pc = "ready" /\ task'[t].run = task[t].run /\ task'[t].pc = "loop"
    BY <1>0, <1>4, ReadyDoes DEF Moves
  <2> QED
    BY <2>1
<1>5. ASSUME SelectPending(t) PROVE Good
  <2>1. task[t].pc = "pending" /\ task'[t].run = task[t].run /\ task'[t].pc = "write"
    BY <1>0, <1>5, SelectDoes DEF Moves
  <2> QED
    BY <2>1
<1>6. ASSUME create_dependency_run(t) PROVE Good
  <2>1. task[t].pc = "write" /\ task'[t].run = task[t].run /\ task'[t].pc = "send"
    BY <1>0, <1>6, WriteDoes DEF Moves
  <2> QED
    BY <2>1, <1>6
<1>7. ASSUME EnqueueDependent(t) PROVE Good
  <2>1. task[t].pc = "send" /\ task'[t].run = task[t].run /\ task'[t].pc = "loop"
    BY <1>0, <1>7, EnqueueDoes DEF Moves
  <2> QED
    BY <2>1
<1>8. Good
  <2> HIDE DEF Good
  <2> QED
    BY <1>2, <1>3, <1>4, <1>5, <1>6, <1>7 DEF MoveAct
<1> QED
  BY <1>1, <1>8

(* create_dependency_run makes or promotes a run of a job that has         *)
(* dependencies.                                                           *)
LEMMA RootWrite ==
    ASSUME BaseInv, RootInv, Solo, NEW t \in Task, create_dependency_run(t)
    PROVE  /\ \A q \in DOMAIN runs' \ DOMAIN runs : depends_on[runs'[q].job] # {}
           /\ \A q \in DOMAIN runs : Root(q) => runs'[q].status = runs[q].status
           /\ depends_on[runs'[task'[t].id].job] # {}
<1>0. TypeOK /\ TaskOK /\ TaskFine(t) /\ FanOutDown
  BY RootBefore DEF BaseInv, TaskOK
<1>1. /\ task[t].pc = "write" /\ task[t].dep \in Jobs
      /\ \/ task[t].id # 0 /\ Sets(task[t].id, "queued") /\ task'[t].id = task[t].id
         \/ task[t].id = 0 /\ Adds(task'[t].id, task[t].dep)
  BY <1>0, WriteDoes
<1>2. depends_on[task[t].dep] # {}
  BY <1>0, <1>1 DEF FanOutDown, Aims
<1>3. CASE task[t].id # 0 /\ Sets(task[t].id, "queued") /\ task'[t].id = task[t].id
  <2>1. task[t].id \in DOMAIN runs /\ runs[task[t].id].job = task[t].dep
    BY <1>0, <1>1, <1>3 DEF TaskFine
  <2>2. runs'[task[t].id].job = task[t].dep /\ DOMAIN runs' = DOMAIN runs
    BY <1>3, <2>1 DEF Sets, TableStep
  <2>3. \A q \in DOMAIN runs : Root(q) => q # task[t].id
    BY <1>2, <2>1 DEF Root
  <2>4. \A q \in DOMAIN runs : Root(q) => runs'[q].status = runs[q].status
    BY <1>3, <2>3 DEF Sets
  <2> QED
    BY <1>2, <1>3, <2>2, <2>4
<1>4. CASE Adds(task'[t].id, task[t].dep)
  <2>1. /\ \A q \in DOMAIN runs' \ DOMAIN runs : q = task'[t].id
        /\ runs'[task'[t].id].job = task[t].dep
        /\ \A q \in DOMAIN runs : runs'[q] = runs[q]
    BY <1>4 DEF Adds
  <2> QED
    BY <1>2, <2>1
<1> QED
  BY <1>1, <1>3, <1>4

(* The other steps of process_run and of the fan-out, which leave runs of  *)
(* jobs without dependencies alone.                                        *)
LEMMA RootMove ==
    ASSUME BaseInv, RootInv, Solo, TableStep, NEW t \in Task, MoveAct(t), ~FinishRun(t)
    PROVE  RootInv'
<1>0. TypeOK /\ TaskOK /\ FanOutDown /\ GraphShrinks /\ stream \in Seq(RunId)
  BY RootBefore DEF BaseInv, TypeOK
<1>1. /\ task[t].pc # "idle"
      /\ task'[t].pc = "idle" \/ task'[t].run = task[t].run
      /\ task'[t].pc \in {"exec", "finish"} => task[t].pc = "exec"
      /\ task'[t].pc = "send" => create_dependency_run(t)
      /\ UNCHANGED <<jobs, deps, hadSuccess, stale, outbox, request>>
      /\ runs' = runs \/ create_dependency_run(t)
      /\ stream' = stream \/ EnqueueDependent(t)
  BY MoveFacts
<1>2. \A u \in Task : u # t => task'[u] = task[u]
  BY OthersStay
<1>3. /\ \A q \in DOMAIN runs' \ DOMAIN runs : depends_on[runs'[q].job] # {}
      /\ \A q \in DOMAIN runs : Root(q) => runs'[q].status = runs[q].status
  BY <1>1, RootWrite
<1>4. \A u \in Task : task'[u].pc = "send" =>
          \/ task[u].pc = "send" /\ task'[u].id = task[u].id
          \/ depends_on[runs'[task'[u].id].job] # {}
  BY <1>1, <1>2, RootWrite
<1>5. \A u \in Task : \A k \in Jobs : AimsNext(u, k) => Aims(u, k) \/ depends_on[k] # {}
  <2>1. ASSUME NEW k \in Jobs, AimsNext(t, k) PROVE Aims(t, k) \/ depends_on[k] # {}
    <3>1. CASE k \in Ready(runs[task[t].run].job)
      BY <3>1, <1>0 DEF Ready, GraphShrinks
    <3> QED
      BY <3>1, <2>1, AimsMove
  <2>2. \A u \in Task : u # t => \A k : AimsNext(u, k) => Aims(u, k)
    BY <1>2 DEF AimsNext, Aims
  <2> QED
    BY <2>1, <2>2
<1>6. ASSUME NEW q \in DOMAIN runs, Root(q), Fit(q) PROVE Fit(q)'
  <2>0. OnePlace(q) /\ StatusFits(q) /\ OnceIn(q)
    BY <1>6 DEF Fit, OnePlace
  <2>1. OnceIn(q)' /\ (InStream(q)' => InStream(q))
    <3>1. CASE stream' = stream
      BY <2>0, <3>1, StreamSame
    <3>2. CASE EnqueueDependent(t)
      <4>1. stream' = Append(stream, task[t].id) /\ task[t].pc = "send"
        BY <3>2 DEF EnqueueDependent
      <4>2. task[t].id # q
        BY <4>1, <1>0, <1>6 DEF FanOutDown
      <4> DEFINE r == task[t].id
      <4>3. stream' = Append(stream, r) /\ r # q
        BY <4>1, <4>2
      <4> HIDE DEF r
      <4> QED
        BY <4>3, <2>0, <1>0, StreamAppend
    <3> QED
      BY <3>1, <3>2, <1>1
  <2>2. OnePlace(q)' /\ (Held(q)' => Held(q)) /\ \A u \in Task : Holds(u, q)' => Holds(u, q)
    BY <2>0, <2>1, <1>1, <1>2, PlaceMove
  <2>3. \A u \in Task : (Holds(u, q)' /\ task'[u].pc \in {"exec", "finish"}) =>
            Holds(u, q) /\ task[u].pc \in {"exec", "finish"}
    BY <2>2, <1>1, <1>2
  <2>4. runs'[q].status = runs[q].status /\ runs'[q].job = runs[q].job
    BY <1>3, <1>6 DEF TableStep
  <2>5. StatusFits(q)'
    BY <2>0, <2>2, <2>3, <2>4, <1>1, FitsKept
  <2> QED
    BY <2>2, <2>5 DEF Fit
<1> QED
  BY <1>1, <1>3, <1>4, <1>5, <1>6, RootAssemble

(* The invariant is inductive, given the base. *)
LEMMA RootInductive == BaseInv /\ OnceInv /\ RootInv /\ [Next]_vars => RootInv'
<1> SUFFICES ASSUME BaseInv, OnceInv, RootInv, [Next]_vars, Solo' PROVE RootInv'
  BY DEF RootInv
<1>0. Solo /\ TableStep /\ ~ScheduleAct
  BY SoloKept, SoloEnds
<1>1. CASE UNCHANGED vars
  <2>1. UNCHANGED <<stream, stale, outbox, task, runs>> /\ UNCHANGED <<jobs, deps, hadSuccess>>
    BY <1>1 DEF vars
  <2>2. \A q \in DOMAIN runs : (Root(q) /\ Fit(q)) => Fit(q)'
    BY <2>1, FitSame
  <2>3. \A t \in Task : \A k \in Jobs : AimsNext(t, k) => Aims(t, k)
    BY <2>1 DEF AimsNext, Aims
  <2> QED
    BY <2>1, <2>2, <2>3, <1>0, RootAssemble
<1> QED
  BY <1>0, <1>1, Steps, RootWalk, RootCommit, RootGraph, RootRun, RootStart, RootFinish, RootMove, RootEnd

(* The invariant holds at first. *)
LEMMA RootInit == Init => RootInv
<1> SUFFICES ASSUME Init PROVE RootInv
  OBVIOUS
<1>0. DOMAIN <<>> = {}
  BY SMTT(60)
<1>1. DOMAIN runs = {} /\ deps = depends_on /\ hadSuccess = {}
  BY <1>0 DEF Init
<1>2. \A t \in Task : task[t].pc = "idle" /\ task[t].todo = {}
  <2>1. Idle.pc = "idle" /\ Idle.todo = {}
    BY DEF Idle
  <2> QED
    BY <2>1 DEF Init
<1>3. FanOutDown
  BY <1>2 DEF FanOutDown, Aims
<1> QED
  BY <1>1, <1>3 DEF RootInv, GraphShrinks, NoneYet, RootsOnce, RootsFit

(* Only create_dependency_run promotes a pending run. *)
LEMMA Promotion ==
    ASSUME BaseInv, [Next]_vars, NEW r \in DOMAIN runs, runs[r].status = "pending", runs'[r].status = "queued"
    PROVE  \E t \in Task : Aims(t, runs[r].job)
<1>0. TypeOK /\ TaskOK
  BY DEF BaseInv
<1>1. runs' # runs
  OBVIOUS
<1>2. ASSUME NEW q, NEW s, s # "queued" PROVE ~Sets(q, s)
  BY <1>2 DEF Sets
<1>3. ASSUME NEW a \in Request PROVE ~WalkAct(a) /\ ~CommitTrigger(a)
  BY <1>0, <1>1, CommitDoes DEF WalkAct, VisitDependency, LeaveJob, trigger_job
<1>4. ~GraphAct /\ ~ScheduleAct /\ ~UNCHANGED vars
  <2>1. ASSUME NEW j \in Jobs PROVE ~schedule_due_jobs(j)
    BY <1>0, ScheduleDoes DEF Adds
  <2> QED
    BY <1>1, <2>1 DEF GraphAct, update_job, delete_job, ScheduleAct, vars
<1>5. ASSUME NEW q \in DOMAIN runs, RunAct(q) PROVE FALSE
  <2>1. ~cancel(q)
    BY <1>0, <1>2, CancelDoes
  <2>2. ~retry_run(q)
    BY <1>0, RetryDoes DEF Adds
  <2> QED
    BY <2>1, <2>2, <1>1, <1>5 DEF RunAct, requeue_orphans, enqueue_run
<1>6. ASSUME NEW t \in Task, StartAct(t) PROVE FALSE
  <2>1. PICK q : Delivers(t, q)
    BY <1>6, DeliveryDoes DEF StartAct
  <2> QED
    BY <2>1, <1>1, <1>2 DEF Delivers
<1>7. ASSUME NEW t \in Task PROVE ~EndAct(t)
  BY <1>1 DEF EndAct, FanOutFails, FanOutDone, Interrupt, Crash
<1>8. ASSUME NEW t \in Task, MoveAct(t) PROVE Aims(t, runs[r].job)
  <2>1. ~FinishRun(t)
    <3>1. "queued" \notin Outcomes
      BY DependenciesAssumption
    <3> QED
      BY <3>1, <1>0, <1>1, <1>2, FinishDoes
  <2>2. create_dependency_run(t)
    BY <2>1, <1>1, <1>8, MoveFacts
  <2>3. /\ task[t].pc = "write"
        /\ \/ task[t].id # 0 /\ Sets(task[t].id, "queued")
           \/ task[t].id = 0 /\ Adds(task'[t].id, task[t].dep)
    BY <2>2, <1>0, WriteDoes
  <2>4. task[t].id # 0 /\ r = task[t].id
    BY <2>3 DEF Sets, Adds
  <2> QED
    BY <2>3, <2>4, <1>0 DEF TaskOK, TaskFine, Aims
<1> QED
  BY <1>3, <1>4, <1>5, <1>6, <1>7, <1>8, Steps

(* Until a second trigger, a scheduled run, a retry or a change of the     *)
(* graph, a pending run is promoted only when no dependency of its job     *)
(* that has none itself has a run that is pending, queued or running.      *)
THEOREM UpstreamIsFirst == Spec => UpstreamFirst
<1>1. ASSUME BaseInv, AfterInv, RootInv, [Next]_vars, Solo, NEW r \in DOMAIN runs,
             Status(r) = "pending", runs'[r].status = "queued",
             NEW d \in deps[runs[r].job], depends_on[d] = {}
      PROVE  RunsOf(d, ACTIVE) = {}
  <2>1. RootsFit /\ AimsWait
    BY <1>1, RootBefore DEF AfterInv, Solo, NoneOf
  <2>2. PICK t \in Task : Aims(t, runs[r].job)
    BY <1>1, Promotion DEF Status
  <2>3. runs[r].job \in Jobs
    BY <1>1, Rows DEF BaseInv, TypeOK
  <2>4. d \in hadSuccess
    BY <1>1, <2>1, <2>2, <2>3 DEF AimsWait
  <2>5. ASSUME NEW q \in DOMAIN runs, runs[q].job = d PROVE runs[q].status = "succeeded"
    BY <1>1, <2>1, <2>4, <2>5 DEF RootsFit, Root, StatusFits
  <2> QED
    BY <2>5 DEF RunsOf, Status, ACTIVE
<1> DEFINE Here == Solo => \A r \in DOMAIN runs : (Status(r) = "pending" /\ runs'[r].status = "queued") =>
                       \A d \in deps[runs[r].job] : depends_on[d] = {} => RunsOf(d, ACTIVE) = {}
<1>2. BaseInv /\ AfterInv /\ RootInv /\ [Next]_vars => [Here]_vars
  BY <1>1
<1>3. Spec => [][Here]_vars
  <2> HIDE DEF Here
  <2> QED
    BY <1>2, BaseInit, BaseInductive, AfterInit, AfterInductive, OnceInit, OnceInductive, RootInit, RootInductive, PTL DEF Spec
<1> QED
  BY <1>3 DEF UpstreamFirst, Solo
=============================================================================
