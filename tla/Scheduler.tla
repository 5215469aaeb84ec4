----------------------------- MODULE Scheduler -----------------------------
(***************************************************************************)
(* tick() of backend/scheduler/main.py under the leader election of        *)
(* Leader: each replica that believes it leads reads the jobs, creates the *)
(* runs that are due, commits, and then enqueues them.                     *)
(*                                                                         *)
(* A replica's transaction is read (one SELECT of the jobs) and write (its *)
(* INSERTs and UPDATEs at commit).  The unique constraint and the row      *)
(* locks make a second writer of the same tick or job wait for the first   *)
(* one's commit, so transactions write as if one after the other; a        *)
(* deadlock or an error aborts one, which is TickFails.                    *)
(*                                                                         *)
(* The runs of this module are those with a scheduled_for, so a run is     *)
(* named by its job and tick.  All replicas read one clock.  The promotion *)
(* of delayed runs at the start of tick() is in Dispatch and in            *)
(* SchedulerClock, and so are schedules that due_tick raises on.           *)
(***************************************************************************)
EXTENDS Leader, Cron

CONSTANTS
    Jobs,           \* the enabled cron and interval jobs
    schedule,       \* schedule_type and schedule_expr of each
    created_at,     \* Job.created_at of each
    OrphanAfter,    \* settings.orphan_requeue_after_sec
    MaxClock        \* bound: time at which the clock stops

ASSUME SchedulerAssumption ==
    /\ schedule \in [Jobs -> Schedule]
    /\ created_at \in [Jobs -> Time]
    /\ OrphanAfter \in Nat
    /\ MaxClock \in Time
    /\ \A j \in Jobs : \A t \in (0..MaxClock) \union {created_at[j]} :
          next_run_time(schedule[j], t) # Raises

VARIABLES
    clock,
    last_scheduled_for,     \* Job.last_scheduled_for
    status,                 \* status of the run of a job and tick
    run_created,            \* and its created_at
    stream,                 \* the runs that were XADDed
    phase,                  \* where a replica is in tick()
    now,                    \* tick()'s now
    due,                    \* what due_tick returned for each job
    outbox                  \* the runs still to be enqueued by a replica

tableVars == <<last_scheduled_for, status, run_created>>
localVars == <<phase, now, due, outbox>>
schedVars == <<clock, tableVars, stream, localVars>>
vars == <<electionVars, schedVars>>

RunKey == Jobs \X Time
Rows == {k \in RunKey : status[k] # "none"}

TypeOK ==
    /\ ElectionTypeOK
    /\ clock \in 0..MaxClock
    /\ last_scheduled_for \in [Jobs -> Time \union {NoTick}]
    /\ status \in [RunKey -> {"none", "queued", "claimed"}]
    /\ run_created \in [RunKey -> Time]
    /\ stream \in SUBSET RunKey
    /\ phase \in [Replica -> {"idle", "read", "write", "send"}]
    /\ now \in [Replica -> Time]
    /\ due \in [Replica -> [Jobs -> Time \union {NoTick}]]
    /\ outbox \in [Replica -> SUBSET RunKey]

NothingDue == [j \in Jobs |-> NoTick]

Init ==
    /\ ElectionInit
    /\ clock = 0
    /\ last_scheduled_for = NothingDue
    /\ status = [k \in RunKey |-> "none"]
    /\ run_created = [k \in RunKey |-> 0]
    /\ stream = {}
    /\ phase = [p \in Replica |-> "idle"]
    /\ now = [p \in Replica |-> 0]
    /\ due = [p \in Replica |-> NothingDue]
    /\ outbox = [p \in Replica |-> {}]

-----------------------------------------------------------------------------
(* tick()                                                                  *)

(* The locals of tick() are gone when it ends (and are forgotten here once *)
(* they are no longer used).                                               *)
Forget(p) ==
    /\ phase' = [phase EXCEPT ![p] = "idle"]
    /\ now' = [now EXCEPT ![p] = 0]
    /\ due' = [due EXCEPT ![p] = NothingDue]
    /\ outbox' = [outbox EXCEPT ![p] = {}]

(* acquire() returns True and tick() takes the time. *)
StartTick(p) ==
    /\ Confirm(p) \/ TryLock(p)
    /\ ticking'[p]
    /\ phase' = [phase EXCEPT ![p] = "read"]
    /\ now' = [now EXCEPT ![p] = clock]
    /\ UNCHANGED <<clock, tableVars, stream, due, outbox>>

(* acquire() returns False. *)
NotLeader(p) ==
    /\ CheckFails(p) \/ TryLock(p)
    /\ ~ticking'[p]
    /\ UNCHANGED schedVars

DueTick(p, j) ==
    LET base == IF last_scheduled_for[j] = NoTick THEN created_at[j] ELSE last_scheduled_for[j]
    IN due_tick(schedule[j], base, now[p])

(* schedule_due_jobs: the SELECT, and due_tick for each job. *)
ReadJobs(p) ==
    /\ phase[p] = "read"
    /\ due' = [due EXCEPT ![p] = [j \in Jobs |-> DueTick(p, j)]]
    /\ phase' = [phase EXCEPT ![p] = "write"]
    /\ UNCHANGED <<electionVars, clock, tableVars, stream, now, outbox>>

(* Mutant of Orphans: the safety net is missing. *)
Orphans_none(p) == {}

(* requeue_orphans: queued runs that are old enough. *)
Orphans(p) == {k \in Rows : status[k] = "queued" /\ run_created[k] + OrphanAfter < now[p]}

(* What the commit of replica p does with the runs new, when it sets       *)
(* last_scheduled_for to last[j].                                          *)
Commit(p, new, last) ==
    /\ phase[p] = "write"
    /\ status' = [k \in RunKey |-> IF k \in new THEN "queued" ELSE status[k]]
    /\ run_created' = [k \in RunKey |-> IF k \in new THEN clock ELSE run_created[k]]
    /\ last_scheduled_for' = [j \in Jobs |-> IF due[p][j] = NoTick
                                             THEN last_scheduled_for[j] ELSE last[j]]
    /\ outbox' = [outbox EXCEPT ![p] = new \union Orphans(p)]
    /\ due' = [due EXCEPT ![p] = NothingDue]
    /\ now' = [now EXCEPT ![p] = 0]
    /\ phase' = [phase EXCEPT ![p] = "send"]
    /\ UNCHANGED <<electionVars, clock, stream>>

DueRuns(p) == {<<j, due[p][j]>> : j \in {i \in Jobs : due[p][i] # NoTick}}

(* Mutant of WriteRuns: no unique constraint on job and tick. *)
WriteRuns_no_constraint(p) == Commit(p, DueRuns(p), due[p])

(* Mutant of WriteRuns: last_scheduled_for is set to the tick to come. *)
WriteRuns_last_is_next(p) ==
    Commit(p, DueRuns(p) \ Rows, [j \in Jobs |-> next_run_time(schedule[j], clock)])

(* schedule_due_jobs, requeue_orphans and the commit.  A tick that has a   *)
(* run already (IntegrityError) only moves last_scheduled_for.             *)
WriteRuns(p) == Commit(p, DueRuns(p) \ Rows, due[p])

(* enqueue_run for one run of the two loops. *)
Enqueue(p, k) ==
    /\ phase[p] = "send"
    /\ k \in outbox[p]
    /\ stream' = stream \union {k}
    /\ outbox' = [outbox EXCEPT ![p] = @ \ {k}]
    /\ UNCHANGED <<electionVars, clock, tableVars, phase, now, due>>

TickDone(p) ==
    /\ phase[p] = "send" /\ outbox[p] = {}
    /\ EndTick(p)
    /\ Forget(p)
    /\ UNCHANGED <<clock, tableVars, stream>>

(* The transaction is rolled back, or what is in the outbox is not sent. *)
TickFails(p) ==
    /\ TickRaises(p)
    /\ Forget(p)
    /\ UNCHANGED <<clock, tableVars, stream>>

-----------------------------------------------------------------------------
(* The surroundings.                                                       *)

ReplicaEnds(p) ==
    /\ release(p) \/ Crash(p)
    /\ Forget(p)
    /\ UNCHANGED <<clock, tableVars, stream>>

SessionEnds(s) ==
    /\ SessionLost(s) \/ ServerDrops(s)
    /\ UNCHANGED schedVars

(* A worker claims the run of a message. *)
ClaimRun(k) ==
    /\ k \in stream
    /\ status[k] = "queued"
    /\ status' = [status EXCEPT ![k] = "claimed"]
    /\ UNCHANGED <<electionVars, clock, last_scheduled_for, run_created, stream, localVars>>

ClockTick ==
    /\ clock < MaxClock
    /\ clock' = clock + 1
    /\ UNCHANGED <<electionVars, tableVars, stream, localVars>>

-----------------------------------------------------------------------------
TickStep(p) ==
    \/ StartTick(p)
    \/ NotLeader(p)
    \/ ReadJobs(p)
    \/ WriteRuns(p)
    \/ \E k \in RunKey : Enqueue(p, k)
    \/ TickDone(p)

Next ==
    \/ \E p \in Replica : TickStep(p) \/ TickFails(p) \/ ReplicaEnds(p)
    \/ \E s \in Session : SessionEnds(s)
    \/ \E k \in RunKey : ClaimRun(k)
    \/ ClockTick

Spec == Init /\ [][Next]_vars

(* The loop of main() polls for ever, tick() ends because every call in it *)
(* returns or raises, TCP keepalive ends abandoned sessions, time passes.  *)
Fairness ==
    /\ \A p \in Replica : WF_vars(TickStep(p))
    /\ WF_vars(\E s \in Session : ServerDrops(s) /\ SessionEnds(s))
    /\ WF_vars(ClockTick)

FairSpec == Spec /\ Fairness

-----------------------------------------------------------------------------
(* Properties.                                                             *)

(* Bookkeeping matches the runs: last_scheduled_for always names a tick    *)
(* that has a run, also when two leaders write it.                         *)
LastHasRun ==
    \A j \in Jobs : last_scheduled_for[j] # NoTick => <<j, last_scheduled_for[j]>> \in Rows

(* models.py: "a single scheduled tick cannot be enqueued twice".  The run *)
(* of a tick is created once: its row never goes away, and once claimed it *)
(* never is queued again, also when two leaders schedule the same tick.    *)
TickRunsOnce ==
    [][\A k \in Rows : status'[k] = status[k] \/ status'[k] = "claimed"]_vars

(* While no session was lost, the ticks of a job are scheduled in order,   *)
(* and last_scheduled_for only moves forward.                              *)
TicksInOrder ==
    [][losses = 0 =>
        /\ \A k \in RunKey : (k \notin Rows /\ status'[k] # "none") =>
             \A l \in Rows : l[1] = k[1] => l[2] < k[2]
        /\ \A j \in Jobs : last_scheduled_for[j] # NoTick =>
             last_scheduled_for'[j] >= last_scheduled_for[j]]_vars

(* schedule_due_jobs: "Create runs for every cron/interval job whose next  *)
(* tick is due", and requeue_orphans, the "safety net for a lost enqueue": *)
(* in the end the latest tick of every job has its run, and every run its  *)
(* message if it is older than the orphan threshold, also if leaders stop, *)
(* lose their session or fail between the commit and the XADD.             *)
EveryDueJobRuns ==
    <>[](/\ \A j \in Jobs :
              LET ticks == FireTimes(schedule[j], created_at[j], MaxClock)
              IN \A t \in ticks : (\A u \in ticks : u <= t) => <<j, t>> \in Rows
         /\ \A k \in Rows : run_created[k] + OrphanAfter < MaxClock => k \in stream)
=============================================================================
