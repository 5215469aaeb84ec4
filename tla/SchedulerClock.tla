--------------------------- MODULE SchedulerClock ---------------------------
(***************************************************************************)
(* tick() of backend/scheduler/main.py in time, for one leader, one cron   *)
(* or interval job and the retries of its runs: the promotion of delayed   *)
(* runs, the catch-up loop of due_tick (backend/scheduler/cron.py) one     *)
(* next_run_time at a time, the requeue of orphans, and the backoff of     *)
(* backend/worker/executors/retry.py.                                      *)
(*                                                                         *)
(* The leader polls at any time, as often or as rarely as it likes, and    *)
(* time passes between its steps.  Its transaction ends with one step here *)
(* (commit and XADDs): what may happen in between is in Scheduler, what    *)
(* may happen to a message and to its run is in Dispatch.  A run is named  *)
(* by the tick its first attempt was scheduled for and its attempt number, *)
(* and is forgotten when it has ended: nothing here looks at it again.     *)
(***************************************************************************)
EXTENDS Cron, Functions, FiniteSetsExt

CONSTANTS
    Periods,            \* periods of cron expressions and intervals
    Created,            \* times at which the job may have been created
    Backoff,            \* values of Job.retry_backoff_sec
    BackoffMax,         \* settings.retry_backoff_max_sec
    MaxRetries,         \* Job.max_retries
    OrphanAfter,        \* settings.orphan_requeue_after_sec
    MaxClock,           \* bound: time at which the clock stops
    MaxFailures,        \* bound: runs that fail
    MaxUpdates          \* bound: update_job calls

ASSUME SchedulerClockAssumption ==
    /\ Periods \subseteq Nat \ {0}
    /\ Created \subseteq 0..MaxClock
    /\ Backoff \subseteq Nat
    /\ {BackoffMax, MaxRetries, OrphanAfter, MaxFailures, MaxUpdates} \subseteq Nat
    /\ MaxClock \in Time

VARIABLES
    schedule, enabled,      \* schedule_type and schedule_expr, enabled of the job
    created_at,             \* Job.created_at
    retry_backoff_sec,      \* Job.retry_backoff_sec
    last_scheduled_for,     \* Job.last_scheduled_for
    runs,                   \* the rows of the job's queued and running runs
    delayed,                \* the sorted set: runs with their ready_at_epoch
    stream,                 \* the runs with a message to be read
    clock,
    pc, now,                \* where the leader is in tick(), and its now
    selected,               \* the schedules of the jobs it has read
    tick,                   \* due_tick's variable, then its result
    failures, updates       \* how many there were

jobVars == <<schedule, enabled, created_at, retry_backoff_sec, updates>>
runVars == <<last_scheduled_for, runs, failures>>
queueVars == <<delayed, stream>>
tickVars == <<pc, now, selected, tick>>
vars == <<jobVars, runVars, queueVars, clock, tickVars>>

Schedules == [type : {"cron", "interval"}, seconds : Periods]
RunKey == Time \X (1..(MaxRetries + 1))
RunRow == [created_at : Time, ready_at : Nat, status : {"queued", "running"}]

TypeOK ==
    /\ schedule \in Schedules /\ selected \subseteq Schedules
    /\ enabled \in BOOLEAN
    /\ created_at \in Created /\ retry_backoff_sec \in Backoff
    /\ last_scheduled_for \in Time \union {NoTick}
    /\ DOMAIN runs \subseteq RunKey /\ Range(runs) \subseteq RunRow
    /\ delayed \subseteq RunKey \X Nat
    /\ stream \subseteq RunKey
    /\ clock \in 0..MaxClock /\ now \in 0..clock
    /\ pc \in {"idle", "start", "loop", "write"}
    /\ tick \in Time \union {NoTick, Raises}
    /\ failures \in 0..MaxFailures /\ updates \in 0..MaxUpdates

Init ==
    /\ schedule \in Schedules /\ selected = {}
    /\ enabled = TRUE
    /\ created_at \in Created /\ retry_backoff_sec \in Backoff
    /\ last_scheduled_for = NoTick
    /\ runs = [k \in {} |-> {}] /\ delayed = {} /\ stream = {}
    /\ clock = created_at /\ now = 0
    /\ pc = "idle" /\ tick = NoTick
    /\ failures = 0 /\ updates = 0

-----------------------------------------------------------------------------
(* tick()                                                                  *)

base == IF last_scheduled_for = NoTick THEN created_at ELSE last_scheduled_for

Due(t) == {d \in delayed : d[2] <= t}

(* Mutant of StartTick: ZREM without the XADD. *)
StartTick_drops ==
    /\ pc = "idle"
    /\ now' = clock
    /\ delayed' = delayed \ Due(clock)
    /\ pc' = "start"
    /\ UNCHANGED <<jobVars, runVars, stream, clock, selected, tick>>

(* now is taken, and promote_due_delayed moves what is due. *)
StartTick ==
    /\ pc = "idle"
    /\ now' = clock
    /\ delayed' = delayed \ Due(clock)
    /\ stream' = stream \union {d[1] : d \in Due(clock)}
    /\ pc' = "start"
    /\ UNCHANGED <<jobVars, runVars, clock, selected, tick>>

Return(result) == tick' = result /\ pc' = "write"

Continue(nxt) == tick' = nxt /\ pc' = "loop"

(* The SELECT of the jobs, and the first call of next_run_time; a job that *)
(* is not enabled is not selected.                                         *)
First ==
    LET nxt == next_run_time(schedule, base)
    IN /\ pc = "start"
       /\ \/ ~enabled /\ Return(NoTick)
          \/ enabled /\ nxt = Raises /\ Return(Raises)
          \/ enabled /\ nxt # Raises /\ nxt > now /\ Return(NoTick)
          \/ enabled /\ nxt # Raises /\ nxt <= now /\ Continue(nxt)
       /\ selected' = IF enabled THEN {schedule} ELSE {}
       /\ UNCHANGED <<jobVars, runVars, queueVars, clock, now>>

(* Mutant of Loop: the first due tick is returned. *)
Loop_first_only ==
    /\ pc = "loop"
    /\ Return(tick)
    /\ UNCHANGED <<jobVars, runVars, queueVars, clock, now, selected>>

(* One round of the loop of due_tick. *)
Loop ==
    \E s \in selected : LET nxt == next_run_time(s, tick) IN
       /\ pc = "loop"
       /\ \/ nxt = Raises /\ Return(Raises)
          \/ nxt # Raises /\ nxt > now /\ Return(tick)
          \/ nxt # Raises /\ nxt <= now /\ Continue(nxt)
       /\ UNCHANGED <<jobVars, runVars, queueVars, clock, now, selected>>

(* A new row, ready to be executed at ready. *)
Row(ready) == [created_at |-> clock, ready_at |-> ready, status |-> "queued"]

Insert(rows, k, row) == [x \in DOMAIN rows \union {k} |-> IF x = k THEN row ELSE rows[x]]

(* Mutant of Orphans: the cutoff is inclusive. *)
Orphans_inclusive ==
    {k \in DOMAIN runs : runs[k].status = "queued" /\ runs[k].created_at + OrphanAfter <= now}

(* requeue_orphans: the cutoff is exclusive. *)
Orphans ==
    {k \in DOMAIN runs : runs[k].status = "queued" /\ runs[k].created_at + OrphanAfter < now}

EndTick == pc' = "idle" /\ now' = 0 /\ selected' = {} /\ tick' = NoTick

(* The commit of tick(), which sets last_scheduled_for to last, and its    *)
(* messages.                                                               *)
Commit(last) ==
    /\ \/ /\ tick = NoTick
          /\ stream' = stream \union Orphans
          /\ UNCHANGED <<runs, last_scheduled_for>>
       \/ /\ tick # NoTick
          /\ runs' = Insert(runs, <<tick, 1>>, Row(clock))
          /\ last_scheduled_for' = last
          /\ stream' = stream \union Orphans \union {<<tick, 1>>}
    /\ EndTick
    /\ UNCHANGED <<jobVars, failures, delayed, clock>>

(* Mutant of WriteRuns: the next tick counts from the time of this one. *)
WriteRuns_last_is_now == pc = "write" /\ tick # Raises /\ Commit(now)

(* The run of the tick, the orphans, the commit and the messages. *)
WriteRuns == pc = "write" /\ tick # Raises /\ Commit(tick)

(* due_tick raised: the transaction is rolled back; no run, no orphans. *)
TickRaises ==
    /\ pc = "write" /\ tick = Raises
    /\ EndTick
    /\ UNCHANGED <<jobVars, runVars, queueVars, clock>>

-----------------------------------------------------------------------------
(* The workers.                                                            *)

(* 2 ** n *)
PowerOfTwo[n \in 0..MaxRetries] == IF n = 0 THEN 1 ELSE 2 * PowerOfTwo[n - 1]

(* Mutant of backoff_seconds: no cap. *)
backoff_seconds_uncapped(attempt, base_sec) == base_sec * PowerOfTwo[attempt - 1]

backoff_seconds(attempt, base_sec) ==
    IF base_sec = 0 THEN 0 ELSE Min({base_sec * PowerOfTwo[attempt - 1], BackoffMax})

(* A message is read; claim_run takes the run if it is still queued. *)
Claim(k) ==
    /\ k \in stream
    /\ stream' = stream \ {k}
    /\ runs' = [x \in DOMAIN runs |-> IF x = k THEN [runs[x] EXCEPT !.status = "running"] ELSE runs[x]]
    /\ UNCHANGED <<jobVars, last_scheduled_for, failures, delayed, clock, tickVars>>

Without(k) == Restrict(runs, DOMAIN runs \ {k})

Succeed(k) ==
    /\ runs[k].status = "running"
    /\ runs' = Without(k)
    /\ UNCHANGED <<jobVars, last_scheduled_for, failures, queueVars, clock, tickVars>>

(* _on_failure: a retry is a queued row and a member of the delayed set. *)
Fail(k) ==
    /\ runs[k].status = "running"
    /\ failures < MaxFailures
    /\ failures' = failures + 1
    /\ LET retry == <<k[1], k[2] + 1>>
           ready == clock + backoff_seconds(k[2], retry_backoff_sec)
       IN IF k[2] <= MaxRetries
          THEN /\ runs' = Insert(Without(k), retry, Row(ready))
               /\ delayed' = delayed \union {<<retry, ready>>}
          ELSE /\ runs' = Without(k)
               /\ UNCHANGED delayed
    /\ UNCHANGED <<jobVars, last_scheduled_for, stream, clock, tickVars>>

(* A user changes the schedule, or disables or enables the job. *)
update_job ==
    /\ updates < MaxUpdates
    /\ updates' = updates + 1
    /\ schedule' \in Schedules /\ enabled' \in BOOLEAN
    /\ UNCHANGED <<created_at, retry_backoff_sec, runVars, queueVars, clock, tickVars>>

ClockTick ==
    /\ clock < MaxClock
    /\ clock' = clock + 1
    /\ UNCHANGED <<jobVars, runVars, queueVars, tickVars>>

-----------------------------------------------------------------------------
LeaderStep == StartTick \/ First \/ Loop \/ WriteRuns \/ TickRaises

Next ==
    \/ LeaderStep
    \/ \E k \in stream : Claim(k)
    \/ \E k \in DOMAIN runs : Succeed(k) \/ Fail(k)
    \/ update_job
    \/ ClockTick

(* Some replica leads and polls, the workers read their messages, time     *)
(* passes.  Nothing is assumed of how runs end or of users.                *)
Fairness ==
    /\ WF_vars(LeaderStep)
    /\ WF_vars(\E k \in stream : Claim(k))
    /\ WF_vars(ClockTick)

Spec == Init /\ [][Next]_vars /\ Fairness

-----------------------------------------------------------------------------
(* Properties.                                                             *)

(* due_tick: "Missed ticks are collapsed to the latest due one".  After    *)
(* any series of polls, late or early, and of changes of the schedule, the *)
(* loop ends with the latest fire time after the last one, none if none is *)
(* due, and none in the future.  It raises exactly if the fire time after  *)
(* that one is past the end of datetime, due or not.  And it computes the  *)
(* operator that module Scheduler uses in its place.                       *)
CatchUpIsLatest ==
    pc = "write" => \A s \in selected :
        /\ tick # Raises => IsLatestDue(s, base, now, tick)
        /\ tick = Raises <=>
              next_run_time(s, Max(FireTimes(s, base, now) \union {base})) = Raises
        /\ tick = due_tick(s, base, now)

(* An interval does not drift with the polls: last_scheduled_for is a tick *)
(* counted from the creation of the job, as long as nobody changes it.     *)
TicksDoNotDrift ==
    updates = 0 /\ last_scheduled_for # NoTick =>
        last_scheduled_for \in FireTimes(schedule, created_at, clock)

(* _on_failure schedules a retry "in delay s".  It starts no earlier than  *)
(* that, unless requeue_orphans, which does not know of the delayed set,   *)
(* finds its row old enough first: no earlier than the sooner of the two.  *)
RetryNotEarly ==
    [][\A k \in DOMAIN runs \intersect DOMAIN runs' :
         runs[k].status = "queued" /\ runs'[k].status = "running" =>
            clock >= Min({runs[k].ready_at, runs[k].created_at + OrphanAfter + 1})]_vars

(* retry.py: "Exponential backoff based on the attempt that just failed".  *)
(* The delays of a chain of retries start with the job's and double until  *)
(* the cap.                                                                *)
BackoffDoubles ==
    [][\A k \in DOMAIN runs : <<k[1], k[2] + 1>> \in DOMAIN runs' =>
         LET delay(row) == row.ready_at - row.created_at
         IN delay(runs'[<<k[1], k[2] + 1>>]) =
              Min({BackoffMax, IF k[2] = 1 THEN retry_backoff_sec ELSE 2 * delay(runs[k])})]_vars

(* tick() ends: next_run_time moves strictly forward. *)
TickEnds == pc = "loop" ~> pc = "idle"

(* A retry is executed once its backoff is over, also while the schedule   *)
(* of the job raises and no orphan is looked for: promotion comes first.   *)
EveryRetryStarts ==
    <>[](\A k \in DOMAIN runs : runs[k].status = "queued" => runs[k].ready_at > MaxClock)
=============================================================================
