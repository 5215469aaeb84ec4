---------------------------- MODULE ClockProofs -----------------------------
(***************************************************************************)
(* One job under the clock: what tick() catches up with, when retries      *)
(* start and how their delays grow, for every schedule, every bound and    *)
(* every choice of settings.                                               *)
(*                                                                         *)
(* TickInv says where tick() is in due_tick, and that what is left of the  *)
(* loop computes due_tick's result. RetryInv relates the rows to their     *)
(* messages: a message is never of an attempt to come, and a queued run    *)
(* has one only when it is ready or old.                                   *)
(***************************************************************************)
EXTENDS SchedulerClock, CronProofs

USE ZenonT(60)

(* The smaller of two numbers. *)
LEMMA MinOfTwo ==
    ASSUME NEW a \in Int, NEW b \in Int
    PROVE  Min({a, b}) = IF a <= b THEN a ELSE b
<1> DEFINE P(x) == x \in {a, b} /\ \A y \in {a, b} : x =< y
<1>1. Min({a, b}) = CHOOSE x : P(x)
  BY ZenonT(60) DEF Min
<1>2. P(IF a <= b THEN a ELSE b)
  BY SMTT(60)
<1>3. P(Min({a, b}))
  <2> HIDE DEF P
  <2> QED BY <1>1, <1>2
<1> QED BY <1>3, SMTT(60)

(* The largest of a set. *)
LEMMA MaxIs ==
    ASSUME NEW S \in SUBSET Int, NEW x \in S, \A y \in S : y <= x
    PROVE  Max(S) = x
<1> DEFINE P(z) == z \in S /\ \A y \in S : z >= y
<1>1. Max(S) = CHOOSE z : P(z)
  BY ZenonT(60) DEF Max
<1>2. P(x)
  OBVIOUS
<1>3. P(Max(S))
  <2> HIDE DEF P
  <2> QED BY <1>1, <1>2
<1>4. PICK m \in S : m = Max(S) /\ m >= x
  BY <1>3
<1>5. m <= x /\ m \in Int /\ x \in Int
  OBVIOUS
<1> QED BY <1>4, <1>5, SMTT(60)

-----------------------------------------------------------------------------
(* The invariant.                                                          *)

(* One job is looked at, as it was read. *)
Selection ==
    /\ \A s, u \in selected : s = u
    /\ updates = 0 => selected \subseteq {schedule}

(* The loop of due_tick is at a due tick, and what is left of it computes  *)
(* the result.                                                             *)
LoopAtDueTick ==
    pc = "loop" =>
        /\ selected # {}
        /\ \A s \in selected : /\ tick \in FireTimes(s, base, now)
                               /\ due_tick(s, base, now) = CatchUp(s, now)[tick]

(* Without a job there is no tick. *)
NothingSelected == pc = "write" /\ selected = {} => tick = NoTick

(* A tick has one attempt at a time.  *)
OneAttempt == \A k, l \in DOMAIN runs : k[1] = l[1] => k = l

(* The runs with a message, sent or delayed. *)
Pending == stream \union {d[1] : d \in delayed}

(* Messages that outlive their run are of earlier attempts. *)
NoneAhead == \A k \in Pending : \A l \in DOMAIN runs : k[1] = l[1] => k[2] <= l[2]

(* Every run is of a tick that was scheduled. *)
Scheduled ==
    \A k \in Pending \union DOMAIN runs :
        last_scheduled_for # NoTick /\ k[1] <= last_scheduled_for

(* schedule_delayed uses the time that the row is ready. *)
DelayedUntilReady ==
    \A d \in delayed : d[1] \in DOMAIN runs => d[2] = runs[d[1]].ready_at

(* When requeue_orphans or the promotion may send a run. *)
Earliest(row) == Min({row.ready_at, row.created_at + OrphanAfter + 1})

(* A queued run has a message only when it is ready, or old. *)
SentWhenReady ==
    \A k \in stream \intersect DOMAIN runs :
        runs[k].status = "queued" => clock >= Earliest(runs[k])

(* A row of a retry is ready after the backoff of the attempt before. *)
Delays ==
    \A k \in DOMAIN runs :
        runs[k].ready_at = runs[k].created_at +
            (IF k[2] = 1 THEN 0 ELSE backoff_seconds(k[2] - 1, retry_backoff_sec))

(* The invariant of tick(). *)
TickInv ==
    /\ TypeOK
    /\ Selection
    /\ LoopAtDueTick
    /\ NothingSelected
    /\ CatchUpIsLatest
    /\ TicksDoNotDrift

(* The invariant of the runs and their messages. *)
RetryInv ==
    /\ OneAttempt
    /\ NoneAhead
    /\ Scheduled
    /\ DelayedUntilReady
    /\ SentWhenReady
    /\ Delays

-----------------------------------------------------------------------------
(* The types that the steps of tick() need. *)
LEMMA Facts ==
    ASSUME TypeOK
    PROVE  /\ base \in Time /\ base \in Nat /\ now \in Time /\ now \in Nat /\ now <= clock
           /\ clock \in Nat /\ clock \in Time /\ MaxClock \in Nat /\ Horizon \in Nat
           /\ schedule \in Schedule /\ \A s \in selected : s \in Schedule
<1>1. Horizon \in Nat /\ MaxClock \in 0..Horizon /\ NoTick \notin Nat /\ Created \subseteq 0..Horizon
  BY CronAssumption, SchedulerClockAssumption, SMTT(60) DEF Time
<1>2. base \in Time
  BY <1>1 DEF TypeOK, base, Time
<1>3. now \in 0..clock /\ clock \in 0..MaxClock
  BY DEF TypeOK
<1>4. Schedules \subseteq Schedule
  <2>1. Periods \subseteq Nat \ {0}
    BY SchedulerClockAssumption
  <2>2. \A s \in Schedules : /\ s = [type |-> s.type, seconds |-> s.seconds]
                              /\ s.type \in {"cron", "interval"} /\ s.seconds \in Periods
    BY SMTT(60) DEF Schedules
  <2> QED BY <2>1, <2>2, SMTT(60) DEF Schedule
<1>5. schedule \in Schedule /\ \A s \in selected : s \in Schedule
  BY <1>4 DEF TypeOK
<1> QED BY <1>1, <1>2, <1>3, <1>5, SMTT(60) DEF Time

(* What is due stays due. *)
LEMMA FireTimesGrow ==
    ASSUME NEW s, NEW b \in Nat, NEW m \in Nat, NEW n \in Nat, m <= n
    PROVE  FireTimes(s, b, m) \subseteq FireTimes(s, b, n)
BY SMTT(60) DEF FireTimes

(* Ticks counted from a tick are ticks counted from where that one was. *)
LEMMA FireTimesChain ==
    ASSUME NEW s \in Schedule, NEW b \in Nat, NEW n \in Nat,
           NEW t \in FireTimes(s, b, n), NEW u \in FireTimes(s, t, n)
    PROVE  u \in FireTimes(s, b, n)
<1> DEFINE d == s.seconds
<1>1. d \in Nat /\ d > 0
  BY SMTT(60) DEF Schedule
<1>2. t \in Nat /\ u \in Nat /\ b < t /\ t < u /\ u <= n
  BY SMTT(60) DEF FireTimes
<1>3. CASE s.type = "cron"
  BY <1>2, <1>3, SMTT(60) DEF FireTimes
<1>4. CASE s.type # "cron"
  <2>1. (t - b) % d = 0 /\ (u - t) % d = 0
    BY <1>4 DEF FireTimes
  <2>2. t - b \in Nat /\ u - t \in Nat
    BY <1>2, SMTT(60)
  <2> HIDE DEF d
  <2>3. PICK p \in Nat : t - b = p * d
    BY <1>1, <2>1, <2>2, ExactQuotient
  <2>4. PICK q \in Nat : u - t = q * d
    BY <1>1, <2>1, <2>2, ExactQuotient
  <2>5. u - b = p * d + q * d
    BY <1>1, <1>2, <2>3, <2>4, SMTT(60)
  <2>6. p * d + q * d = (p + q) * d /\ p + q \in Nat
    BY <1>1, SMTT(60)
  <2>7. ((p + q) * d) % d = 0
    BY <1>1, <2>6, Multiple
  <2>8. (u - b) % d = 0
    BY <2>5, <2>6, <2>7
  <2> QED BY <1>2, <1>4, <2>8, SMTT(60) DEF FireTimes, d
<1> QED BY <1>3, <1>4

-----------------------------------------------------------------------------
(* due_tick, and what is scheduled.                                        *)

(* TickInv without its types. *)
TickRest == Selection /\ LoopAtDueTick /\ NothingSelected /\ CatchUpIsLatest /\ TicksDoNotDrift

(* Steps outside tick(). *)
LEMMA TickSame ==
    ASSUME TickInv, UNCHANGED <<created_at, last_scheduled_for, tickVars>>,
           clock' \in Nat, clock <= clock',
           UNCHANGED <<schedule, updates>> \/ updates' > 0
    PROVE  TickRest'
<1>0. base' = base
  BY DEF base
<1>1. Selection'
  BY SMTT(60) DEF TickInv, Selection, tickVars
<1>2. LoopAtDueTick' /\ NothingSelected'
  BY <1>0 DEF TickInv, LoopAtDueTick, NothingSelected, tickVars
<1>3. CatchUpIsLatest'
  BY <1>0 DEF TickInv, CatchUpIsLatest, tickVars
<1>4. TicksDoNotDrift'
  <2> SUFFICES ASSUME updates' = 0, last_scheduled_for # NoTick
               PROVE  last_scheduled_for \in FireTimes(schedule, created_at, clock')
    BY SMTT(60) DEF TicksDoNotDrift
  <2>1. updates = 0 /\ schedule' = schedule
    BY SMTT(60)
  <2>2. last_scheduled_for \in FireTimes(schedule, created_at, clock)
    BY <2>1 DEF TickInv, TicksDoNotDrift
  <2>3. created_at \in Nat /\ clock \in Nat
    BY Facts, SchedulerClockAssumption, SMTT(60) DEF TickInv, TypeOK, Time
  <2> QED BY <2>2, <2>3, FireTimesGrow
<1> QED BY <1>1, <1>2, <1>3, <1>4 DEF TickRest

(* tick() reads the job. *)
LEMMA StartTickResult ==
    ASSUME TickInv, StartTick
    PROVE  TickRest'
<1>0. base' = base /\ pc' = "start" /\ UNCHANGED <<selected, tick, schedule, updates>>
  BY DEF StartTick, base, jobVars, runVars
<1>1. Selection' /\ LoopAtDueTick' /\ NothingSelected' /\ CatchUpIsLatest'
  BY <1>0 DEF TickInv, Selection, LoopAtDueTick, NothingSelected, CatchUpIsLatest
<1>2. TicksDoNotDrift'
  BY DEF TickInv, TicksDoNotDrift, StartTick, jobVars, runVars
<1> QED BY <1>1, <1>2 DEF TickRest

(* tick() ends, and its locals are gone. *)
LEMMA EndTickResult ==
    ASSUME TickInv, EndTick
    PROVE  Selection' /\ LoopAtDueTick' /\ NothingSelected' /\ CatchUpIsLatest'
BY DEF EndTick, Selection, LoopAtDueTick, NothingSelected, CatchUpIsLatest

(* The time that due_tick stops at decides what it returns. *)
LEMMA Returns ==
    ASSUME NEW s \in Schedule, NEW b \in Time, NEW n \in Time, NEW last, IsLast(s, b, n, last),
           NEW r, r = IF next_run_time(s, last) = Raises THEN Raises
                      ELSE IF last = b THEN NoTick ELSE last
    PROVE  /\ r # Raises => IsLatestDue(s, b, n, r)
           /\ r = Raises <=> next_run_time(s, Max(FireTimes(s, b, n) \union {b})) = Raises
<1>1. b \in Nat /\ n \in Nat /\ Raises \notin Nat \union {NoTick} /\ FireTimes(s, b, n) \subseteq Nat
  BY CronAssumption, SMTT(60) DEF Time, FireTimes
<1>2. Max(FireTimes(s, b, n) \union {b}) = last
  <2>1. FireTimes(s, b, n) \union {b} \in SUBSET Int
    BY <1>1, SMTT(60)
  <2> QED BY <2>1, MaxIs DEF IsLast
<1>3. last \in Nat
  BY <1>1 DEF IsLast
<1>4. r = Raises <=> next_run_time(s, last) = Raises
  BY <1>1, <1>3
<1>5. ASSUME r # Raises PROVE IsLatestDue(s, b, n, r)
  <2>1. CASE last = b
    <3>1. FireTimes(s, b, n) = {}
      BY <1>1, <2>1, SMTT(60) DEF IsLast, FireTimes
    <3> QED BY <1>5, <2>1, <3>1 DEF IsLatestDue
  <2>2. CASE last # b
    <3>1. last \in FireTimes(s, b, n)
      BY <2>2 DEF IsLast
    <3> QED BY <1>5, <2>2, <3>1 DEF IsLatestDue, IsLast
  <2> QED BY <2>1, <2>2
<1> QED BY <1>2, <1>4, <1>5

(* due_tick before its loop. *)
LEMMA FirstResult ==
    ASSUME TickInv, First
    PROVE  TickRest' /\ tick' \in Time \union {NoTick, Raises}
<1> DEFINE nxt == next_run_time(schedule, base)
<1>0. /\ base' = base /\ now' = now
      /\ selected' = IF enabled THEN {schedule} ELSE {}
      /\ schedule' = schedule /\ updates' = updates
  BY DEF First, base, jobVars, runVars
<1>1. base \in Time /\ base \in Nat /\ now \in Time /\ now \in Nat /\ schedule \in Schedule
  BY Facts DEF TickInv
<1>2. Selection'
  BY <1>0 DEF Selection
<1>3. TicksDoNotDrift'
  BY DEF TickInv, TicksDoNotDrift, First, jobVars, runVars
<1>4. CASE ~enabled /\ Return(NoTick)
  BY <1>0, <1>2, <1>3, <1>4
  DEF TickRest, Return, LoopAtDueTick, NothingSelected, CatchUpIsLatest
<1>5. CASE enabled /\ (nxt = Raises \/ nxt > now)
           /\ Return(IF nxt = Raises THEN Raises ELSE NoTick)
  <2>1. IsLast(schedule, base, now, base)
    BY <1>1, <1>5, RoundEnds
  <2>2. due_tick(schedule, base, now) = IF nxt = Raises THEN Raises ELSE NoTick
    BY <1>5, DueTickDef
  <2>3. tick' = (IF nxt = Raises THEN Raises ELSE NoTick) /\ pc' = "write" /\ selected' = {schedule}
    BY <1>0, <1>5 DEF Return
  <2>4. /\ tick' # Raises => IsLatestDue(schedule, base, now, tick')
        /\ tick' = Raises <=> next_run_time(schedule, Max(FireTimes(schedule, base, now) \union {base})) = Raises
    <3>1. tick' = IF next_run_time(schedule, base) = Raises THEN Raises
                  ELSE IF base = base THEN NoTick ELSE base
      BY <2>3
    <3>2. schedule \in Schedule /\ base \in Time /\ now \in Time
      BY <1>1
    <3> HIDE DEF nxt
    <3> QED BY ONLY <2>1, <3>1, <3>2, Returns
  <2>5. CatchUpIsLatest'
    BY <1>0, <2>2, <2>3, <2>4 DEF CatchUpIsLatest
  <2> QED BY <1>2, <1>3, <2>3, <2>5 DEF TickRest, LoopAtDueTick, NothingSelected
<1>6. CASE enabled /\ nxt # Raises /\ nxt <= now /\ Continue(nxt)
  <2>1. nxt \in FireTimes(schedule, base, now) /\ nxt \in Time /\ ~(nxt > now)
    BY <1>1, <1>6, RoundContinues, SMTT(60) DEF Time
  <2>2. due_tick(schedule, base, now) = CatchUp(schedule, now)[nxt]
    BY <1>6, <2>1, DueTickDef
  <2>3. tick' = nxt /\ pc' = "loop" /\ selected' = {schedule}
    BY <1>0, <1>6 DEF Continue
  <2> HIDE DEF nxt
  <2>4. LoopAtDueTick'
    BY <1>0, <2>1, <2>2, <2>3 DEF LoopAtDueTick
  <2> QED BY <1>2, <1>3, <2>1, <2>3, <2>4 DEF TickRest, NothingSelected, CatchUpIsLatest
<1>7. \/ ~enabled /\ Return(NoTick)
      \/ enabled /\ nxt = Raises /\ Return(Raises)
      \/ enabled /\ nxt # Raises /\ nxt > now /\ Return(NoTick)
      \/ enabled /\ nxt # Raises /\ nxt <= now /\ Continue(nxt)
  BY DEF First
<1> HIDE DEF nxt
<1> QED BY <1>4, <1>5, <1>6, <1>7

(* One round of the loop of due_tick. *)
LEMMA LoopResult ==
    ASSUME TickInv, Loop
    PROVE  TickRest' /\ tick' \in Time \union {NoTick, Raises}
<1>1. PICK s \in selected :
         /\ pc = "loop"
         /\ \/ next_run_time(s, tick) = Raises /\ Return(Raises)
            \/ next_run_time(s, tick) # Raises /\ next_run_time(s, tick) > now /\ Return(tick)
            \/ /\ next_run_time(s, tick) # Raises /\ next_run_time(s, tick) <= now
               /\ Continue(next_run_time(s, tick))
         /\ UNCHANGED <<jobVars, runVars, queueVars, clock, now, selected>>
  BY ZenonT(60) DEF Loop
<1> DEFINE nxt == next_run_time(s, tick)
<1>2. /\ base \in Time /\ base \in Nat /\ now \in Time /\ now \in Nat /\ s \in Schedule
      /\ NoTick \notin Nat /\ Raises \notin Nat \union {NoTick}
  BY Facts, CronAssumption DEF TickInv
<1>3. base' = base /\ now' = now /\ selected' = selected /\ selected = {s}
      /\ schedule' = schedule /\ updates' = updates
  BY <1>1 DEF base, jobVars, runVars, TickInv, Selection
<1>4. tick \in FireTimes(s, base, now) /\ due_tick(s, base, now) = CatchUp(s, now)[tick]
  BY <1>1 DEF TickInv, LoopAtDueTick
<1>5. tick \in Time /\ tick \in Nat /\ tick # base
  BY <1>2, <1>4, CronAssumption, SMTT(60) DEF FireTimes, Time
<1>6. due_tick(s, base, now) = Round(s, now, CatchUp(s, now), tick)
  BY <1>2, <1>4, <1>5, CatchUpDef
<1>7. Selection' /\ TicksDoNotDrift'
  <2>1. Selection'
    BY <1>3 DEF TickInv, Selection
  <2>2. UNCHANGED <<last_scheduled_for, schedule, created_at, clock, updates>>
    BY <1>1 DEF jobVars, runVars
  <2> QED BY <2>1, <2>2 DEF TickInv, TicksDoNotDrift
<1>8. CASE (nxt = Raises \/ nxt > now) /\ Return(IF nxt = Raises THEN Raises ELSE tick)
  <2>1. IsLast(s, base, now, tick)
    BY <1>2, <1>4, <1>8, RoundEnds
  <2>2. due_tick(s, base, now) = IF nxt = Raises THEN Raises ELSE tick
    BY <1>6, <1>8 DEF Round
  <2>3. tick' = (IF nxt = Raises THEN Raises ELSE tick) /\ pc' = "write"
    BY <1>8 DEF Return
  <2>4. /\ tick' # Raises => IsLatestDue(s, base, now, tick')
        /\ tick' = Raises <=> next_run_time(s, Max(FireTimes(s, base, now) \union {base})) = Raises
    BY <1>2, <1>5, <2>1, <2>3, Returns, SMTT(60)
  <2>5. CatchUpIsLatest'
    BY <1>3, <2>2, <2>3, <2>4 DEF CatchUpIsLatest
  <2> HIDE DEF nxt
  <2> QED BY <1>3, <1>5, <1>7, <2>3, <2>5 DEF TickRest, LoopAtDueTick, NothingSelected
<1>9. CASE nxt # Raises /\ nxt <= now /\ Continue(nxt)
  <2>1. nxt \in FireTimes(s, base, now) /\ nxt \in Time /\ ~(nxt > now)
    BY <1>2, <1>4, <1>9, RoundContinues, SMTT(60) DEF Time
  <2>2. due_tick(s, base, now) = CatchUp(s, now)[nxt]
    BY <1>6, <1>9, <2>1 DEF Round
  <2>3. tick' = nxt /\ pc' = "loop"
    BY <1>9 DEF Continue
  <2> HIDE DEF nxt
  <2>4. LoopAtDueTick'
    BY <1>3, <2>1, <2>2, <2>3 DEF LoopAtDueTick
  <2> QED BY <1>7, <2>1, <2>3, <2>4 DEF TickRest, NothingSelected, CatchUpIsLatest
<1>10. \/ nxt = Raises /\ Return(Raises)
       \/ nxt # Raises /\ nxt > now /\ Return(tick)
       \/ nxt # Raises /\ nxt <= now /\ Continue(nxt)
  BY <1>1
<1> HIDE DEF nxt
<1>11. CASE nxt = Raises /\ Return(Raises)
  BY <1>8, <1>11
<1>12. CASE nxt # Raises /\ nxt > now /\ Return(tick)
  BY <1>8, <1>12
<1> QED BY <1>9, <1>10, <1>11, <1>12

(* The tick that is written is later than the last one and not in the      *)
(* future.                                                                 *)
LEMMA WrittenTick ==
    ASSUME TickInv, WriteRuns, tick # NoTick
    PROVE  \E s \in selected : s \in Schedule /\ tick \in FireTimes(s, base, now)
<1>1. pc = "write" /\ tick # Raises /\ selected # {}
  BY DEF WriteRuns, TickInv, NothingSelected
<1>2. PICK s \in selected : s \in Schedule
  BY <1>1, Facts DEF TickInv
<1>3. IsLatestDue(s, base, now, tick)
  BY <1>1 DEF TickInv, CatchUpIsLatest
<1> QED BY <1>2, <1>3 DEF IsLatestDue

(* The commit moves last_scheduled_for to the tick. *)
LEMMA WriteRunsResult ==
    ASSUME TickInv, WriteRuns
    PROVE  TickRest' /\ last_scheduled_for' \in Time \union {NoTick}
<1>1. EndTick /\ UNCHANGED <<jobVars, clock>>
  BY DEF WriteRuns, Commit
<1>2. /\ base \in Nat /\ now \in Nat /\ now <= clock /\ clock \in Nat /\ created_at \in Nat
      /\ Horizon \in Nat /\ clock \in Time
  BY Facts, SchedulerClockAssumption, SMTT(60) DEF TickInv, TypeOK, Time
<1>3. CASE tick = NoTick
  <2>1. last_scheduled_for' = last_scheduled_for
    BY <1>3 DEF WriteRuns, Commit
  <2> QED BY <1>1, <2>1, EndTickResult
          DEF TickInv, TypeOK, TickRest, TicksDoNotDrift, jobVars
<1>4. CASE tick # NoTick
  <2>1. last_scheduled_for' = tick
    BY <1>4 DEF WriteRuns, Commit
  <2>2. PICK s \in selected : s \in Schedule /\ tick \in FireTimes(s, base, now)
    BY <1>4, WrittenTick
  <2>3. tick \in Time
    BY <1>2, <2>2, SMTT(60) DEF FireTimes, Time
  <2>4. ASSUME updates = 0 PROVE tick \in FireTimes(schedule, created_at, clock)
    <3>1. s = schedule
      BY <2>4 DEF TickInv, Selection
    <3>2. tick \in FireTimes(schedule, base, clock)
      BY <1>2, <2>2, <3>1, FireTimesGrow
    <3>3. CASE last_scheduled_for = NoTick
      BY <3>2, <3>3 DEF base
    <3>4. CASE last_scheduled_for # NoTick
      <4>1. base \in FireTimes(schedule, created_at, clock)
        BY <2>4, <3>4 DEF TickInv, TicksDoNotDrift, base
      <4> QED BY <1>2, <2>2, <3>1, <3>2, <4>1, FireTimesChain
    <3> QED BY <3>3, <3>4
  <2>5. TicksDoNotDrift'
    BY <1>1, <2>1, <2>4 DEF TicksDoNotDrift, jobVars
  <2> QED BY <1>1, <2>1, <2>3, <2>5, EndTickResult DEF TickRest
<1> QED BY <1>3, <1>4

-----------------------------------------------------------------------------
(* The backoff.                                                            *)

(* The recursion of PowerOfTwo ends. *)
LEMMA PowerExists ==
    \E f : f = [n \in 0..MaxRetries |-> IF n = 0 THEN 1 ELSE 2 * f[n - 1]]
<1> DEFINE Def(f, n) == IF n = 0 THEN 1 ELSE 2 * f[n - 1]
           Good(m) == \E f : f = [n \in 0..m |-> Def(f, n)]
           T == {m \in 0..MaxRetries : ~Good(m)}
<1>0. MaxRetries \in Nat
  BY SchedulerClockAssumption
<1>1. T = {}
  <2> SUFFICES ASSUME T # {} PROVE FALSE
    OBVIOUS
  <2>1. PICK m \in T : \A k \in T : m <= k
    <3>1. T \subseteq Nat
      BY <1>0, SMTT(60)
    <3> HIDE DEF T
    <3> QED BY <3>1, Least
  <2>2. m \in 0..MaxRetries /\ m \in Nat /\ ~Good(m)
    BY <1>0, SMTT(60)
  <2>3. CASE m = 0
    <3> DEFINE f == [n \in 0..m |-> 1]
    <3>1. \A n \in 0..m : f[n] = Def(f, n)
      BY <2>3, SMTT(60)
    <3>2. f = [n \in 0..m |-> Def(f, n)]
      BY <3>1
    <3>3. Good(m)
      BY <3>2
    <3> QED BY <2>2, <3>3
  <2>4. CASE m # 0
    <3>1. m - 1 \in 0..MaxRetries /\ m - 1 \in Nat /\ ~(m <= m - 1)
      BY <1>0, <2>2, <2>4, SMTT(60)
    <3>2. Good(m - 1)
      <4> HIDE DEF Good
      <4> QED BY <2>1, <3>1
    <3>3. PICK g : g = [n \in 0..(m - 1) |-> Def(g, n)]
      BY <3>2
    <3> DEFINE f == [n \in 0..m |-> IF n = m THEN 2 * g[m - 1] ELSE g[n]]
    <3>4. ASSUME NEW n \in 0..m PROVE f[n] = Def(f, n)
      <4>1. CASE n = m
        BY <2>2, <2>4, <3>1, <4>1, SMTT(60)
      <4>2. CASE n # m
        <5>1. n \in 0..(m - 1)
          BY <2>2, <4>2, SMTT(60)
        <5>2. g[n] = Def(g, n)
          <6> HIDE DEF f
          <6> QED BY <3>3, <5>1
        <5> QED BY <2>2, <4>2, <5>1, <5>2, SMTT(60)
      <4> QED BY <4>1, <4>2
    <3>5. f = [n \in 0..m |-> Def(f, n)]
      BY <3>4
    <3>6. Good(m)
      BY <3>5
    <3> QED BY <2>2, <3>6, SMTT(60)
  <2> QED BY <2>3, <2>4
<1>2. MaxRetries \notin T
  BY <1>1
<1>3. Good(MaxRetries)
  <2> HIDE DEF Good
  <2> QED BY <1>0, <1>2, SMTT(60)
<1> QED BY <1>3

(* So PowerOfTwo satisfies its equation. *)
LEMMA PowerDef ==
    ASSUME NEW n \in 0..MaxRetries
    PROVE  PowerOfTwo[n] = IF n = 0 THEN 1 ELSE 2 * PowerOfTwo[n - 1]
<1> DEFINE P(f) == f = [k \in 0..MaxRetries |-> IF k = 0 THEN 1 ELSE 2 * f[k - 1]]
<1>1. \E f : P(f)
  BY PowerExists
<1>2. PowerOfTwo = CHOOSE f : P(f)
  BY DEF PowerOfTwo
<1>3. P(PowerOfTwo)
  <2> HIDE DEF P
  <2> QED BY <1>1, <1>2
<1> QED BY <1>3

(* Powers are natural numbers.  By least counterexample. *)
LEMMA PowerType ==
    ASSUME NEW n \in 0..MaxRetries
    PROVE  PowerOfTwo[n] \in Nat
<1> DEFINE T == {m \in 0..MaxRetries : PowerOfTwo[m] \notin Nat}
<1>0. MaxRetries \in Nat
  BY SchedulerClockAssumption
<1>1. T = {}
  <2> SUFFICES ASSUME T # {} PROVE FALSE
    OBVIOUS
  <2>1. PICK m \in T : \A k \in T : m <= k
    <3>1. T \subseteq Nat
      BY <1>0, SMTT(60)
    <3> HIDE DEF T
    <3> QED BY <3>1, Least
  <2>2. PowerOfTwo[m] = IF m = 0 THEN 1 ELSE 2 * PowerOfTwo[m - 1]
    BY PowerDef
  <2>3. CASE m = 0
    BY <2>2, <2>3, SMTT(60)
  <2>4. CASE m # 0
    <3>1. m - 1 \in 0..MaxRetries /\ ~(m <= m - 1)
      BY <1>0, <2>4, SMTT(60)
    <3>2. PowerOfTwo[m - 1] \in Nat
      BY <2>1, <3>1
    <3> QED BY <2>2, <2>4, <3>2, SMTT(60)
  <2> QED BY <2>3, <2>4
<1> QED BY <1>1

(* backoff_seconds: the first delay is the job's, and the next one doubles *)
(* the one before, up to the cap.                                          *)
LEMMA Backoffs ==
    ASSUME NEW attempt \in 1..MaxRetries, NEW b \in Nat
    PROVE  /\ backoff_seconds(attempt, b) \in Nat
           /\ backoff_seconds(attempt, b) =
                Min({BackoffMax, IF attempt = 1 THEN b ELSE 2 * backoff_seconds(attempt - 1, b)})
<1>0. MaxRetries \in Nat /\ BackoffMax \in Nat
  BY SchedulerClockAssumption
<1> DEFINE Raw(n) == b * PowerOfTwo[n - 1]
<1>1. \A n \in 1..MaxRetries : PowerOfTwo[n - 1] \in Nat
  BY <1>0, PowerType, SMTT(60)
<1>2. \A n \in 1..MaxRetries : Raw(n) \in Nat
  BY <1>0, <1>1, SMTT(60)
<1>3. ASSUME NEW n \in 1..MaxRetries
      PROVE  /\ b = 0 => backoff_seconds(n, b) = 0
             /\ b # 0 => backoff_seconds(n, b) = IF Raw(n) <= BackoffMax THEN Raw(n) ELSE BackoffMax
  <2>1. Raw(n) \in Int /\ BackoffMax \in Int
    BY <1>0, <1>2, SMTT(60)
  <2> HIDE DEF Raw
  <2>2. Min({Raw(n), BackoffMax}) = IF Raw(n) <= BackoffMax THEN Raw(n) ELSE BackoffMax
    BY <2>1, MinOfTwo
  <2> QED BY <2>2 DEF backoff_seconds, Raw
<1>4. backoff_seconds(attempt, b) \in Nat
  <2> HIDE DEF Raw
  <2> QED BY <1>0, <1>2, <1>3
<1>5. CASE attempt = 1
  <2>1. Raw(1) = b
    BY <1>0, <1>5, PowerDef, SMTT(60)
  <2>2. Min({BackoffMax, b}) = IF BackoffMax <= b THEN BackoffMax ELSE b
    BY <1>0, MinOfTwo, SMTT(60)
  <2> HIDE DEF Raw
  <2> QED BY <1>0, <1>3, <1>4, <1>5, <2>1, <2>2, SMTT(60)
<1>6. CASE attempt # 1
  <2>1. attempt - 1 \in 1..MaxRetries
    BY <1>0, <1>6, SMTT(60)
  <2>2. Raw(attempt) = 2 * Raw(attempt - 1)
    <3>1. PowerOfTwo[attempt - 1] = 2 * PowerOfTwo[(attempt - 1) - 1]
      BY <1>0, <1>6, PowerDef, SMTT(60)
    <3>2. PowerOfTwo[(attempt - 1) - 1] \in Nat
      BY <1>1, <2>1
    <3> QED BY <3>1, <3>2, SMTT(60)
  <2>3. Raw(attempt - 1) \in Nat /\ Raw(attempt) \in Nat
    BY <1>2, <2>1
  <2> DEFINE twice == 2 * backoff_seconds(attempt - 1, b)
  <2> HIDE DEF Raw
  <2>4. /\ b = 0 => twice = 0
        /\ b # 0 => twice = 2 * (IF Raw(attempt - 1) <= BackoffMax THEN Raw(attempt - 1) ELSE BackoffMax)
        /\ twice \in Int
    BY <1>0, <1>3, <2>1, <2>3, SMTT(60)
  <2> HIDE DEF twice
  <2>5. Min({BackoffMax, twice}) = IF BackoffMax <= twice THEN BackoffMax ELSE twice
    BY <1>0, <2>4, MinOfTwo, SMTT(60)
  <2>6. backoff_seconds(attempt, b) = Min({BackoffMax, twice})
    BY <1>0, <1>3, <2>2, <2>3, <2>4, <2>5, SMTT(60)
  <2> QED BY <1>4, <1>6, <2>6 DEF twice
<1> QED BY <1>5, <1>6

-----------------------------------------------------------------------------
(* The types.                                                              *)

(* The parts of a run. *)
LEMMA KeyParts ==
    ASSUME TypeOK, NEW k \in DOMAIN runs
    PROVE  /\ k = <<k[1], k[2]>> /\ k[1] \in Time /\ k[1] \in Nat
           /\ k[2] \in 1..(MaxRetries + 1) /\ k[2] \in Nat
           /\ runs[k].created_at \in Time /\ runs[k].created_at \in Nat
           /\ runs[k].ready_at \in Nat /\ runs[k].status \in {"queued", "running"}
<1>1. k \in RunKey /\ runs[k] \in RunRow
  BY DEF TypeOK, Range
<1>2. MaxRetries \in Nat /\ Horizon \in Nat
  BY SchedulerClockAssumption, CronAssumption
<1> QED BY <1>1, <1>2, SMTT(60) DEF RunKey, RunRow, Time

(* The rows after an INSERT. *)
LEMMA InsertRow ==
    ASSUME TypeOK, NEW k \in RunKey, NEW row \in RunRow, runs' = Insert(runs, k, row)
    PROVE  /\ DOMAIN runs' = DOMAIN runs \union {k}
           /\ DOMAIN runs' \subseteq RunKey /\ Range(runs') \subseteq RunRow
           /\ runs'[k] = row
           /\ \A x \in DOMAIN runs : x # k => runs'[x] = runs[x]
<1>1. DOMAIN runs' = DOMAIN runs \union {k}
  BY DEF Insert
<1>2. \A x \in DOMAIN runs \union {k} : runs'[x] = IF x = k THEN row ELSE runs[x]
  BY DEF Insert
<1>3. DOMAIN runs \subseteq RunKey /\ \A x \in DOMAIN runs : runs[x] \in RunRow
  BY DEF TypeOK, Range
<1>4. \A x \in DOMAIN runs' : runs'[x] \in RunRow
  BY <1>1, <1>2, <1>3
<1>5. Range(runs') \subseteq RunRow
  BY <1>4 DEF Range
<1> QED BY <1>1, <1>2, <1>3, <1>5

(* The rows when a run is forgotten. *)
LEMMA WithoutRow ==
    ASSUME TypeOK, NEW k, runs' = Without(k)
    PROVE  /\ DOMAIN runs' = DOMAIN runs \ {k}
           /\ DOMAIN runs' \subseteq RunKey /\ Range(runs') \subseteq RunRow
           /\ \A x \in DOMAIN runs' : runs'[x] = runs[x]
<1>1. DOMAIN runs' = DOMAIN runs \ {k} /\ \A x \in DOMAIN runs \ {k} : runs'[x] = runs[x]
  BY DEF Without, Restrict
<1>2. DOMAIN runs \subseteq RunKey /\ \A x \in DOMAIN runs : runs[x] \in RunRow
  BY DEF TypeOK, Range
<1>3. \A x \in DOMAIN runs' : runs'[x] \in RunRow
  BY <1>1, <1>2
<1>4. Range(runs') \subseteq RunRow
  BY <1>3 DEF Range
<1> QED BY <1>1, <1>2, <1>4

(* The rows when a run fails and is retried. *)
LEMMA ReplaceRow ==
    ASSUME TypeOK, NEW k, NEW l \in RunKey, NEW row \in RunRow, runs' = Insert(Without(k), l, row)
    PROVE  /\ DOMAIN runs' = (DOMAIN runs \ {k}) \union {l}
           /\ DOMAIN runs' \subseteq RunKey /\ Range(runs') \subseteq RunRow
           /\ runs'[l] = row
           /\ \A x \in DOMAIN runs \ {k} : x # l => runs'[x] = runs[x]
<1>1. DOMAIN runs' = (DOMAIN runs \ {k}) \union {l}
  BY DEF Insert, Without, Restrict
<1>2. \A x \in (DOMAIN runs \ {k}) \union {l} : runs'[x] = IF x = l THEN row ELSE runs[x]
  BY DEF Insert, Without, Restrict
<1>3. DOMAIN runs \subseteq RunKey /\ \A x \in DOMAIN runs : runs[x] \in RunRow
  BY DEF TypeOK, Range
<1>4. \A x \in DOMAIN runs' : runs'[x] \in RunRow
  BY <1>1, <1>2, <1>3
<1>5. Range(runs') \subseteq RunRow
  BY <1>4 DEF Range
<1> QED BY <1>1, <1>2, <1>3, <1>5

(* A new row has its type. *)
LEMMA NewRow ==
    ASSUME TypeOK, NEW delay \in Nat
    PROVE  Row(clock + delay) \in RunRow
BY Facts, SMTT(60) DEF Row, RunRow

(* The steps of the scheduler keep the types. *)
LEMMA TypeLeader ==
    ASSUME TickInv, LeaderStep
    PROVE  TypeOK'
<1>0. /\ MaxRetries \in Nat /\ clock \in 0..MaxClock /\ clock \in Nat
      /\ Horizon \in Nat /\ MaxClock \in Nat
  BY SchedulerClockAssumption, Facts DEF TickInv, TypeOK
<1>1. CASE StartTick
  <2>1. \A d \in delayed : d[1] \in RunKey
    BY DEF TickInv, TypeOK
  <2> QED BY <1>0, <1>1, <2>1, SMTT(60) DEF TickInv, TypeOK, StartTick, Due, jobVars, runVars
<1>2. CASE First
  BY <1>0, <1>2, FirstResult DEF TickInv, TypeOK, First, Return, Continue, jobVars, runVars, queueVars
<1>3. CASE Loop
  BY <1>0, <1>3, LoopResult DEF TickInv, TypeOK, Loop, Return, Continue, jobVars, runVars, queueVars
<1>4. CASE TickRaises
  BY <1>0, <1>4, SMTT(60) DEF TickInv, TypeOK, TickRaises, EndTick, jobVars, runVars, queueVars
<1>5. CASE WriteRuns
  <2>1. last_scheduled_for' \in Time \union {NoTick}
    BY <1>5, WriteRunsResult
  <2>2. Orphans \subseteq RunKey
    BY DEF TickInv, TypeOK, Orphans
  <2>3. EndTick /\ UNCHANGED <<jobVars, failures, delayed, clock>>
    BY <1>5 DEF WriteRuns, Commit
  <2>4. stream' \subseteq RunKey /\ DOMAIN runs' \subseteq RunKey /\ Range(runs') \subseteq RunRow
    <3>1. CASE tick = NoTick
      BY <1>5, <2>2, <3>1 DEF TickInv, TypeOK, WriteRuns, Commit
    <3>2. CASE tick # NoTick
      <4>1. tick \in Time
        BY <1>5, <3>2 DEF TickInv, TypeOK, WriteRuns
      <4>2. <<tick, 1>> \in RunKey
        BY <1>0, <4>1, SMTT(60) DEF RunKey
      <4>3. Row(clock) \in RunRow
        BY Facts DEF TickInv, Row, RunRow
      <4>4. /\ stream' = stream \union Orphans \union {<<tick, 1>>}
            /\ runs' = Insert(runs, <<tick, 1>>, Row(clock))
        BY <1>5, <3>2 DEF WriteRuns, Commit
      <4>5. DOMAIN runs' \subseteq RunKey /\ Range(runs') \subseteq RunRow
        BY <4>2, <4>3, <4>4, InsertRow DEF TickInv
      <4> QED BY <2>2, <4>2, <4>4, <4>5 DEF TickInv, TypeOK
    <3> QED BY <3>1, <3>2
  <2> QED BY <1>0, <2>1, <2>3, <2>4, SMTT(60) DEF TickInv, TypeOK, EndTick, jobVars
<1> QED BY <1>1, <1>2, <1>3, <1>4, <1>5 DEF LeaderStep

(* The steps of the worker keep the types. *)
LEMMA TypeWorker ==
    ASSUME TypeOK, NEW k, Claim(k) \/ (k \in DOMAIN runs /\ (Succeed(k) \/ Fail(k)))
    PROVE  TypeOK'
<1>1. CASE Claim(k)
  <2>1. DOMAIN runs' = DOMAIN runs
    BY <1>1 DEF Claim
  <2>2. \A x \in DOMAIN runs : runs'[x] \in RunRow
    <3>1. \A x \in DOMAIN runs : runs[x] \in RunRow
      BY DEF TypeOK, Range
    <3>2. \A row \in RunRow : [row EXCEPT !.status = "running"] \in RunRow
      BY DEF RunRow
    <3> QED BY <1>1, <3>1, <3>2 DEF Claim
  <2>3. Range(runs') \subseteq RunRow
    BY <2>1, <2>2 DEF Range
  <2> QED BY <1>1, <2>1, <2>3 DEF TypeOK, Claim, jobVars, tickVars
<1>2. CASE k \in DOMAIN runs /\ Succeed(k)
  <2>1. runs' = Without(k)
    BY <1>2 DEF Succeed
  <2>2. DOMAIN runs' \subseteq RunKey /\ Range(runs') \subseteq RunRow
    BY <2>1, WithoutRow
  <2> QED BY <1>2, <2>2 DEF TypeOK, Succeed, jobVars, queueVars, tickVars
<1>3. CASE k \in DOMAIN runs /\ Fail(k)
  <2>0. /\ k[1] \in Time /\ k[2] \in 1..(MaxRetries + 1) /\ MaxRetries \in Nat
        /\ clock \in Nat /\ retry_backoff_sec \in Nat /\ MaxFailures \in Nat
    BY <1>3, KeyParts, Facts, SchedulerClockAssumption DEF TypeOK
  <2>1. failures' \in 0..MaxFailures
    BY <1>3, <2>0, SMTT(60) DEF Fail, TypeOK
  <2>2. /\ DOMAIN runs' \subseteq RunKey /\ Range(runs') \subseteq RunRow
        /\ delayed' \subseteq RunKey \X Nat
    <3>1. CASE k[2] <= MaxRetries
      <4> DEFINE retry == <<k[1], k[2] + 1>>
                 delay == backoff_seconds(k[2], retry_backoff_sec)
      <4>1. retry \in RunKey
        BY <2>0, <3>1, SMTT(60) DEF RunKey
      <4>2. delay \in Nat
        <5>1. k[2] \in 1..MaxRetries
          BY <2>0, <3>1, SMTT(60)
        <5> QED BY <2>0, <5>1, Backoffs
      <4>3. /\ runs' = Insert(Without(k), retry, Row(clock + delay))
            /\ delayed' = delayed \union {<<retry, clock + delay>>}
        BY <1>3, <3>1 DEF Fail
      <4> HIDE DEF retry, delay
      <4>4. Row(clock + delay) \in RunRow /\ clock + delay \in Nat
        BY <2>0, <4>2, NewRow, SMTT(60)
      <4>5. DOMAIN runs' \subseteq RunKey /\ Range(runs') \subseteq RunRow
        BY <4>1, <4>3, <4>4, ReplaceRow
      <4> QED BY <4>1, <4>3, <4>4, <4>5, SMTT(60) DEF TypeOK
    <3>2. CASE ~(k[2] <= MaxRetries)
      <4>1. runs' = Without(k) /\ delayed' = delayed
        BY <1>3, <3>2 DEF Fail
      <4>2. DOMAIN runs' \subseteq RunKey /\ Range(runs') \subseteq RunRow
        BY <4>1, WithoutRow
      <4> QED BY <4>1, <4>2 DEF TypeOK
    <3> QED BY <3>1, <3>2
  <2> QED BY <1>3, <2>1, <2>2 DEF TypeOK, Fail, jobVars, tickVars
<1> QED BY <1>1, <1>2, <1>3

-----------------------------------------------------------------------------
(* The runs.                                                               *)

(* The earlier of two times is not after either. *)
LEMMA EarliestIs ==
    ASSUME NEW row \in RunRow
    PROVE  /\ Earliest(row) \in Nat
           /\ Earliest(row) <= row.ready_at
           /\ Earliest(row) <= row.created_at + OrphanAfter + 1
<1>1. row.ready_at \in Nat /\ row.created_at \in Nat /\ OrphanAfter \in Nat
  BY CronAssumption, SchedulerClockAssumption, SMTT(60) DEF RunRow, Time
<1> DEFINE a == row.ready_at
           b == row.created_at + OrphanAfter + 1
<1>2. a \in Nat /\ b \in Nat /\ a \in Int /\ b \in Int
  BY <1>1, SMTT(60)
<1> HIDE DEF a, b
<1>3. Min({a, b}) = IF a <= b THEN a ELSE b
  BY <1>2, MinOfTwo
<1>4. Min({a, b}) \in Nat /\ Min({a, b}) <= a /\ Min({a, b}) <= b
  BY <1>2, <1>3, SMTT(60)
<1> QED BY <1>4 DEF Earliest, a, b

(* The types of all rows. *)
LEMMA RowTypes ==
    ASSUME TypeOK
    PROVE  \A k \in DOMAIN runs :
              /\ runs[k] \in RunRow
              /\ Earliest(runs[k]) \in Nat
              /\ Earliest(runs[k]) <= runs[k].ready_at
              /\ Earliest(runs[k]) <= runs[k].created_at + OrphanAfter + 1
<1>1. \A k \in DOMAIN runs : runs[k] \in RunRow
  BY DEF TypeOK, Range
<1> QED BY <1>1, EarliestIs

(* The types of all runs. *)
LEMMA KeyTypes ==
    ASSUME TypeOK
    PROVE  \A k \in Pending \union DOMAIN runs :
              /\ k = <<k[1], k[2]>> /\ k[1] \in Nat /\ k[2] \in Nat /\ k[2] >= 1
              /\ k[2] \in 1..(MaxRetries + 1)
<1>1. Pending \union DOMAIN runs \subseteq RunKey
  BY DEF TypeOK, Pending
<1>2. MaxRetries \in Nat /\ Horizon \in Nat
  BY SchedulerClockAssumption, CronAssumption
<1> QED BY <1>1, <1>2, SMTT(60) DEF RunKey, Time

(* Steps that leave the runs, their messages and their delays alone. *)
LEMMA RunsSame ==
    ASSUME TypeOK, RetryInv, UNCHANGED <<runVars, queueVars, retry_backoff_sec>>,
           clock' \in Nat, clock <= clock'
    PROVE  RetryInv'
<1>1. UNCHANGED <<runs, delayed, stream, last_scheduled_for, retry_backoff_sec, Pending>>
  BY DEF runVars, queueVars, Pending
<1>2. OneAttempt' /\ NoneAhead' /\ Scheduled' /\ DelayedUntilReady' /\ Delays'
  BY <1>1 DEF RetryInv, OneAttempt, NoneAhead, Scheduled, DelayedUntilReady, Delays
<1>3. SentWhenReady'
  BY <1>1, RowTypes, Facts, SMTT(60) DEF RetryInv, SentWhenReady, Earliest
<1> QED BY <1>2, <1>3 DEF RetryInv

(* promote_due_delayed: a run is sent when its delay is over. *)
LEMMA RunsStart ==
    ASSUME TypeOK, RetryInv, StartTick
    PROVE  RetryInv'
<1>1. UNCHANGED <<runs, clock, last_scheduled_for, retry_backoff_sec>>
  BY DEF StartTick, jobVars, runVars
<1>2. /\ stream' = stream \union {d[1] : d \in Due(clock)}
      /\ delayed' = delayed \ Due(clock)
  BY DEF StartTick
<1>3. Pending' = Pending
  BY <1>2 DEF Pending, Due
<1>4. OneAttempt' /\ NoneAhead' /\ Scheduled' /\ DelayedUntilReady' /\ Delays'
  BY <1>1, <1>2, <1>3 DEF RetryInv, OneAttempt, NoneAhead, Scheduled, DelayedUntilReady, Delays
<1>5. SentWhenReady'
  <2> SUFFICES ASSUME NEW k \in stream' \intersect DOMAIN runs, runs[k].status = "queued"
               PROVE  clock >= Earliest(runs[k])
    BY <1>1 DEF SentWhenReady, Earliest
  <2>1. CASE k \in stream
    BY <2>1 DEF RetryInv, SentWhenReady
  <2>2. CASE k \notin stream
    <3>1. PICK d \in Due(clock) : k = d[1]
      BY <1>2, <2>2
    <3>2. d[2] <= clock /\ d[2] = runs[k].ready_at /\ d[2] \in Nat
      BY <3>1 DEF Due, RetryInv, DelayedUntilReady, TypeOK
    <3> QED BY <3>2, RowTypes, Facts, SMTT(60)
  <2> QED BY <2>1, <2>2
<1> QED BY <1>4, <1>5 DEF RetryInv

(* requeue_orphans: what is sent is old, and its own latest attempt. *)
LEMMA RunsOrphans ==
    ASSUME TypeOK, RetryInv
    PROVE  /\ Orphans \subseteq DOMAIN runs
           /\ \A k \in Orphans : clock >= Earliest(runs[k])
<1>1. OrphanAfter \in Nat /\ clock \in Nat /\ now \in Nat /\ now <= clock
  BY Facts, SchedulerClockAssumption
<1>2. \A k \in DOMAIN runs : /\ runs[k].created_at \in Nat /\ Earliest(runs[k]) \in Nat
                              /\ Earliest(runs[k]) <= runs[k].created_at + OrphanAfter + 1
  BY RowTypes, KeyParts
<1>3. \A k \in Orphans : k \in DOMAIN runs /\ runs[k].created_at + OrphanAfter < now
  BY DEF Orphans
<1>4. ASSUME NEW k \in Orphans PROVE clock >= Earliest(runs[k])
  BY <1>1, <1>2, <1>3, SMTT(60)
<1> QED BY <1>3, <1>4

(* The run of a tick is new: no message and no row of an earlier tick can  *)
(* be taken for one of it.                                                 *)
LEMMA NewTick ==
    ASSUME TickInv, RetryInv, WriteRuns, tick # NoTick
    PROVE  /\ tick \in Time /\ tick \in Nat
           /\ \A k \in Pending \union DOMAIN runs : k[1] < tick /\ k[1] # tick
<1>1. PICK s \in selected : s \in Schedule /\ tick \in FireTimes(s, base, now)
  BY WrittenTick
<1>2. /\ base \in Nat /\ now \in Nat /\ now <= clock /\ clock \in Nat
      /\ Horizon \in Nat /\ clock \in 0..Horizon
  BY Facts DEF TickInv, Time
<1>3. tick \in Nat /\ tick <= now /\ base < tick
  BY <1>1, <1>2, SMTT(60) DEF FireTimes
<1>4. ASSUME NEW k \in Pending \union DOMAIN runs PROVE k[1] < tick /\ k[1] # tick
  <2>1. last_scheduled_for # NoTick /\ k[1] <= last_scheduled_for
    BY DEF RetryInv, Scheduled
  <2>2. k[1] \in Nat
    BY KeyTypes DEF TickInv
  <2>3. last_scheduled_for = base
    BY <2>1 DEF base
  <2> QED BY <1>2, <1>3, <2>1, <2>2, <2>3, SMTT(60)
<1> QED BY <1>2, <1>3, <1>4, SMTT(60) DEF Time

(* The commit of tick() inserts the first attempt of a later tick. *)
LEMMA RunsWrite ==
    ASSUME TickInv, RetryInv, WriteRuns
    PROVE  RetryInv'
<1>1. UNCHANGED <<clock, delayed, retry_backoff_sec>>
  BY DEF WriteRuns, Commit, jobVars
<1>2. /\ Orphans \subseteq DOMAIN runs
      /\ \A k \in Orphans : clock >= Earliest(runs[k])
  BY RunsOrphans DEF TickInv
<1>3. CASE tick = NoTick
  <2>1. stream' = stream \union Orphans /\ runs' = runs /\ last_scheduled_for' = last_scheduled_for
    BY <1>3 DEF WriteRuns, Commit
  <2>2. Pending' \subseteq Pending \union DOMAIN runs
    BY <1>1, <1>2, <2>1 DEF Pending
  <2>3. NoneAhead'
    <3>1. \A k \in DOMAIN runs : \A l \in DOMAIN runs : k[1] = l[1] => k[2] <= l[2]
      BY KeyTypes, SMTT(60) DEF TickInv, RetryInv, OneAttempt
    <3> QED BY <2>1, <2>2, <3>1 DEF RetryInv, NoneAhead
  <2>4. OneAttempt' /\ Scheduled' /\ DelayedUntilReady' /\ Delays'
    BY <1>1, <2>1, <2>2 DEF RetryInv, OneAttempt, Scheduled, DelayedUntilReady, Delays
  <2>5. SentWhenReady'
    BY <1>1, <1>2, <2>1 DEF RetryInv, SentWhenReady, Earliest
  <2> QED BY <2>3, <2>4, <2>5 DEF RetryInv
<1>4. CASE tick # NoTick
  <2> DEFINE new == <<tick, 1>>
             row == Row(clock)
  <2>0. /\ tick \in Time /\ tick \in Nat
        /\ \A k \in Pending \union DOMAIN runs : k[1] < tick /\ k[1] # tick
    BY <1>4, NewTick
  <2>1. /\ stream' = stream \union Orphans \union {new}
        /\ runs' = Insert(runs, new, row)
        /\ last_scheduled_for' = tick
    BY <1>4 DEF WriteRuns, Commit
  <2>2. new \in RunKey /\ new[1] = tick /\ new[2] = 1
    BY <2>0, SchedulerClockAssumption, SMTT(60) DEF RunKey
  <2>3. row \in RunRow /\ row.ready_at = clock /\ row.created_at = clock /\ clock \in Nat
    BY Facts DEF TickInv, Row, RunRow
  <2>4. Earliest(row) \in Nat /\ Earliest(row) <= clock
    BY <2>3, EarliestIs
  <2> HIDE DEF new, row
  <2>5. /\ DOMAIN runs' = DOMAIN runs \union {new}
        /\ runs'[new] = row
        /\ \A x \in DOMAIN runs : x # new => runs'[x] = runs[x]
    BY <2>1, <2>2, <2>3, InsertRow DEF TickInv
  <2>6. new \notin Pending \union DOMAIN runs
    BY <2>0, <2>2
  <2>7. Pending' \subseteq Pending \union DOMAIN runs \union {new}
    BY <1>1, <1>2, <2>1 DEF Pending
  <2>8. OneAttempt'
    BY <2>0, <2>2, <2>5 DEF RetryInv, OneAttempt
  <2>9. NoneAhead'
    <3>1. \A k \in DOMAIN runs : \A l \in DOMAIN runs : k[1] = l[1] => k[2] <= l[2]
      BY KeyTypes, SMTT(60) DEF TickInv, RetryInv, OneAttempt
    <3>2. \A k \in Pending \union DOMAIN runs : \A l \in DOMAIN runs : k[1] = l[1] => k[2] <= l[2]
      BY <3>1 DEF RetryInv, NoneAhead
    <3>3. new[2] <= new[2]
      BY <2>2, SMTT(60)
    <3> QED BY <2>0, <2>2, <2>5, <2>7, <3>2, <3>3 DEF NoneAhead
  <2>10. Scheduled'
    <3>1. tick # NoTick
      BY <1>4
    <3>2. \A k \in Pending \union DOMAIN runs \union {new} : k[1] <= tick
      BY <2>0, <2>2, KeyTypes, SMTT(60) DEF TickInv
    <3> QED BY <2>1, <2>5, <2>7, <3>1, <3>2 DEF Scheduled
  <2>11. DelayedUntilReady'
    BY <1>1, <2>5, <2>6 DEF RetryInv, DelayedUntilReady, Pending
  <2>12. SentWhenReady'
    <3> SUFFICES ASSUME NEW k \in stream' \intersect DOMAIN runs', runs'[k].status = "queued"
                 PROVE  clock >= Earliest(runs'[k])
      BY <1>1 DEF SentWhenReady, Earliest
    <3>1. CASE k = new
      BY <2>3, <2>4, <2>5, <3>1
    <3>2. CASE k # new
      <4>1. k \in (stream \union Orphans) \intersect DOMAIN runs /\ runs'[k] = runs[k]
        BY <2>1, <2>5, <3>2
      <4> QED BY <1>2, <4>1 DEF RetryInv, SentWhenReady
    <3> QED BY <3>1, <3>2
  <2>13. Delays'
    <3> SUFFICES ASSUME NEW k \in DOMAIN runs'
                 PROVE  runs'[k].ready_at = runs'[k].created_at +
                          (IF k[2] = 1 THEN 0 ELSE backoff_seconds(k[2] - 1, retry_backoff_sec))
      BY <1>1 DEF Delays, backoff_seconds
    <3>1. CASE k = new
      BY <2>2, <2>3, <2>5, <3>1, SMTT(60)
    <3>2. CASE k # new
      BY <2>5, <3>2 DEF RetryInv, Delays
    <3> QED BY <3>1, <3>2
  <2> QED BY <2>8, <2>9, <2>10, <2>11, <2>12, <2>13 DEF RetryInv
<1> QED BY <1>3, <1>4

(* claim_run changes the status of a run, and nothing else of it. *)
LEMMA RunsClaim ==
    ASSUME TypeOK, RetryInv, NEW k, Claim(k)
    PROVE  RetryInv'
<1>1. UNCHANGED <<clock, delayed, last_scheduled_for, retry_backoff_sec>> /\ stream' = stream \ {k}
  BY DEF Claim, jobVars
<1>2. DOMAIN runs' = DOMAIN runs /\ \A x \in DOMAIN runs : x # k => runs'[x] = runs[x]
  BY DEF Claim
<1>3. \A x \in DOMAIN runs : /\ runs'[x].ready_at = runs[x].ready_at
                              /\ runs'[x].created_at = runs[x].created_at
  <2>1. \A row \in RunRow : LET new == [row EXCEPT !.status = "running"]
                            IN new.ready_at = row.ready_at /\ new.created_at = row.created_at
    BY DEF RunRow
  <2> QED BY <2>1, RowTypes DEF Claim
<1>4. Pending' \subseteq Pending
  BY <1>1 DEF Pending
<1>5. OneAttempt' /\ NoneAhead' /\ Scheduled' /\ DelayedUntilReady'
  BY <1>1, <1>2, <1>3, <1>4 DEF RetryInv, OneAttempt, NoneAhead, Scheduled, DelayedUntilReady
<1>6. Delays'
  BY <1>1, <1>2, <1>3 DEF RetryInv, Delays, backoff_seconds
<1>7. SentWhenReady'
  BY <1>1, <1>2 DEF RetryInv, SentWhenReady, Earliest
<1> QED BY <1>5, <1>6, <1>7 DEF RetryInv

(* A run that has ended, with no retry, is forgotten. *)
LEMMA RunsEnd ==
    ASSUME TypeOK, RetryInv, NEW k, runs' = Without(k),
           UNCHANGED <<clock, delayed, stream, last_scheduled_for, retry_backoff_sec>>
    PROVE  RetryInv'
<1>1. DOMAIN runs' \subseteq DOMAIN runs /\ \A x \in DOMAIN runs' : runs'[x] = runs[x]
  BY DEF Without, Restrict
<1>2. Pending' = Pending
  BY DEF Pending
<1>3. OneAttempt' /\ NoneAhead' /\ Scheduled' /\ DelayedUntilReady'
  BY <1>1, <1>2 DEF RetryInv, OneAttempt, NoneAhead, Scheduled, DelayedUntilReady
<1>4. Delays'
  BY <1>1 DEF RetryInv, Delays, backoff_seconds
<1>5. SentWhenReady'
  BY <1>1 DEF RetryInv, SentWhenReady, Earliest
<1> QED BY <1>3, <1>4, <1>5 DEF RetryInv

(* _on_failure: the next attempt takes the place of the one that failed.   *)
(* No message of an earlier attempt, and no member of the delayed set, can *)
(* be taken for one of the new attempt.                                    *)
LEMMA RunsRetry ==
    ASSUME TypeOK, RetryInv, NEW k \in DOMAIN runs, Fail(k), k[2] <= MaxRetries,
           NEW retry, retry = <<k[1], k[2] + 1>>,
           NEW row, row = Row(clock + backoff_seconds(k[2], retry_backoff_sec))
    PROVE  RetryInv'
<1> DEFINE delay == backoff_seconds(k[2], retry_backoff_sec)
<1>0. /\ k = <<k[1], k[2]>> /\ k[1] \in Time /\ k[1] \in Nat /\ k[2] \in Nat
      /\ k[2] \in 1..MaxRetries /\ MaxRetries \in Nat /\ clock \in Nat /\ retry_backoff_sec \in Nat
  BY KeyParts, Facts, SchedulerClockAssumption, SMTT(60) DEF TypeOK
<1>1. retry \in RunKey /\ retry[1] = k[1] /\ retry[2] = k[2] + 1 /\ retry # k
  BY <1>0, SMTT(60) DEF RunKey
<1>2. delay \in Nat
  BY <1>0, Backoffs
<1>3. /\ runs' = Insert(Without(k), retry, row)
      /\ delayed' = delayed \union {<<retry, clock + delay>>}
      /\ UNCHANGED <<clock, stream, last_scheduled_for, retry_backoff_sec>>
  BY DEF Fail, jobVars
<1>4. /\ row \in RunRow /\ row.status = "queued" /\ row.created_at = clock
      /\ row.ready_at = clock + delay
  BY <1>2, NewRow DEF Row
<1> HIDE DEF delay
<1>5. /\ DOMAIN runs' = (DOMAIN runs \ {k}) \union {retry}
      /\ runs'[retry] = row
      /\ \A x \in DOMAIN runs \ {k} : x # retry => runs'[x] = runs[x]
  BY <1>1, <1>3, <1>4, ReplaceRow
<1>6. \A x \in DOMAIN runs \ {k} : x[1] # k[1] /\ x # retry
  BY <1>1 DEF RetryInv, OneAttempt
<1>7. \A x \in Pending : x[1] = k[1] => x[2] <= k[2]
  BY DEF RetryInv, NoneAhead
<1>8. retry \notin Pending
  BY <1>0, <1>1, <1>7, SMTT(60)
<1>9. Pending' = Pending \union {retry}
  <2>1. <<retry, clock + delay>>[1] = retry
    OBVIOUS
  <2>2. \A d : d \in delayed' <=> d \in delayed \/ d = <<retry, clock + delay>>
    BY <1>3
  <2>3. \A x : x \in Pending <=> x \in stream \/ \E d \in delayed : x = d[1]
    BY DEF Pending
  <2>4. \A x : x \in Pending' <=> x \in stream' \/ \E d \in delayed' : x = d[1]
    BY DEF Pending
  <2>5. \A x : x \in Pending' <=> x \in Pending \/ x = retry
    <3>1. stream' = stream
      BY <1>3
    <3> QED BY <2>1, <2>2, <2>3, <2>4, <3>1
  <2> QED BY <2>5
<1>10. OneAttempt'
  BY <1>1, <1>5, <1>6 DEF RetryInv, OneAttempt
<1>11. NoneAhead'
  <2> SUFFICES ASSUME NEW x \in Pending', NEW y \in DOMAIN runs', x[1] = y[1]
               PROVE  x[2] <= y[2]
    BY DEF NoneAhead
  <2>1. CASE y = retry
    <3>1. CASE x = retry
      BY <1>0, <1>1, <2>1, <3>1, SMTT(60)
    <3>2. CASE x # retry
      <4>1. x \in Pending /\ x[1] = k[1] /\ x[2] \in Nat
        BY <1>1, <1>9, <2>1, <3>2, KeyTypes
      <4> QED BY <1>0, <1>1, <1>7, <2>1, <4>1, SMTT(60)
    <3> QED BY <3>1, <3>2
  <2>2. CASE y # retry
    BY <1>1, <1>5, <1>6, <1>9, <2>2 DEF RetryInv, NoneAhead
  <2> QED BY <2>1, <2>2
<1>12. Scheduled'
  BY <1>1, <1>3, <1>5, <1>9 DEF RetryInv, Scheduled
<1>13. DelayedUntilReady'
  <2> SUFFICES ASSUME NEW d \in delayed', d[1] \in DOMAIN runs'
               PROVE  d[2] = runs'[d[1]].ready_at
    BY DEF DelayedUntilReady
  <2>1. CASE d = <<retry, clock + delay>>
    BY <1>4, <1>5, <2>1
  <2>2. CASE d # <<retry, clock + delay>>
    <3>1. d \in delayed /\ d[1] # retry
      BY <1>3, <1>8, <2>2 DEF Pending
    <3> QED BY <1>5, <3>1 DEF RetryInv, DelayedUntilReady
  <2> QED BY <2>1, <2>2
<1>14. SentWhenReady'
  BY <1>3, <1>5, <1>8, SMTT(60) DEF RetryInv, SentWhenReady, Earliest, Pending
<1>15. Delays'
  <2> SUFFICES ASSUME NEW x \in DOMAIN runs'
               PROVE  runs'[x].ready_at = runs'[x].created_at +
                        (IF x[2] = 1 THEN 0 ELSE backoff_seconds(x[2] - 1, retry_backoff_sec))
    BY <1>3 DEF Delays, backoff_seconds
  <2>1. CASE x = retry
    <3>1. retry[2] # 1 /\ retry[2] - 1 = k[2]
      BY <1>0, <1>1, SMTT(60)
    <3> QED BY <1>4, <1>5, <2>1, <3>1 DEF delay
  <2>2. CASE x # retry
    BY <1>5, <2>2 DEF RetryInv, Delays
  <2> QED BY <2>1, <2>2
<1> QED BY <1>10, <1>11, <1>12, <1>13, <1>14, <1>15 DEF RetryInv

(* No retry: the attempts are used up. *)
LEMMA RunsFail ==
    ASSUME TypeOK, RetryInv, NEW k \in DOMAIN runs, Fail(k)
    PROVE  RetryInv'
<1>1. CASE k[2] <= MaxRetries
  BY <1>1, RunsRetry
<1>2. CASE ~(k[2] <= MaxRetries)
  <2>1. /\ runs' = Without(k)
        /\ UNCHANGED <<clock, delayed, stream, last_scheduled_for, retry_backoff_sec>>
    BY <1>2 DEF Fail, jobVars
  <2> QED BY <2>1, RunsEnd
<1> QED BY <1>1, <1>2

-----------------------------------------------------------------------------
(* The theorems.                                                           *)

(* The invariants hold at the start. *)
LEMMA InitInv == Init => TickInv /\ RetryInv
<1> SUFFICES ASSUME Init PROVE TickInv /\ RetryInv
  OBVIOUS
<1>0. /\ Horizon \in Nat /\ MaxClock \in 0..Horizon /\ NoTick \notin Nat /\ Created \subseteq 0..MaxClock
      /\ MaxFailures \in Nat /\ MaxUpdates \in Nat
  BY CronAssumption, SchedulerClockAssumption DEF Time
<1>1. TypeOK
  BY <1>0, SMTT(60) DEF Init, TypeOK, Range
<1>2. Selection /\ LoopAtDueTick /\ NothingSelected /\ CatchUpIsLatest /\ TicksDoNotDrift
  BY DEF Init, Selection, LoopAtDueTick, NothingSelected, CatchUpIsLatest, TicksDoNotDrift
<1>3. DOMAIN runs = {} /\ Pending = {}
  BY DEF Init, Pending
<1>4. RetryInv
  BY <1>3 DEF Init, RetryInv, OneAttempt, NoneAhead, Scheduled, DelayedUntilReady, SentWhenReady,
              Delays
<1> QED BY <1>1, <1>2, <1>4 DEF TickInv

(* Every step keeps the invariants. *)
LEMMA NextInv == TickInv /\ RetryInv /\ [Next]_vars => TickInv' /\ RetryInv'
<1> SUFFICES ASSUME TickInv, RetryInv, [Next]_vars PROVE TickInv' /\ RetryInv'
  OBVIOUS
<1>0. TypeOK /\ clock \in Nat /\ clock <= clock /\ MaxClock \in Nat /\ MaxUpdates \in Nat
  BY Facts, SchedulerClockAssumption, SMTT(60) DEF TickInv
<1> DEFINE Quiet == UNCHANGED <<runVars, queueVars, retry_backoff_sec, clock>>
<1>1. ASSUME TypeOK', TickRest' PROVE TickInv'
  BY <1>1 DEF TickInv, TickRest
<1>2. ASSUME Quiet PROVE RetryInv'
  BY <1>0, <1>2, RunsSame
<1>3. CASE StartTick
  BY <1>0, <1>1, <1>3, TypeLeader, StartTickResult, RunsStart DEF LeaderStep
<1>4. CASE First
  BY <1>1, <1>2, <1>4, TypeLeader, FirstResult DEF LeaderStep, First, jobVars
<1>5. CASE Loop
  BY <1>1, <1>2, <1>5, TypeLeader, LoopResult DEF LeaderStep, Loop, jobVars
<1>6. CASE WriteRuns
  BY <1>1, <1>6, TypeLeader, WriteRunsResult, RunsWrite DEF LeaderStep
<1>7. CASE TickRaises
  <2>1. Quiet /\ UNCHANGED <<schedule, created_at, updates, last_scheduled_for>> /\ EndTick
    BY <1>7 DEF TickRaises, jobVars, runVars
  <2>2. TicksDoNotDrift'
    BY <2>1 DEF TickInv, TicksDoNotDrift
  <2>3. TypeOK' /\ RetryInv'
    BY <1>2, <1>7, <2>1, TypeLeader DEF LeaderStep
  <2> QED BY <1>1, <2>1, <2>2, <2>3, EndTickResult DEF TickRest
<1>8. CASE \E k \in stream : Claim(k)
  <2>1. PICK k : Claim(k)
    BY <1>8
  <2>2. TypeOK' /\ RetryInv'
    BY <1>0, <2>1, TypeWorker, RunsClaim
  <2>3. UNCHANGED <<schedule, created_at, updates, last_scheduled_for, clock, tickVars>>
    BY <2>1 DEF Claim, jobVars
  <2> QED BY <1>0, <1>1, <2>2, <2>3, TickSame
<1>9. CASE \E k \in DOMAIN runs : Succeed(k) \/ Fail(k)
  <2>1. PICK k \in DOMAIN runs : Succeed(k) \/ Fail(k)
    BY <1>9
  <2>2. TypeOK'
    BY <1>0, <2>1, TypeWorker
  <2>3. UNCHANGED <<schedule, created_at, updates, last_scheduled_for, clock, tickVars>>
    BY <2>1 DEF Succeed, Fail, jobVars
  <2>4. RetryInv'
    <3>1. CASE Succeed(k)
      <4>1. /\ runs' = Without(k)
            /\ UNCHANGED <<clock, delayed, stream, last_scheduled_for, retry_backoff_sec>>
        BY <3>1 DEF Succeed, jobVars, queueVars
      <4> QED BY <1>0, <4>1, RunsEnd
    <3>2. CASE Fail(k)
      BY <1>0, <3>2, RunsFail
    <3> QED BY <2>1, <3>1, <3>2
  <2> QED BY <1>0, <1>1, <2>2, <2>3, <2>4, TickSame
<1>10. CASE update_job
  <2>1. /\ UNCHANGED <<created_at, last_scheduled_for, clock, tickVars>> /\ Quiet
        /\ updates' = updates + 1 /\ updates < MaxUpdates
    BY <1>10 DEF update_job, runVars
  <2>2. TypeOK'
    BY <1>0, <1>10, <2>1, SMTT(60) DEF TypeOK, update_job, runVars, queueVars, tickVars
  <2>3. updates' > 0
    BY <2>1, SMTT(60) DEF TickInv, TypeOK
  <2> QED BY <1>0, <1>1, <1>2, <2>1, <2>2, <2>3, TickSame
<1>11. CASE ClockTick
  <2>1. /\ UNCHANGED <<created_at, last_scheduled_for, schedule, updates, tickVars>>
        /\ UNCHANGED <<runVars, queueVars, retry_backoff_sec>>
        /\ clock' \in Nat /\ clock <= clock'
    BY <1>0, <1>11, SMTT(60) DEF ClockTick, jobVars, runVars
  <2>2. TypeOK'
    BY <1>0, <1>11, SMTT(60) DEF TypeOK, ClockTick, jobVars, runVars, queueVars, tickVars
  <2> QED BY <1>0, <1>1, <2>1, <2>2, TickSame, RunsSame
<1>12. CASE UNCHANGED vars
  <2>1. /\ UNCHANGED <<created_at, last_scheduled_for, schedule, updates, clock, tickVars>> /\ Quiet
    BY <1>12 DEF vars, jobVars, runVars
  <2>2. TypeOK'
    BY <1>12 DEF TickInv, TypeOK, vars, jobVars, runVars, queueVars, tickVars
  <2> QED BY <1>0, <1>1, <1>2, <2>1, <2>2, TickSame
<1> QED BY <1>3, <1>4, <1>5, <1>6, <1>7, <1>8, <1>9, <1>10, <1>11, <1>12 DEF Next, LeaderStep

(* The invariants hold in every reachable state. *)
LEMMA ClockInvariant == Spec => [](TickInv /\ RetryInv)
BY InitInv, NextInv, PTL DEF Spec

(* due_tick's catch-up, for every period, every poll and every change of   *)
(* the schedule.                                                           *)
THEOREM CatchUpCorrect == Spec => []CatchUpIsLatest
<1>1. TickInv => CatchUpIsLatest
  BY DEF TickInv
<1> QED BY <1>1, ClockInvariant, PTL

(* While nobody edits the job, the ticks of an interval are created_at     *)
(* plus multiples of the interval: they are counted from the last tick and *)
(* not from the time that tick() gets to it.                               *)
THEOREM NoDrift == Spec => []TicksDoNotDrift
<1>1. TickInv => TicksDoNotDrift
  BY DEF TickInv
<1> QED BY <1>1, ClockInvariant, PTL

(* A run starts by claim_run only. *)
LEMMA RetryStep ==
    ASSUME TickInv, RetryInv, [Next]_vars,
           NEW k \in DOMAIN runs \intersect DOMAIN runs',
           runs[k].status = "queued", runs'[k].status = "running"
    PROVE  clock >= Earliest(runs[k])
<1>1. runs'[k] # runs[k] /\ runs' # runs
  OBVIOUS
<1>2. CASE WriteRuns
  <2>1. tick # NoTick /\ runs' = Insert(runs, <<tick, 1>>, Row(clock))
    BY <1>1, <1>2 DEF WriteRuns, Commit
  <2>2. runs'[k] = IF k = <<tick, 1>> THEN Row(clock) ELSE runs[k]
    BY <2>1 DEF Insert
  <2> QED BY <1>1, <2>2, SMTT(60) DEF Row
<1>3. CASE \E l \in stream : Claim(l)
  <2>1. PICK l \in stream : Claim(l)
    BY <1>3
  <2>2. k = l
    BY <1>1, <2>1 DEF Claim
  <2> QED BY <2>1, <2>2 DEF RetryInv, SentWhenReady
<1>4. CASE \E l \in DOMAIN runs : Succeed(l) \/ Fail(l)
  <2>1. PICK l \in DOMAIN runs : Succeed(l) \/ Fail(l)
    BY <1>4
  <2>2. CASE runs' = Without(l)
    BY <1>1, <2>2 DEF Without, Restrict
  <2>3. CASE Fail(l) /\ l[2] <= MaxRetries
    <3> DEFINE retry == <<l[1], l[2] + 1>>
               row == Row(clock + backoff_seconds(l[2], retry_backoff_sec))
    <3>1. runs' = Insert(Without(l), retry, row)
      BY <2>3 DEF Fail
    <3>2. row.status = "queued"
      BY DEF Row
    <3> HIDE DEF retry, row
    <3>3. runs'[k] = IF k = retry THEN row ELSE runs[k]
      BY <3>1 DEF Insert, Without, Restrict
    <3> QED BY <1>1, <3>2, <3>3
  <2> QED BY <2>1, <2>2, <2>3 DEF Succeed, Fail
<1>5. CASE UNCHANGED runs
  BY <1>1, <1>5
<1> QED BY <1>2, <1>3, <1>4, <1>5 DEF Next, LeaderStep, StartTick, First, Loop, TickRaises, update_job,
           ClockTick, vars, runVars

(* No retry starts before its backoff is over, unless requeue_orphans      *)
(* takes it for an orphan.                                                 *)
THEOREM RetriesWait == Spec => RetryNotEarly
<1>1. TickInv /\ RetryInv /\ [Next]_vars =>
        [\A k \in DOMAIN runs \intersect DOMAIN runs' :
           runs[k].status = "queued" /\ runs'[k].status = "running" =>
              clock >= Min({runs[k].ready_at, runs[k].created_at + OrphanAfter + 1})]_vars
  BY RetryStep DEF Earliest
<1> QED BY <1>1, ClockInvariant, PTL DEF Spec, RetryNotEarly

(* A row of the next attempt appears when the attempt before it fails. *)
LEMMA BackoffStep ==
    ASSUME TickInv, RetryInv, [Next]_vars,
           NEW k \in DOMAIN runs, NEW retry \in DOMAIN runs', retry = <<k[1], k[2] + 1>>
    PROVE  runs'[retry].ready_at - runs'[retry].created_at =
             Min({BackoffMax, IF k[2] = 1 THEN retry_backoff_sec
                              ELSE 2 * (runs[k].ready_at - runs[k].created_at)})
<1>0. /\ TypeOK /\ k = <<k[1], k[2]>> /\ k[2] \in 1..(MaxRetries + 1) /\ k[2] \in Nat
      /\ MaxRetries \in Nat /\ retry_backoff_sec \in Nat
      /\ runs[k].ready_at \in Nat /\ runs[k].created_at \in Nat
  BY KeyParts, SchedulerClockAssumption DEF TickInv, TypeOK
<1>1. retry # k /\ retry[1] = k[1] /\ retry[2] = k[2] + 1 /\ retry[2] # 1
  BY <1>0, SMTT(60)
<1>2. retry \notin DOMAIN runs
  BY <1>1 DEF RetryInv, OneAttempt
<1>3. PICK l \in DOMAIN runs : Fail(l) /\ l[2] <= MaxRetries /\ retry = <<l[1], l[2] + 1>>
  <2>1. CASE WriteRuns
    <3>1. retry = <<tick, 1>>
      BY <1>2, <2>1 DEF WriteRuns, Commit, Insert
    <3> QED BY <1>1, <3>1, SMTT(60)
  <2>2. CASE \E l \in stream : Claim(l)
    BY <1>2, <2>2 DEF Claim
  <2>3. CASE \E l \in DOMAIN runs : Succeed(l) \/ Fail(l)
    <3>1. PICK l \in DOMAIN runs : Succeed(l) \/ Fail(l)
      BY <2>3
    <3>2. runs' # Without(l)
      BY <1>2 DEF Without, Restrict
    <3>3. Fail(l) /\ l[2] <= MaxRetries
      BY <3>1, <3>2 DEF Succeed, Fail
    <3> DEFINE row == Row(clock + backoff_seconds(l[2], retry_backoff_sec))
    <3>4. runs' = Insert(Without(l), <<l[1], l[2] + 1>>, row)
      BY <3>3 DEF Fail
    <3> HIDE DEF row
    <3>5. retry = <<l[1], l[2] + 1>>
      BY <1>2, <3>4 DEF Insert, Without, Restrict
    <3> QED BY <3>1, <3>3, <3>5
  <2>4. CASE UNCHANGED runs
    BY <1>2, <2>4
  <2> QED BY <2>1, <2>2, <2>3, <2>4 DEF Next, LeaderStep, StartTick, First, Loop, TickRaises,
             update_job, ClockTick, vars, runVars
<1>4. l = k
  <2>1. l[1] = k[1]
    BY <1>1, <1>3, SMTT(60)
  <2> QED BY <2>1 DEF RetryInv, OneAttempt
<1>5. k[2] \in 1..MaxRetries /\ Fail(k) /\ k[2] <= MaxRetries
  BY <1>0, <1>3, <1>4, SMTT(60)
<1> DEFINE B(n) == backoff_seconds(n, retry_backoff_sec)
<1>6. runs'[retry].ready_at - runs'[retry].created_at = B(k[2])
  <2> DEFINE row == Row(clock + B(k[2]))
  <2>1. runs' = Insert(Without(k), retry, row)
    BY <1>5 DEF Fail
  <2>2. B(k[2]) \in Nat /\ clock \in Nat
    <3>1. clock \in Nat
      BY <1>0, Facts
    <3> QED BY <1>0, <1>5, <3>1, Backoffs
  <2> HIDE DEF B
  <2>3. row.ready_at = clock + B(k[2]) /\ row.created_at = clock
    BY DEF Row
  <2> HIDE DEF row
  <2>4. runs'[retry] = row
    BY <2>1 DEF Insert
  <2> QED BY <2>2, <2>3, <2>4, SMTT(60)
<1>7. B(k[2]) = Min({BackoffMax, IF k[2] = 1 THEN retry_backoff_sec ELSE 2 * B(k[2] - 1)})
  BY <1>0, <1>5, Backoffs
<1>8. ASSUME k[2] # 1 PROVE B(k[2] - 1) = runs[k].ready_at - runs[k].created_at
  <2>1. k[2] - 1 \in 1..MaxRetries
    BY <1>0, <1>5, <1>8, SMTT(60)
  <2>2. B(k[2] - 1) \in Nat
    BY <1>0, <2>1, Backoffs
  <2>3. runs[k].ready_at = runs[k].created_at + B(k[2] - 1)
    BY <1>8 DEF RetryInv, Delays
  <2> HIDE DEF B
  <2> QED BY <1>0, <2>2, <2>3, SMTT(60)
<1> HIDE DEF B
<1> QED BY <1>6, <1>7, <1>8

(* The delay doubles from one attempt to the next until it meets           *)
(* retry_backoff_max_sec.                                                  *)
THEOREM RetriesBackOff == Spec => BackoffDoubles
<1> DEFINE Doubles ==
             \A k \in DOMAIN runs : <<k[1], k[2] + 1>> \in DOMAIN runs' =>
               LET delay(row) == row.ready_at - row.created_at
               IN delay(runs'[<<k[1], k[2] + 1>>]) =
                    Min({BackoffMax, IF k[2] = 1 THEN retry_backoff_sec ELSE 2 * delay(runs[k])})
<1>1. TickInv /\ RetryInv /\ [Next]_vars => Doubles
  <2> SUFFICES ASSUME TickInv, RetryInv, [Next]_vars, NEW k \in DOMAIN runs,
                      NEW retry \in DOMAIN runs', retry = <<k[1], k[2] + 1>>
               PROVE  runs'[retry].ready_at - runs'[retry].created_at =
                        Min({BackoffMax, IF k[2] = 1 THEN retry_backoff_sec
                                         ELSE 2 * (runs[k].ready_at - runs[k].created_at)})
    OBVIOUS
  <2> QED BY BackoffStep
<1> QED BY <1>1, ClockInvariant, PTL DEF Spec, BackoffDoubles
=============================================================================
