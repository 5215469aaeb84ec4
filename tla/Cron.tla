-------------------------------- MODULE Cron --------------------------------
(***************************************************************************)
(* backend/scheduler/cron.py: the next fire time of a schedule, and the    *)
(* latest one that is due.                                                 *)
(*                                                                         *)
(* Times are numbers of seconds.  A cron expression stands for the         *)
(* multiples of its period (fixed points in time, whatever the anchor); an *)
(* interval counts from the anchor.  Zones and the calendar are croniter's *)
(* business and are left out.  datetime ends at Horizon: an addition that  *)
(* would pass it raises OverflowError, and the digits of schedule_expr are *)
(* not bounded by the schema.                                              *)
(***************************************************************************)
EXTENDS Naturals

CONSTANTS
    Horizon,        \* datetime.max
    NoTick,         \* None
    Raises          \* the call raises

ASSUME CronAssumption ==
    /\ Horizon \in Nat
    /\ NoTick \notin Nat
    /\ Raises \notin Nat \union {NoTick}

Time == 0..Horizon

(* JobBase._validate_schedule_expr lets any positive number through. *)
Schedule == [type : {"cron", "interval"}, seconds : Nat \ {0}]

(* Mutant of next_run_time: the time itself may be returned. *)
next_run_time_not_strict(s, after) ==
    LET nxt == IF s.type = "cron"
               THEN ((after + s.seconds - 1) \div s.seconds) * s.seconds
               ELSE after + s.seconds
    IN IF nxt > Horizon THEN Raises ELSE nxt

(* The next fire time strictly after a time. *)
next_run_time(s, after) ==
    LET nxt == IF s.type = "cron"
               THEN (after \div s.seconds + 1) * s.seconds
               ELSE after + s.seconds
    IN IF nxt > Horizon THEN Raises ELSE nxt

(* The loop of due_tick, as the function from a due tick to its result. *)
due_tick(s, base, now) ==
    LET first == next_run_time(s, base)
        loop[tick \in Time] ==
            LET nxt == next_run_time(s, tick)
            IN IF nxt = Raises THEN Raises
               ELSE IF nxt > now THEN tick ELSE loop[nxt]
    IN IF first = Raises THEN Raises
       ELSE IF first > now THEN NoTick ELSE loop[first]

(* What due_tick promises: the fire times after base and up to now. *)
FireTimes(s, base, now) ==
    {t \in (base + 1)..now : IF s.type = "cron" THEN t % s.seconds = 0
                             ELSE (t - base) % s.seconds = 0}

IsLatestDue(s, base, now, tick) ==
    LET due == FireTimes(s, base, now)
    IN IF due = {} THEN tick = NoTick ELSE tick \in due /\ \A t \in due : t <= tick
=============================================================================
