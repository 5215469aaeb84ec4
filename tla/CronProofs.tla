----------------------------- MODULE CronProofs -----------------------------
(***************************************************************************)
(* due_tick of backend/scheduler/cron.py, for every schedule and all       *)
(* times: its loop ends, and with the latest due time.                     *)
(*                                                                         *)
(* due_tick is a recursive function, and TLA+ takes a function that        *)
(* satisfies the equation only if there is one: that is CatchUpExists.     *)
(* Both it and the result of the loop are proved by induction in the form  *)
(* of a least counterexample.                                              *)
(***************************************************************************)
EXTENDS Cron, WellFoundedInduction, TLAPS

USE SMTT(60)

(* The loop of due_tick as a function of the due tick it starts from. *)
Round(s, now, f, tick) ==
    LET nxt == next_run_time(s, tick)
    IN IF nxt = Raises THEN Raises
       ELSE IF nxt > now THEN tick ELSE f[nxt]

(* The function that the loop computes. *)
CatchUp(s, now) ==
    LET loop[tick \in Time] == Round(s, now, loop, tick)
    IN loop

(* due_tick in terms of it. *)
LEMMA DueTickDef ==
    ASSUME NEW s, NEW base, NEW now
    PROVE  due_tick(s, base, now) =
             LET first == next_run_time(s, base)
             IN IF first = Raises THEN Raises
                ELSE IF first > now THEN NoTick ELSE CatchUp(s, now)[first]
BY Zenon DEF due_tick, CatchUp, Round

-----------------------------------------------------------------------------
(* Arithmetic. *)

(* A set of numbers that is not empty has a least member: this is how the  *)
(* proofs below do induction.                                              *)
LEMMA Least ==
    ASSUME NEW T, T \subseteq Nat, T # {}
    PROVE  \E x \in T : \A y \in T : x <= y
<1> DEFINE R == OpToRel(<, Nat)
<1>0. \A x, y \in Nat : x < y => <<x,y>> \in R
  BY Zenon DEF OpToRel
<1>1. IsWellFoundedOn(R, Nat)
  BY NatLessThanWellFounded, Zenon
<1> HIDE DEF R
<1>2. PICK x \in T : \A y \in T : ~(<<y, x>> \in R)
  BY <1>1, WFMin, Zenon
<1>3. \A y \in T : ~(y < x)
  BY <1>2, <1>0, ZenonT(60)
<1> QED BY <1>3

(* Quotient and remainder. *)
LEMMA Division ==
    ASSUME NEW a \in Int, NEW d \in Int, d > 0
    PROVE  a = (a \div d) * d + (a % d)
OBVIOUS

(* Quotient and remainder of natural numbers. *)
LEMMA DivMod ==
    ASSUME NEW a \in Nat, NEW d \in Nat, d > 0
    PROVE  /\ a \div d \in Nat /\ a % d \in 0..(d - 1)
           /\ a = (a \div d) * d + (a % d)
<1>1. a \div d \in Nat
  OBVIOUS
<1>0. a % d \in 0..(d - 1)
  OBVIOUS
<1>2. a \in Int /\ d \in Int
  OBVIOUS
<1>3. a = (a \div d) * d + (a % d)
  BY <1>2, Division, ZenonT(60)
<1> QED BY <1>0, <1>1, <1>3

(* The next multiple. *)
LEMMA Mul ==
    ASSUME NEW d \in Nat, NEW p \in Nat
    PROVE  p * d \in Nat /\ (p + 1) * d = p * d + d
OBVIOUS

(* Multiples grow. *)
LEMMA MulMono ==
    ASSUME NEW d \in Nat, NEW p \in Nat, NEW q \in Nat, p <= q
    PROVE  p * d <= q * d
OBVIOUS

(* A multiple leaves no remainder. *)
LEMMA Multiple ==
    ASSUME NEW d \in Nat, d > 0, NEW q \in Nat
    PROVE  (q * d) % d = 0
OBVIOUS

(* What leaves no remainder is a multiple. *)
LEMMA ExactQuotient ==
    ASSUME NEW d \in Nat, d > 0, NEW a \in Nat, a % d = 0
    PROVE  \E q \in Nat : a = q * d
<1> DEFINE q == a \div d
<1>1. q \in Nat /\ a = q * d + 0
  BY DivMod, ZenonT(60)
<1>2. q * d \in Nat
  BY <1>1, Mul
<1> HIDE DEF q
<1> QED BY <1>1, <1>2

(* There is no multiple between two neighbours. *)
LEMMA NoMultipleBetween ==
    ASSUME NEW d \in Nat, d > 0, NEW q \in Nat, NEW t \in Nat, t % d = 0, q * d < t
    PROVE  q * d + d <= t
<1>1. t \div d \in Nat /\ t = (t \div d) * d
  BY DivMod
<1>2. CASE t \div d <= q
  BY <1>1, <1>2, MulMono
<1>3. CASE q + 1 <= t \div d
  <2>1. (q + 1) * d <= (t \div d) * d
    BY <1>1, <1>3, MulMono
  <2> QED BY <1>1, <2>1, Mul
<1> QED BY <1>1, <1>2, <1>3

-----------------------------------------------------------------------------
(* next_run_time, and the end of datetime.                                 *)

(* A fire time counted from base, with no regard to the present. *)
Fires(s, base, t) ==
    IF s.type = "cron" THEN t % s.seconds = 0 ELSE (t - base) % s.seconds = 0

(* The time that next_run_time computes before datetime refuses it. *)
Following(s, after) ==
    IF s.type = "cron" THEN (after \div s.seconds + 1) * s.seconds ELSE after + s.seconds

(* next_run_time raises past the end of datetime. *)
LEMMA NextRunTime ==
    ASSUME NEW s, NEW t
    PROVE  next_run_time(s, t) = IF Following(s, t) > Horizon THEN Raises ELSE Following(s, t)
BY DEF next_run_time, Following

(* The next fire time is strictly later. *)
LEMMA FollowingIsLater ==
    ASSUME NEW s \in Schedule, NEW t \in Nat
    PROVE  Following(s, t) \in Nat /\ Following(s, t) > t
<1> DEFINE d == s.seconds
<1>1. d \in Nat /\ d > 0
  BY DEF Schedule
<1>2. (t \div d + 1) * d \in Nat /\ (t \div d + 1) * d > t
  <2> HIDE DEF d
  <2>1. (t \div d + 1) * d = (t \div d) * d + d /\ (t \div d) * d \in Nat
    BY <1>1, DivMod, Mul
  <2> QED BY <1>1, <2>1, DivMod
<1> QED BY <1>1, <1>2 DEF Following

(* What next_run_time returns is strictly later, so that the loop of       *)
(* due_tick makes progress.                                                *)
LEMMA NextIsLater ==
    ASSUME NEW s \in Schedule, NEW t \in Nat
    PROVE  next_run_time(s, t) = Raises \/ next_run_time(s, t) \in (t + 1)..Horizon
BY FollowingIsLater, NextRunTime, CronAssumption

(* From base, or from a fire time after it, no fire time is skipped. *)
LEMMA FollowingIsNext ==
    ASSUME NEW s \in Schedule, NEW base \in Nat, NEW t \in Nat,
           t = base \/ (base < t /\ Fires(s, base, t))
    PROVE  /\ Fires(s, base, Following(s, t))
           /\ \A u \in Nat : t < u /\ Fires(s, base, u) => Following(s, t) <= u
<1> DEFINE d == s.seconds
<1>1. d \in Nat /\ d > 0
  BY DEF Schedule
<1>2. CASE s.type = "cron"
  <2>1. Following(s, t) = (t \div d + 1) * d
    BY <1>2 DEF Following
  <2>2. t \div d \in Nat /\ t % d \in 0..(d - 1) /\ t = (t \div d) * d + (t % d)
    <3> HIDE DEF d
    <3> QED BY <1>1, DivMod
  <2>3. (t \div d + 1) * d = (t \div d) * d + d /\ (t \div d) * d \in Nat
        /\ ((t \div d + 1) * d) % d = 0
    <3> HIDE DEF d
    <3>1. t \div d + 1 \in Nat
      BY <2>2
    <3>2. ((t \div d + 1) * d) % d = 0
      BY <1>1, <3>1, Multiple, ZenonT(60)
    <3> QED BY <1>1, <2>2, <3>2, Mul
  <2>4. ASSUME NEW u \in Nat, t < u, u % d = 0 PROVE (t \div d + 1) * d <= u
    <3> HIDE DEF d
    <3>1. (t \div d) * d < u
      BY <2>2, <2>3, <2>4
    <3>2. (t \div d) * d + d <= u
      BY <1>1, <2>2, <2>4, <3>1, NoMultipleBetween, ZenonT(60)
    <3> QED BY <2>3, <3>2
  <2> QED BY <1>2, <2>1, <2>3, <2>4 DEF Fires
<1>3. CASE s.type # "cron"
  <2>1. Following(s, t) = t + d
    BY <1>3 DEF Following
  <2>2. t - base \in Nat /\ (t - base) % d = 0
    BY <1>1, <1>3 DEF Fires
  <2>3. PICK q \in Nat : t - base = q * d
    <3> HIDE DEF d
    <3> QED BY <1>1, <2>2, ExactQuotient, ZenonT(60)
  <2>4. (t + d) - base = (q + 1) * d /\ ((q + 1) * d) % d = 0
    <3> HIDE DEF d
    <3> QED BY <1>1, <2>3, Mul, Multiple
  <2>5. ASSUME NEW u \in Nat, t < u, (u - base) % d = 0 PROVE t + d <= u
    <3> HIDE DEF d
    <3>1. u - base \in Nat /\ q * d < u - base
      BY <2>2, <2>3, <2>5
    <3> QED BY <1>1, <2>3, <2>5, <3>1, NoMultipleBetween
  <2> QED BY <1>3, <2>1, <2>4, <2>5 DEF Fires
<1> QED BY <1>2, <1>3

-----------------------------------------------------------------------------
(* The loop of due_tick is well defined.                                   *)

(* The loop ends: each round moves on, and datetime has an end.  By        *)
(* induction from the horizon down.                                        *)
LEMMA CatchUpExists ==
    ASSUME NEW s \in Schedule, NEW now \in Nat
    PROVE  \E f : f = [tick \in Time |-> Round(s, now, f, tick)]
<1>h. Horizon \in Nat
  BY CronAssumption
<1> DEFINE Good(n) == \E f : f = [tick \in n..Horizon |-> Round(s, now, f, tick)]
           T == {n \in 0..(Horizon + 1) : Good(n)}
<1>1. Horizon + 1 \in T
  <2>1. [tick \in (Horizon + 1)..Horizon |-> 0] = [tick \in (Horizon + 1)..Horizon |->
           Round(s, now, [tck \in (Horizon + 1)..Horizon |-> 0], tick)]
    BY <1>h
  <2> QED BY <1>h, <2>1
<1>2. PICK n \in T : \A m \in T : n <= m
  <2> HIDE DEF T
  <2>1. T # {} /\ T \subseteq Nat
    BY <1>1, <1>h DEF T
  <2> QED BY <2>1, Least, ZenonT(60)
<1>3. CASE n # 0
  <2>1. n - 1 \in Time /\ n \in 1..(Horizon + 1)
    BY <1>3, <1>h DEF Time
  <2>2. PICK g : g = [tick \in n..Horizon |-> Round(s, now, g, tick)]
    BY <1>2
  <2> DEFINE f == [tick \in (n - 1)..Horizon |->
                     IF tick = n - 1 THEN Round(s, now, g, tick) ELSE g[tick]]
  <2>3. ASSUME NEW tick \in (n - 1)..Horizon PROVE f[tick] = Round(s, now, f, tick)
    <3>1. tick \in Time
      BY <2>1, <1>h DEF Time
    <3>2. next_run_time(s, tick) = Raises \/ next_run_time(s, tick) \in n..Horizon
      BY <3>1, <2>1, <1>h, NextIsLater DEF Time
    <3>3. Round(s, now, f, tick) = Round(s, now, g, tick)
      BY <3>2, <2>1, <1>h DEF Round
    <3>4. tick \in n..Horizon => g[tick] = Round(s, now, g, tick)
      <4> HIDE DEF f
      <4> QED BY <2>2, ZenonT(60)
    <3>5. f[tick] = IF tick = n - 1 THEN Round(s, now, g, tick) ELSE g[tick]
      OBVIOUS
    <3> HIDE DEF f
    <3> QED BY <3>3, <3>4, <3>5, <2>1, <1>h
  <2>4. f = [tick \in (n - 1)..Horizon |-> Round(s, now, f, tick)]
    BY <2>3, ZenonT(60)
  <2>5. n - 1 \in T
    <3>1. n - 1 \in 0..(Horizon + 1)
      BY <2>1, <1>h
    <3>2. Good(n - 1)
      BY <2>4, ZenonT(60)
    <3> HIDE DEF Good
    <3> QED BY <3>1, <3>2
  <2> QED BY <1>2, <2>1, <2>5
<1>4. CASE n = 0
  BY <1>2, <1>4 DEF Time
<1> QED BY <1>3, <1>4

(* So the function satisfies its equation. *)
LEMMA CatchUpDef ==
    ASSUME NEW s \in Schedule, NEW now \in Nat,
           NEW tick \in Time
    PROVE  CatchUp(s, now)[tick] = Round(s, now, CatchUp(s, now), tick)
<1> DEFINE P(f) == f = [t \in Time |-> Round(s, now, f, t)]
<1>1. \E f : P(f)
  BY CatchUpExists, ZenonT(60)
<1>2. CatchUp(s, now) = CHOOSE f : P(f)
  BY DEF CatchUp
<1>3. P(CatchUp(s, now))
  <2> HIDE DEF P
  <2> QED BY <1>1, <1>2, ZenonT(60)
<1> QED BY <1>3, ZenonT(60)

-----------------------------------------------------------------------------
(* due_tick                                                                *)

(* The last time that due_tick looks at: the latest due tick, or base. *)
IsLast(s, base, now, t) ==
    /\ t \in FireTimes(s, base, now) \union {base}
    /\ \A u \in FireTimes(s, base, now) \union {base} : u <= t

(* The loop stops at the latest due time. *)
LEMMA RoundEnds ==
    ASSUME NEW s \in Schedule, NEW base \in Nat, NEW now \in Time,
           NEW t \in FireTimes(s, base, now) \union {base},
           next_run_time(s, t) = Raises \/ next_run_time(s, t) > now
    PROVE  IsLast(s, base, now, t)
<1>1. t \in Nat /\ now \in Nat /\ now <= Horizon /\ Horizon \in Nat
  BY CronAssumption DEF FireTimes, Time
<1>2. t = base \/ (base < t /\ Fires(s, base, t))
  BY <1>1 DEF FireTimes, Fires
<1>3. Following(s, t) \in Nat /\ Following(s, t) > now
  BY <1>1, FollowingIsLater, NextRunTime, CronAssumption
<1>4. ASSUME NEW u \in FireTimes(s, base, now) PROVE u <= t
  <2>1. u \in Nat /\ u <= now /\ Fires(s, base, u)
    BY <1>1 DEF FireTimes, Fires
  <2>2. t < u => Following(s, t) <= u
    BY <1>1, <1>2, <2>1, FollowingIsNext
  <2> QED BY <1>1, <1>3, <2>1, <2>2
<1>5. base <= t
  BY <1>1, <1>2
<1> QED BY <1>1, <1>4, <1>5 DEF IsLast

(* The loop goes on to a due time. *)
LEMMA RoundContinues ==
    ASSUME NEW s \in Schedule, NEW base \in Nat, NEW now \in Time,
           NEW t \in FireTimes(s, base, now) \union {base},
           next_run_time(s, t) # Raises, next_run_time(s, t) <= now
    PROVE  next_run_time(s, t) \in FireTimes(s, base, now) /\ next_run_time(s, t) \in Time
<1>1. t \in Nat /\ now \in Nat /\ Horizon \in Nat
  BY CronAssumption DEF FireTimes, Time
<1>2. t = base \/ (base < t /\ Fires(s, base, t))
  BY <1>1 DEF FireTimes, Fires
<1>3. next_run_time(s, t) = Following(s, t)
  BY NextRunTime
<1>4. Fires(s, base, Following(s, t))
  BY <1>1, <1>2, FollowingIsNext
<1>5. next_run_time(s, t) \in (t + 1)..Horizon
  BY <1>1, NextIsLater
<1>6. next_run_time(s, t) \in (base + 1)..now
  BY <1>1, <1>2, <1>5
<1> QED BY <1>1, <1>3, <1>4, <1>5, <1>6 DEF FireTimes, Fires, Time

(* The loop returns the latest due tick, or raises if the time after it is *)
(* past the end of datetime: by induction on how far the tick is from it.  *)
LEMMA CatchUpResult ==
    ASSUME NEW s \in Schedule, NEW base \in Nat, NEW now \in Time,
           NEW tick \in FireTimes(s, base, now)
    PROVE  \E t \in FireTimes(s, base, now) :
              /\ IsLast(s, base, now, t)
              /\ CatchUp(s, now)[tick] = IF next_run_time(s, t) = Raises THEN Raises ELSE t
<1> DEFINE F == FireTimes(s, base, now)
           Result(u) == \E t \in F : /\ IsLast(s, base, now, t)
                                     /\ CatchUp(s, now)[u] =
                                          IF next_run_time(s, t) = Raises THEN Raises ELSE t
           T == {n \in 0..Horizon : Horizon - n \in F /\ ~Result(Horizon - n)}
<1>1. Horizon \in Nat /\ now \in Nat /\ now <= Horizon
  BY CronAssumption DEF Time
<1>2. \A u \in F : u \in Time /\ u \in 0..Horizon
  BY <1>1 DEF FireTimes, Time
<1>3. ASSUME NEW u \in F, \A v \in F : u < v => Result(v) PROVE Result(u)
  <2>1. CatchUp(s, now)[u] = Round(s, now, CatchUp(s, now), u)
    BY <1>1, <1>2, CatchUpDef
  <2>2. CASE next_run_time(s, u) = Raises \/ next_run_time(s, u) > now
    <3>1. IsLast(s, base, now, u)
      BY <2>2, RoundEnds
    <3>2. CatchUp(s, now)[u] = IF next_run_time(s, u) = Raises THEN Raises ELSE u
      BY <2>1, <2>2 DEF Round
    <3> QED BY <3>1, <3>2
  <2>3. CASE next_run_time(s, u) # Raises /\ ~(next_run_time(s, u) > now)
    <3> DEFINE v == next_run_time(s, u)
    <3>1. v \in (u + 1)..Horizon
      BY <1>2, <2>3, NextIsLater DEF Time
    <3>2. v \in F
      <4>1. v <= now
        BY <1>1, <2>3, <3>1
      <4> QED BY <2>3, <4>1, RoundContinues
    <3>3. CatchUp(s, now)[u] = CatchUp(s, now)[v]
      BY <2>1, <2>3 DEF Round
    <3>4. Result(v)
      BY <1>2, <1>3, <3>1, <3>2
    <3> HIDE DEF v, F
    <3> QED BY <3>3, <3>4
  <2> QED BY <2>2, <2>3
<1>4. T = {}
  <2> SUFFICES ASSUME T # {} PROVE FALSE
    OBVIOUS
  <2>1. PICK n \in T : \A m \in T : n <= m
    <3>1. T \subseteq Nat
      BY <1>1
    <3> HIDE DEF T
    <3> QED BY <3>1, Least, ZenonT(60)
  <2>2. Horizon - n \in F /\ ~Result(Horizon - n)
    OBVIOUS
  <2>3. ASSUME NEW v \in F, Horizon - n < v PROVE Result(v)
    <3> HIDE DEF Result, F
    <3>1. Horizon - v \in 0..Horizon /\ ~(n <= Horizon - v) /\ Horizon - (Horizon - v) = v
      BY <1>1, <1>2, <2>3 
    <3> QED BY <2>1, <2>3, <3>1
  <2> HIDE DEF Result, F
  <2> QED BY <1>3, <2>2, <2>3
<1>5. Horizon - tick \in 0..Horizon /\ Horizon - (Horizon - tick) = tick
  BY <1>1, <1>2
<1>6. Result(tick)
  <2> HIDE DEF Result
  <2> QED BY <1>4, <1>5
<1> QED BY <1>6

(* What due_tick promises, for every schedule and every pair of times: the *)
(* latest fire time after base that is not after now, None if there is     *)
(* none; and it raises exactly if the fire time after that one, due or not *)
(* yet due, is past the end of datetime.                                   *)
THEOREM DueTickIsLatest ==
    ASSUME NEW s \in Schedule, NEW base \in Time, NEW now \in Time
    PROVE  \E last : /\ IsLast(s, base, now, last)
                     /\ due_tick(s, base, now) =
                          IF next_run_time(s, last) = Raises THEN Raises
                          ELSE IF last = base THEN NoTick ELSE last
<1>1. base \in Nat /\ now \in Nat /\ NoTick \notin Nat /\ Raises \notin Nat
  BY CronAssumption DEF Time
<1>2. CASE next_run_time(s, base) = Raises \/ next_run_time(s, base) > now
  <2>1. IsLast(s, base, now, base)
    BY <1>1, <1>2, RoundEnds
  <2>2. due_tick(s, base, now) = IF next_run_time(s, base) = Raises THEN Raises ELSE NoTick
    BY <1>2, DueTickDef
  <2> QED BY <2>1, <2>2
<1>3. CASE next_run_time(s, base) # Raises /\ ~(next_run_time(s, base) > now)
  <2> DEFINE first == next_run_time(s, base)
  <2>1. first \in Nat /\ first <= now
    BY <1>1, <1>3, NextIsLater, CronAssumption
  <2>2. first \in FireTimes(s, base, now)
    BY <1>1, <1>3, <2>1, RoundContinues
  <2>3. due_tick(s, base, now) = CatchUp(s, now)[first]
    BY <1>3, DueTickDef
  <2>4. PICK t \in FireTimes(s, base, now) :
              /\ IsLast(s, base, now, t)
              /\ CatchUp(s, now)[first] = IF next_run_time(s, t) = Raises THEN Raises ELSE t
    <3> HIDE DEF first
    <3> QED BY <1>1, <2>2, CatchUpResult
  <2>5. t # base
    BY <1>1 DEF FireTimes
  <2> QED BY <2>3, <2>4, <2>5
<1> QED BY <1>2, <1>3
=============================================================================
