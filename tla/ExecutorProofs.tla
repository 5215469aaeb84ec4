-------------------------- MODULE ExecutorProofs --------------------------
(***************************************************************************)
(* Proofs about the two executors.                                         *)
(*                                                                         *)
(* HttpAsync, for every timeout_sec, poll_interval_sec, cap and number of  *)
(* phases of a request: how long after its deadline the executor can still *)
(* be at work, and that it reports a timeout only of a remote task that    *)
(* was too late for its last poll.                                         *)
(*                                                                         *)
(* Shell, for every _FLUSH_EVERY and every number of lines, cancellations  *)
(* and failing INSERTs: that no command outlives execute() as long as it   *)
(* may clean up, and that the log has every line of the command once, in   *)
(* order if one stream logs alone.  The invariant follows a line from the  *)
(* pipe over the buffer and an INSERT to the table.                        *)
(***************************************************************************)
EXTENDS Shell, HttpAsync, TLAPS

-----------------------------------------------------------------------------
(* HttpAsync.                                                              *)

USE HttpAsyncAssumption

(* Where the loop of execute can be, given when its last request was sent  *)
(* and when its sleep ends.                                                *)
LoopInTime ==
    /\ since <= clock
    /\ http_pc = "submit" => since = 0 /\ clock <= MaxRequest
    /\ http_pc = "check" => clock <= deadline + MaxRequest /\ clock <= since + MaxRequest + poll_interval
    /\ http_pc = "poll" => since < deadline /\ clock <= since + MaxRequest
    /\ http_pc = "sleep" => /\ clock <= wake /\ wake <= deadline
                            /\ wake <= since + MaxRequest + poll_interval

(* A final state of the remote task that the last poll that was answered   *)
(* did not show is younger than that poll.                                 *)
UnseenIsYoung ==
    /\ seen \in Final => remote \in Final
    /\ (http_pc = "poll" /\ seen \notin Final /\ remote \in Final) => ended_at >= since
    /\ (http_pc \in {"submit", "check", "sleep"} /\ errors = 0 /\ remote \in Final) => ended_at >= since

(* The inductive invariant. *)
HttpInv ==
    /\ HttpTypeOK
    /\ LoopInTime
    /\ UnseenIsYoung
    /\ http_pc # "done" => http_result = "none"
    /\ NoFalseTimeout

(* The longest time that a request takes is a number. *)
LEMMA MaxRequestType == HttpTypeOK => MaxRequest \in Nat
<1> SUFFICES ASSUME HttpTypeOK PROVE MaxRequest \in Nat
  OBVIOUS
<1>1. request_timeout \in Nat
  BY DEF request_timeout, HttpTypeOK
<1>2. \A a, b \in Nat : a * b \in Nat
  OBVIOUS
<1> QED
  BY <1>1, <1>2 DEF MaxRequest

(* It depends on the job alone. *)
LEMMA MaxRequestKept == UNCHANGED job => MaxRequest' = MaxRequest
  BY DEF job, MaxRequest, request_timeout

(* Every step of execute, of the remote task and of the clock keeps the    *)
(* invariant.                                                              *)
LEMMA HttpInductive == HttpInv /\ [HttpNext]_httpVars => HttpInv'
<1> SUFFICES ASSUME HttpInv, [HttpNext]_httpVars PROVE HttpInv'
  OBVIOUS
<1> USE SMTT(60) DEF HttpInv, LoopInTime, UnseenIsYoung
<1> USE DEF Final, ExecResult, job, HttpTypeOK, NoFalseTimeout
<1>0. MaxRequest \in Nat
  BY MaxRequestType
<1>1. CASE Submit
  <2>1. UNCHANGED job
    BY <1>1 DEF Submit
  <2> QED
    BY <1>1, <2>1, <1>0, MaxRequestKept DEF Submit, Return
<1>2. CASE CheckDeadline
  <2>1. UNCHANGED job
    BY <1>2 DEF CheckDeadline
  <2> QED
    BY <1>2, <2>1, <1>0, MaxRequestKept DEF CheckDeadline, Return
<1>3. CASE PollReply
  <2>1. UNCHANGED job
    BY <1>3 DEF PollReply
  <2> QED
    BY <1>3, <2>1, <1>0, MaxRequestKept DEF PollReply, Pause, Return
<1>4. CASE Wake
  <2>1. UNCHANGED job
    BY <1>4 DEF Wake
  <2> QED
    BY <1>4, <2>1, <1>0, MaxRequestKept DEF Wake
<1>5. CASE ClockTick
  <2>1. UNCHANGED job
    BY <1>5 DEF ClockTick
  <2> QED
    BY <1>5, <2>1, <1>0, MaxRequestKept DEF ClockTick
<1>6. ASSUME NEW state \in Final, RemoteEnds(state) PROVE HttpInv'
  <2>1. UNCHANGED job
    BY <1>6 DEF RemoteEnds
  <2> QED
    BY <1>6, <2>1, <1>0, MaxRequestKept DEF RemoteEnds
<1>7. CASE UNCHANGED httpVars
  <2>1. UNCHANGED job
    BY <1>7 DEF httpVars
  <2> QED
    BY <1>7, <2>1, <1>0, MaxRequestKept DEF httpVars
<1> HIDE DEF HttpInv
<1> QED
  BY <1>1, <1>2, <1>3, <1>4, <1>5, <1>6, <1>7, Zenon DEF HttpNext, HttpExecute

(* The invariant holds in every state of every behaviour. *)
LEMMA HttpInvariant == HttpSpec => []HttpInv
<1>1. HttpInit => HttpInv
  <2> SUFFICES ASSUME HttpInit PROVE HttpInv
    OBVIOUS
  <2>1. HttpTypeOK
    BY DEF HttpInit, HttpTypeOK, Final
  <2>2. MaxRequest \in Nat
    BY <2>1, MaxRequestType
  <2> QED
    BY <2>1, <2>2 DEF HttpInit, HttpInv, LoopInTime, UnseenIsYoung, NoFalseTimeout, Final
<1> QED
  BY <1>1, HttpInductive, PTL DEF HttpSpec

(* http_async.py sends no request at or after the deadline and sleeps no   *)
(* longer than to it, so that execute is at work for at most one request   *)
(* after the deadline, whatever the remote task and the polls do.          *)
THEOREM OverrunIsBounded == HttpSpec => []OverrunBounded
<1>1. HttpInv => OverrunBounded
  <2> SUFFICES ASSUME HttpInv PROVE OverrunBounded
    OBVIOUS
  <2>1. MaxRequest \in Nat
    BY MaxRequestType DEF HttpInv
  <2> QED
    BY <2>1 DEF HttpInv, HttpTypeOK, LoopInTime, OverrunBounded
<1> QED
  BY <1>1, HttpInvariant, PTL

(* If no poll failed, a reported timeout means that the remote task ended  *)
(* later than one poll interval and one request before the deadline, or    *)
(* has not ended.                                                          *)
THEOREM TimeoutIsTrue == HttpSpec => []NoFalseTimeout
<1>1. HttpInv => NoFalseTimeout
  BY DEF HttpInv
<1> QED
  BY <1>1, HttpInvariant, PTL

-----------------------------------------------------------------------------
(* Shell.                                                                  *)

HIDE HttpAsyncAssumption
USE ZenonT(60)

-----------------------------------------------------------------------------
(* Sequences of log lines.                                                 *)

(* The lines that the pumps log. *)
Real == Stream \X (1..MaxLines)

(* Line l is in the sequence. *)
Has(lines, l) == \E i \in DOMAIN lines : lines[i] = l

(* No line of a pump is twice in the sequence. *)
Once(lines) == \A i, k \in DOMAIN lines : (lines[i] = lines[k] /\ lines[i] \in Real) => i = k

(* The lines of stream s are in the order in which they were written. *)
Sorted(lines, s) ==
    \A i, k \in DOMAIN lines : \A m, n \in 1..MaxLines :
        (i < k /\ lines[i] = <<s, m>> /\ lines[k] = <<s, n>>) => m < n

(* The lines of s in p were written before those in q. *)
Precedes(p, q, s) ==
    \A m, n \in 1..MaxLines : Has(p, <<s, m>>) /\ Has(q, <<s, n>>) => m < n

(* A line is at a place: in the buffer b, in an INSERT of I, in the table. *)
Place(b, I, st, l) == Has(b, l) \/ Has(st, l) \/ \E x \in I : Has(x.lines, l)

(* No line is at two places. *)
UniqueOf(b, I, st) ==
    /\ Once(b) /\ Once(st) /\ \A x \in I : Once(x.lines)
    /\ \A l \in Real :
         /\ ~(Has(b, l) /\ Has(st, l))
         /\ \A x \in I : Has(x.lines, l) =>
              /\ ~ Has(b, l) /\ ~ Has(st, l)
              /\ \A y \in I : Has(y.lines, l) => x = y

(* The table comes before the INSERTs, and these before the buffer. *)
OrderOf(s, b, I, st) ==
    /\ Sorted(b, s) /\ Sorted(st, s) /\ Precedes(st, b, s)
    /\ \A x \in I :
         Sorted(x.lines, s) /\ Precedes(st, x.lines, s) /\ Precedes(x.lines, b, s)

(* What is in a buffer after LogBuffer.write. *)
LEMMA AppendHas ==
  ASSUME NEW S, NEW q \in Seq(S), NEW x \in S, NEW l
  PROVE  Has(Append(q, x), l) <=> Has(q, l) \/ l = x
<1> DEFINE p == Append(q, x)
<1>1. /\ DOMAIN q = 1..Len(q) /\ DOMAIN p = 1..(Len(q) + 1) /\ Len(q) \in Nat
      /\ p[Len(q) + 1] = x /\ \A i \in 1..Len(q) : p[i] = q[i]
  BY SMTT(60)
<1>2. Has(q, l) => Has(p, l)
  BY <1>1, SMTT(60) DEF Has
<1>3. l = x => Has(p, l)
  BY <1>1, SMTT(60) DEF Has
<1>4. Has(p, l) => Has(q, l) \/ l = x
  BY <1>1, SMTT(60) DEF Has
<1> QED
  BY <1>2, <1>3, <1>4

(* What is in the table after append_logs. *)
LEMMA ConcatHas ==
  ASSUME NEW S, NEW p \in Seq(S), NEW q \in Seq(S), NEW l
  PROVE  Has(p \o q, l) <=> Has(p, l) \/ Has(q, l)
<1> DEFINE r == p \o q
<1>1. /\ DOMAIN p = 1..Len(p) /\ DOMAIN q = 1..Len(q) /\ DOMAIN r = 1..(Len(p) + Len(q))
      /\ Len(p) \in Nat /\ Len(q) \in Nat
      /\ \A i \in 1..Len(p) : r[i] = p[i]
      /\ \A i \in 1..Len(q) : r[Len(p) + i] = q[i]
  BY SMTT(60)
<1>2. Has(p, l) => Has(r, l)
  BY <1>1, SMTT(60) DEF Has
<1>3. Has(q, l) => Has(r, l)
  BY <1>1, SMTT(60) DEF Has
<1>4. ASSUME NEW i \in DOMAIN r, r[i] = l PROVE Has(p, l) \/ Has(q, l)
  <2>1. CASE i \in 1..Len(p)
    BY <1>1, <1>4, <2>1, SMTT(60) DEF Has
  <2>2. CASE i \notin 1..Len(p)
    <3>1. i - Len(p) \in 1..Len(q) /\ Len(p) + (i - Len(p)) = i
      BY <1>1, <2>2, SMTT(60)
    <3>2. q[i - Len(p)] = l
      BY <1>1, <1>4, <3>1, SMTT(60)
    <3> QED
      BY <1>1, <3>1, <3>2 DEF Has
  <2> QED
    BY <2>1, <2>2
<1> QED
  BY <1>2, <1>3, <1>4 DEF Has

(* An empty buffer. *)
LEMMA EmptyLines ==
  ASSUME NEW l, NEW s
  PROVE  /\ ~ Has(<<>>, l) /\ Once(<<>>) /\ Sorted(<<>>, s)
         /\ \A q : Precedes(<<>>, q, s) /\ Precedes(q, <<>>, s)
<1>1. DOMAIN <<>> = {}
  BY SMTT(60)
<1>2. \A k : ~ Has(<<>>, k)
  BY <1>1 DEF Has
<1>3. Once(<<>>) /\ Sorted(<<>>, s)
  BY <1>1 DEF Once, Sorted
<1> QED
  BY <1>2, <1>3 DEF Precedes

(* A line that is new keeps a buffer free of duplicates, *)
LEMMA AppendOnce ==
  ASSUME NEW S, NEW q \in Seq(S), NEW x \in S, Once(q), x \in Real => ~ Has(q, x)
  PROVE  Once(Append(q, x))
<1> DEFINE p == Append(q, x)
<1>1. /\ DOMAIN q = 1..Len(q) /\ DOMAIN p = 1..(Len(q) + 1) /\ Len(q) \in Nat
      /\ p[Len(q) + 1] = x /\ \A i \in 1..Len(q) : p[i] = q[i]
  BY SMTT(60)
<1>2. SUFFICES ASSUME NEW i \in DOMAIN p, NEW k \in DOMAIN p, p[i] = p[k], p[i] \in Real
               PROVE  i = k
  BY DEF Once
<1>3. \A j \in DOMAIN p : j \in DOMAIN q \/ j = Len(q) + 1
  BY <1>1, SMTT(60)
<1>4. CASE i \in DOMAIN q /\ k \in DOMAIN q
  BY <1>1, <1>2, <1>4 DEF Once
<1>5. CASE i = Len(q) + 1 /\ k = Len(q) + 1
  BY <1>5
<1>6. CASE i \in DOMAIN q /\ k = Len(q) + 1
  BY <1>1, <1>2, <1>6 DEF Has
<1>7. CASE k \in DOMAIN q /\ i = Len(q) + 1
  BY <1>1, <1>2, <1>7 DEF Has
<1> QED
  BY <1>3, <1>4, <1>5, <1>6, <1>7

(* and in order if it is later than the others of its stream. *)
LEMMA AppendSorted ==
  ASSUME NEW S, NEW q \in Seq(S), NEW x \in S, NEW s, Sorted(q, s),
         \A m, n \in 1..MaxLines : Has(q, <<s, m>>) /\ x = <<s, n>> => m < n
  PROVE  Sorted(Append(q, x), s)
<1> DEFINE p == Append(q, x)
<1>1. /\ DOMAIN q = 1..Len(q) /\ DOMAIN p = 1..(Len(q) + 1) /\ Len(q) \in Nat
      /\ p[Len(q) + 1] = x /\ \A i \in 1..Len(q) : p[i] = q[i]
  BY SMTT(60)
<1>2. SUFFICES ASSUME NEW i \in DOMAIN p, NEW k \in DOMAIN p,
                      NEW m \in 1..MaxLines, NEW n \in 1..MaxLines,
                      i < k, p[i] = <<s, m>>, p[k] = <<s, n>>
               PROVE  m < n
  BY DEF Sorted
<1>3. i \in DOMAIN q /\ (k \in DOMAIN q \/ k = Len(q) + 1)
  BY <1>1, <1>2, SMTT(60)
<1>4. CASE k \in DOMAIN q
  BY <1>1, <1>2, <1>3, <1>4 DEF Sorted
<1>5. CASE k = Len(q) + 1
  BY <1>1, <1>2, <1>3, <1>5 DEF Has
<1> QED
  BY <1>3, <1>4, <1>5

(* The table and a batch have no line in common and stay free of           *)
(* duplicates together,                                                    *)
LEMMA ConcatOnce ==
  ASSUME NEW S, NEW p \in Seq(S), NEW q \in Seq(S), Once(p), Once(q),
         \A l \in Real : ~(Has(p, l) /\ Has(q, l))
  PROVE  Once(p \o q)
<1> DEFINE r == p \o q
<1>1. /\ DOMAIN p = 1..Len(p) /\ DOMAIN q = 1..Len(q) /\ DOMAIN r = 1..(Len(p) + Len(q))
      /\ Len(p) \in Nat /\ Len(q) \in Nat
      /\ \A i \in 1..Len(p) : r[i] = p[i]
      /\ \A i \in 1..Len(q) : r[Len(p) + i] = q[i]
  BY SMTT(60)
<1>2. \A i \in DOMAIN r : i \in DOMAIN p \/ \E j \in DOMAIN q : i = Len(p) + j
  <2>1. \A i \in DOMAIN r : i \notin DOMAIN p => i - Len(p) \in DOMAIN q /\ i = Len(p) + (i - Len(p))
    BY <1>1, SMTT(60)
  <2> QED
    BY <2>1
<1>3. SUFFICES ASSUME NEW i \in DOMAIN r, NEW k \in DOMAIN r, r[i] = r[k], r[i] \in Real
               PROVE  i = k
  BY DEF Once
<1>4. CASE i \in DOMAIN p /\ k \in DOMAIN p
  BY <1>1, <1>3, <1>4 DEF Once
<1>5. ASSUME NEW a \in DOMAIN q, NEW b \in DOMAIN q, i = Len(p) + a, k = Len(p) + b PROVE i = k
  BY <1>1, <1>3, <1>5 DEF Once
<1>6. ASSUME i \in DOMAIN p, NEW b \in DOMAIN q, k = Len(p) + b PROVE FALSE
  BY <1>1, <1>3, <1>6 DEF Has
<1>7. ASSUME k \in DOMAIN p, NEW a \in DOMAIN q, i = Len(p) + a PROVE FALSE
  BY <1>1, <1>3, <1>7 DEF Has
<1> QED
  BY <1>2, <1>4, <1>5, <1>6, <1>7

(* and in order if the table comes first. *)
LEMMA ConcatSorted ==
  ASSUME NEW S, NEW p \in Seq(S), NEW q \in Seq(S), NEW s,
         Sorted(p, s), Sorted(q, s), Precedes(p, q, s)
  PROVE  Sorted(p \o q, s)
<1> DEFINE r == p \o q
<1>1. /\ DOMAIN p = 1..Len(p) /\ DOMAIN q = 1..Len(q) /\ DOMAIN r = 1..(Len(p) + Len(q))
      /\ Len(p) \in Nat /\ Len(q) \in Nat
      /\ \A i \in 1..Len(p) : r[i] = p[i]
      /\ \A i \in 1..Len(q) : r[Len(p) + i] = q[i]
  BY SMTT(60)
<1>2. SUFFICES ASSUME NEW i \in DOMAIN r, NEW k \in DOMAIN r,
                      NEW m \in 1..MaxLines, NEW n \in 1..MaxLines,
                      i < k, r[i] = <<s, m>>, r[k] = <<s, n>>
               PROVE  m < n
  BY DEF Sorted
<1>3. CASE i \in DOMAIN p /\ k \in DOMAIN p
  BY <1>1, <1>2, <1>3 DEF Sorted
<1>4. CASE i \in DOMAIN p /\ k \notin DOMAIN p
  <2>1. k - Len(p) \in DOMAIN q /\ q[k - Len(p)] = r[k]
    BY <1>1, <1>4, SMTT(60)
  <2>2. Has(p, <<s, m>>) /\ Has(q, <<s, n>>)
    BY <1>1, <1>2, <1>4, <2>1 DEF Has
  <2> QED
    BY <2>2 DEF Precedes
<1>5. CASE i \notin DOMAIN p
  <2>1. /\ i - Len(p) \in DOMAIN q /\ q[i - Len(p)] = r[i]
        /\ k - Len(p) \in DOMAIN q /\ q[k - Len(p)] = r[k]
        /\ i - Len(p) < k - Len(p)
    BY <1>1, <1>2, <1>5, SMTT(60)
  <2> QED
    BY <1>2, <2>1 DEF Sorted
<1> QED
  BY <1>3, <1>4, <1>5

-----------------------------------------------------------------------------
(* The steps of the log: write, flush, and the end of an INSERT.           *)

(* LogBuffer.write puts a line at a place and moves no other. *)
LEMMA WritePlaces ==
  ASSUME NEW S, NEW b \in Seq(S), NEW n \in S, NEW I, NEW st, NEW l
  PROVE  Place(Append(b, n), I, st, l) <=> Place(b, I, st, l) \/ l = n
BY AppendHas DEF Place

(* A line that was at no place is at one. *)
LEMMA WriteUnique ==
  ASSUME NEW S, NEW b \in Seq(S), NEW n \in S, NEW I, NEW st,
         UniqueOf(b, I, st), n \in Real => ~ Place(b, I, st, n)
  PROVE  UniqueOf(Append(b, n), I, st)
<1>1. \A l : Has(Append(b, n), l) <=> Has(b, l) \/ l = n
  BY AppendHas
<1>2. Once(Append(b, n))
  BY AppendOnce DEF UniqueOf, Place
<1> QED
  BY <1>1, <1>2 DEF UniqueOf, Place

(* A line later than all of its stream keeps the order. *)
LEMMA WriteOrder ==
  ASSUME NEW S, NEW b \in Seq(S), NEW n \in S, NEW I, NEW st, NEW s,
         OrderOf(s, b, I, st),
         \A k, m \in 1..MaxLines : Place(b, I, st, <<s, k>>) /\ n = <<s, m>> => k < m
  PROVE  OrderOf(s, Append(b, n), I, st)
<1>1. \A l : Has(Append(b, n), l) <=> Has(b, l) \/ l = n
  BY AppendHas
<1>2. Sorted(Append(b, n), s)
  BY AppendSorted DEF OrderOf, Place
<1>3. Precedes(st, Append(b, n), s)
  BY <1>1 DEF OrderOf, Place, Precedes
<1>4. ASSUME NEW x \in I PROVE Precedes(x.lines, Append(b, n), s)
  BY <1>1 DEF OrderOf, Place, Precedes
<1> QED
  BY <1>2, <1>3, <1>4 DEF OrderOf

(* A flush moves the buffer to an INSERT. *)
LEMMA FlushLines ==
  ASSUME NEW b, NEW I, NEW st, NEW x, x.lines = b
  PROVE  /\ \A l : Place(<<>>, I \union {x}, st, l) <=> Place(b, I, st, l)
         /\ UniqueOf(b, I, st) => UniqueOf(<<>>, I \union {x}, st)
         /\ \A s : OrderOf(s, b, {}, st) => OrderOf(s, <<>>, {x}, st)
<1>1. Once(<<>>) /\ \A l : ~ Has(<<>>, l)
  BY EmptyLines
<1>2. \A s : Sorted(<<>>, s) /\ \A q : Precedes(<<>>, q, s) /\ Precedes(q, <<>>, s)
  BY EmptyLines
<1>3. \A l : Place(<<>>, I \union {x}, st, l) <=> Place(b, I, st, l)
  BY <1>1 DEF Place
<1>4. UniqueOf(b, I, st) => UniqueOf(<<>>, I \union {x}, st)
  BY <1>1 DEF UniqueOf
<1>5. \A s : OrderOf(s, b, {}, st) => OrderOf(s, <<>>, {x}, st)
  BY <1>2 DEF OrderOf
<1> QED
  BY <1>3, <1>4, <1>5

(* append_logs moves its lines to the table. *)
LEMMA StoreLines ==
  ASSUME NEW S, NEW b, NEW I, NEW st \in Seq(S), NEW x \in I, x.lines \in Seq(S)
  PROVE  /\ UniqueOf(b, I, st) => UniqueOf(b, I \ {x}, st \o x.lines)
         /\ \A l : Place(b, I \ {x}, st \o x.lines, l) <=> Place(b, I, st, l)
         /\ \A s : OrderOf(s, b, {x}, st) => OrderOf(s, b, {}, st \o x.lines)
<1>1. \A l : Has(st \o x.lines, l) <=> Has(st, l) \/ Has(x.lines, l)
  BY ConcatHas
<1>2. ASSUME UniqueOf(b, I, st) PROVE UniqueOf(b, I \ {x}, st \o x.lines)
  <2>1. Once(st \o x.lines)
    BY <1>2, ConcatOnce DEF UniqueOf
  <2> QED
    BY <1>1, <1>2, <2>1 DEF UniqueOf
<1>3. \A l : Place(b, I \ {x}, st \o x.lines, l) <=> Place(b, I, st, l)
  BY <1>1 DEF Place
<1>4. ASSUME NEW s, OrderOf(s, b, {x}, st) PROVE OrderOf(s, b, {}, st \o x.lines)
  <2>1. Sorted(st \o x.lines, s)
    BY <1>4, ConcatSorted DEF OrderOf
  <2>2. Precedes(st \o x.lines, b, s)
    BY <1>1, <1>4 DEF OrderOf, Precedes
  <2> QED
    BY <1>4, <2>1, <2>2 DEF OrderOf
<1> QED
  BY <1>2, <1>3, <1>4

(* An INSERT that raises drops its lines. *)
LEMMA DropLines ==
  ASSUME NEW b, NEW I, NEW st, NEW x
  PROVE  /\ UniqueOf(b, I, st) => UniqueOf(b, I \ {x}, st)
         /\ \A l : Place(b, I \ {x}, st, l) => Place(b, I, st, l)
BY DEF UniqueOf, Place

-----------------------------------------------------------------------------
(* The invariant of the shell executor.                                    *)

(* The INSERTs under way: whose flush it is, and its lines. *)
InsertCall == [by : Stream \union {"cancel", "end"}, lines : Seq(Line)]

(* The types of the variables, in four parts: the control, ...  *)
CtlTypes ==
    /\ pc \in {"start", "wait", "cancel", "drain", "finally", "done", "write", "last", "flush", "over"}
    /\ proc \in {"none", "running", "exit 0", "exit 1", "killed"}
    /\ child \in {"none", "alive", "gone"}
    /\ script \in {"none", "there", "removed"}
    /\ result \in {"none", "succeeded", "failed", "timed_out", "canceled", "crashed"}

(* ... the cancellations and the INSERTs that raised, ... *)
CountTypes == cancels \in 0..MaxCancels /\ faults \in 0..MaxFaults

(* ... the pumps, and what they have read, ... *)
PumpTypes ==
    /\ written \in [Stream -> 0..MaxLines] /\ read \in [Stream -> 0..MaxLines]
    /\ pump \in [Stream -> {"none", "reads", "waits", "eof", "raised"}]

(* ... and the log lines, of which the buffer holds too few to flush. *)
LogTypes ==
    /\ buf \in Seq(Line) /\ Len(buf) < FlushEvery
    /\ inserts \subseteq InsertCall /\ stored \in Seq(Line)

(* process_run goes on after execute(). *)
Ended == pc \in {"done", "write", "last", "flush", "over"}

(* Both pumps are at p. *)
AllAt(p) == \A s \in Stream : pump[s] = p

(* Before the command is started there is nothing. *)
StartInv ==
    pc = "start" =>
      /\ proc = "none" /\ child = "none" /\ script = "none" /\ AllAt("none")
      /\ buf = <<>> /\ inserts = {} /\ stored = <<>>
      /\ \A s \in Stream : read[s] = 0 /\ written[s] = 0

(* What the step says about the task's cancellations and the command. *)
ResultInv ==
    /\ pc \in {"start", "wait"} => result = "none"
    /\ (pc \in {"cancel", "write"} \/ result \in {"canceled", "crashed"}) => cancels >= 1
    /\ proc = "killed" => child # "alive"
    /\ (Orderly /\ (pc \in {"drain", "finally"} \/ Ended)) => proc # "running"

(* A pump that ended has read all, and nobody can write more; after        *)
(* execute() the pumps are done, and the last flush leaves the buffer      *)
(* empty.                                                                  *)
PumpInv ==
    /\ \A s \in Stream : read[s] <= written[s]
    /\ \A s \in Stream : pump[s] = "eof" => read[s] = written[s] /\ ~PipeHeld
    /\ Ended => PumpsDone \/ AllAt("none")
    /\ (pc \in {"write", "flush", "over"} /\ AllAt("eof")) => buf = <<>>

(* Line l is in the buffer, in an INSERT under way or in the table. *)
Somewhere(l) == Place(buf, inserts, stored, l)

(* No line is at two places. *)
UniqueInv == UniqueOf(buf, inserts, stored)

(* A line at a place was read; and, while no INSERT has raised, a line     *)
(* that was read is at a place.                                            *)
ReadInv ==
    \A s \in Stream, k \in 1..MaxLines :
        /\ Somewhere(<<s, k>>) => k <= read[s]
        /\ (faults = 0 /\ k <= read[s]) => Somewhere(<<s, k>>)

(* Nobody but the pump of s logs, and nothing has failed. *)
Alone(s) ==
    /\ faults = 0 /\ cancels = 0
    /\ \A o \in Stream : pump[o] # "raised" /\ (o # s => written[o] = 0)

(* Then a flush is over before the next line of s is logged. *)
OrderInv ==
    \A s \in Stream : Alone(s) =>
       /\ \A x \in inserts : (x.by = s /\ pump[s] = "waits") \/ (x.by = "end" /\ pc = "flush")
       /\ \A x, y \in inserts : x = y
       /\ OrderOf(s, buf, inserts, stored)

(* The inductive invariant. *)
ShellInv ==
    /\ CtlTypes /\ CountTypes /\ PumpTypes /\ LogTypes
    /\ StartInv /\ ResultInv /\ NoCommandLeft /\ PumpInv
    /\ UniqueInv /\ ReadInv /\ OrderInv

-----------------------------------------------------------------------------
(* What the actions leave alone.                                           *)

(* The steps without a line to log or to store. *)
Quiet ==
    \/ Waited \/ Drained \/ Finally \/ Timeout \/ Fork \/ ChildExits
    \/ \E code \in {"exit 0", "exit 1"} : Exit(code)
    \/ \E s \in Stream : WriteLine(s) \/ PumpEnds(s) \/ PumpRaises(s)

(* Those of them that also leave the pumps alone. *)
Still ==
    \/ Waited \/ Drained \/ Finally \/ Timeout \/ Fork \/ ChildExits
    \/ \E code \in {"exit 0", "exit 1"} : Exit(code)

(* A step is a quiet one, or one of those that log or store lines. *)
LEMMA Kinds ==
  Next => \/ Quiet \/ Start \/ LastLine \/ LastFlush \/ Canceled
          \/ \E s \in Stream : PumpReads(s)
          \/ \E i \in inserts : Insert(i) \/ InsertRaises(i)
BY DEF Next, Execute, Quiet

(* A quiet step leaves the lines, the reads and the counters alone. *)
LEMMA QuietFrame == Quiet => UNCHANGED <<buf, inserts, stored, read, cancels, faults>>
<1>1. Still => UNCHANGED <<buf, inserts, stored, read, cancels, faults>>
  BY DEF Still, Waited, Drained, Finally, Timeout, Fork, ChildExits, Exit, logVars, pumpVars
<1>2. \A s \in Stream : WriteLine(s) \/ PumpEnds(s) \/ PumpRaises(s) =>
        UNCHANGED <<buf, inserts, stored, read, cancels, faults>>
  BY DEF WriteLine, PumpEnds, PumpRaises, logVars, pumpVars
<1> QED
  BY <1>1, <1>2 DEF Quiet, Still

(* A still step leaves the pipes and the pumps alone, too. *)
LEMMA StillFrame == Still => UNCHANGED <<written, pump>>
BY DEF Still, Waited, Drained, Finally, Timeout, Fork, ChildExits, Exit, pumpVars

-----------------------------------------------------------------------------
(* The log lines.                                                          *)

(* The line that execute(), and process_run, log is not one of a pump. *)
LEMMA SystemLine == System \in Line /\ System \notin Real
BY SMTT(60) DEF System, Line, Real, Stream

(* LogBuffer.write with a line n that is at no place. *)
LEMMA WriteStep ==
  ASSUME LogTypes, UniqueInv, stored' = stored,
         NEW by \in Stream \union {"cancel", "end"}, NEW n \in Line,
         n \in Real => ~ Somewhere(n),
         Write(by, n)
  PROVE  LogTypes' /\ UniqueInv' /\ \A l : Somewhere(l)' <=> Somewhere(l) \/ l = n
<1> DEFINE b == Append(buf, n)
<1>1. b \in Seq(Line) /\ Len(b) = Len(buf) + 1 /\ Len(buf) \in Nat
  BY SMTT(60) DEF LogTypes
<1>2. UniqueOf(b, inserts, stored)
  BY WriteUnique DEF LogTypes, UniqueInv, Somewhere
<1>3. \A l : Place(b, inserts, stored, l) <=> Somewhere(l) \/ l = n
  BY WritePlaces DEF LogTypes, Somewhere
<1>4. CASE Full
  <2> DEFINE x == [by |-> by, lines |-> b]
  <2>1. buf' = <<>> /\ inserts' = inserts \union {x}
    BY <1>4 DEF Write, Flush
  <2>2. x.lines = b /\ x \in InsertCall
    BY <1>1 DEF InsertCall
  <2>3. <<>> \in Seq(Line) /\ Len(<<>>) < FlushEvery
    BY ShellAssumption, SMTT(60)
  <2>4. LogTypes'
    BY <2>1, <2>2, <2>3 DEF LogTypes
  <2> HIDE DEF x, b
  <2>5. /\ UniqueOf(<<>>, inserts \union {x}, stored)
        /\ \A l : Place(<<>>, inserts \union {x}, stored, l) <=> Place(b, inserts, stored, l)
    BY <1>2, <2>2, FlushLines
  <2> QED
    BY <1>3, <2>1, <2>4, <2>5 DEF UniqueInv, Somewhere
<1>5. CASE ~Full
  <2>1. buf' = b /\ inserts' = inserts
    BY <1>5 DEF Write
  <2>2. Len(b) < FlushEvery
    BY <1>1, <1>5, ShellAssumption, SMTT(60) DEF Full
  <2> QED
    BY <1>1, <1>2, <1>3, <2>1, <2>2 DEF LogTypes, UniqueInv, Somewhere
<1> QED
  BY <1>4, <1>5

(* The first line, or none, in an empty buffer. *)
LEMMA FirstStep ==
  ASSUME LogTypes, UniqueInv, buf = <<>>, buf' \in {<<>>, <<System>>},
         UNCHANGED <<inserts, stored>>
  PROVE  LogTypes' /\ UniqueInv' /\ \A l \in Real : Somewhere(l)' <=> Somewhere(l)
<1>1. CASE buf' = <<>>
  BY <1>1 DEF LogTypes, UniqueInv, Somewhere
<1>2. CASE buf' = <<System>>
  <2>1. buf' = Append(buf, System)
    BY <1>2, SystemLine, SMTT(60)
  <2>2. buf' \in Seq(Line) /\ Len(buf') < FlushEvery
    BY <1>2, SystemLine, ShellAssumption, SMTT(60)
  <2>3. UniqueOf(Append(buf, System), inserts, stored)
    BY SystemLine, WriteUnique DEF LogTypes, UniqueInv
  <2>4. \A l : Place(Append(buf, System), inserts, stored, l) <=> Somewhere(l) \/ l = System
    BY SystemLine, WritePlaces DEF LogTypes, Somewhere
  <2> QED
    BY <2>1, <2>2, <2>3, <2>4, SystemLine DEF LogTypes, UniqueInv, Somewhere
<1> QED
  BY <1>1, <1>2

(* The numbers of the lines stay what was read. *)
LEMMA ReadKept ==
  ASSUME ReadInv, UNCHANGED <<read, faults>>, \A l \in Real : Somewhere(l)' <=> Somewhere(l)
  PROVE  ReadInv'
<1>1. \A s \in Stream, k \in 1..MaxLines : <<s, k>> \in Real
  BY DEF Real
<1> QED
  BY <1>1 DEF ReadInv

(* A pump reads a line, and logs it. *)
LEMMA PumpReadsLog ==
  ASSUME ShellInv, NEW s \in Stream, PumpReads(s)
  PROVE  LogTypes' /\ UniqueInv' /\ ReadInv'
<1> DEFINE n == <<s, read[s] + 1>>
<1> USE DEF ShellInv
<1>1. read[s] \in 0..MaxLines /\ written[s] \in 0..MaxLines /\ MaxLines \in Nat
  BY ShellAssumption DEF PumpTypes
<1>2. read[s] + 1 \in 1..MaxLines
  BY <1>1, SMTT(60) DEF PumpReads
<1>3. n \in Line /\ n \in Real
  BY <1>2 DEF Line, Real
<1>4. ~ Somewhere(n)
  <2>1. ~ (read[s] + 1 <= read[s])
    BY <1>1, SMTT(60)
  <2> QED
    BY <1>2, <2>1 DEF ReadInv
<1>5. Write(s, n) /\ stored' = stored /\ faults' = faults
  BY DEF PumpReads
<1>6. LogTypes' /\ UniqueInv' /\ \A l : Somewhere(l)' <=> Somewhere(l) \/ l = n
  BY <1>3, <1>4, <1>5, WriteStep
<1>7. ReadInv'
  <2> SUFFICES ASSUME NEW o \in Stream, NEW k \in 1..MaxLines
               PROVE  /\ Somewhere(<<o, k>>)' => k <= read'[o]
                      /\ (faults' = 0 /\ k <= read'[o]) => Somewhere(<<o, k>>)'
    BY DEF ReadInv
  <2>1. Somewhere(<<o, k>>)' <=> Somewhere(<<o, k>>) \/ (o = s /\ k = read[s] + 1)
    <3>1. <<o, k>> = n <=> o = s /\ k = read[s] + 1
      OBVIOUS
    <3> QED
      BY <1>6, <3>1
  <2>2. read' = [read EXCEPT ![s] = read[s] + 1]
    BY DEF PumpReads
  <2>3. CASE o # s
    <3>1. read'[o] = read[o]
      BY <2>2, <2>3 DEF PumpTypes
    <3> QED
      BY <1>5, <2>1, <2>3, <3>1 DEF ReadInv
  <2>4. CASE o = s
    <3>1. read'[s] = read[s] + 1
      BY <2>2 DEF PumpTypes
    <3>2. /\ k <= read[s] => k <= read[s] + 1
          /\ k <= read[s] + 1 => k <= read[s] \/ k = read[s] + 1
          /\ k = read[s] + 1 => k <= read[s] + 1
      BY <1>1, SMTT(60)
    <3> QED
      BY <1>5, <2>1, <2>4, <3>1, <3>2 DEF ReadInv
  <2> QED
    BY <2>3, <2>4
<1> QED
  BY <1>6, <1>7

(* Every step keeps each line that was read at one place. *)
LEMMA LogStep ==
  ASSUME ShellInv, Next
  PROVE  LogTypes' /\ UniqueInv' /\ ReadInv'
<1> DEFINE Good == LogTypes' /\ UniqueInv' /\ ReadInv'
<1> USE DEF ShellInv
<1>1. ASSUME UNCHANGED <<buf, inserts, stored, read, faults>> PROVE Good
  BY <1>1 DEF LogTypes, UniqueInv, ReadInv, Somewhere
<1>2. ASSUME Quiet PROVE Good
  BY <1>1, <1>2, QuietFrame
<1>3. ASSUME pc = "start", buf' \in {<<>>, <<System>>}, UNCHANGED <<inserts, stored, read, faults>>
      PROVE  Good
  <2>1. buf = <<>>
    BY <1>3 DEF StartInv
  <2> QED
    BY <1>3, <2>1, FirstStep, ReadKept
<1>4. ASSUME Start PROVE Good
  BY <1>3, <1>4 DEF Start
<1>5. ASSUME NEW by \in {"cancel", "end"}, Write(by, System), UNCHANGED <<stored, read, faults>>
      PROVE  Good
  <2>1. LogTypes' /\ UniqueInv' /\ \A l : Somewhere(l)' <=> Somewhere(l) \/ l = System
    BY <1>5, SystemLine, WriteStep
  <2> QED
    BY <1>5, <2>1, SystemLine, ReadKept
<1>6. ASSUME LastLine PROVE Good
  BY <1>1, <1>5, <1>6 DEF LastLine, pumpVars
<1>7. ASSUME LastFlush PROVE Good
  <2>1. CASE buf = <<>>
    BY <1>1, <1>7, <2>1 DEF LastFlush, pumpVars
  <2>2. CASE buf # <<>>
    <3> DEFINE x == [by |-> "end", lines |-> buf]
    <3>1. buf' = <<>> /\ inserts' = inserts \union {x} /\ UNCHANGED <<stored, read, faults>>
      BY <1>7, <2>2 DEF LastFlush, Flush, pumpVars
    <3>2. x.lines = buf /\ x \in InsertCall
      BY DEF InsertCall, LogTypes
    <3>3. <<>> \in Seq(Line) /\ Len(<<>>) < FlushEvery
      BY ShellAssumption, SMTT(60)
    <3>4. LogTypes'
      BY <3>1, <3>2, <3>3 DEF LogTypes
    <3> HIDE DEF x
    <3>5. /\ UniqueOf(<<>>, inserts \union {x}, stored)
          /\ \A l : Place(<<>>, inserts \union {x}, stored, l) <=> Place(buf, inserts, stored, l)
      BY <3>2, FlushLines DEF UniqueInv
    <3>6. UniqueInv' /\ \A l \in Real : Somewhere(l)' <=> Somewhere(l)
      BY <3>1, <3>5 DEF UniqueInv, Somewhere
    <3> QED
      BY <3>1, <3>4, <3>6, ReadKept
  <2> QED
    BY <2>1, <2>2
<1>8. ASSUME Canceled PROVE Good
  <2>1. UNCHANGED <<stored, read, faults>>
    BY <1>8 DEF Canceled
  <2>2. \/ pc = "start" /\ buf' = <<System>> /\ UNCHANGED inserts
        \/ Write("cancel", System)
        \/ UNCHANGED <<buf, inserts>>
    BY <1>8 DEF Canceled
  <2> QED
    BY <1>1, <1>3, <1>5, <2>1, <2>2
<1>9. ASSUME NEW s \in Stream, PumpReads(s) PROVE Good
  BY <1>9, PumpReadsLog
<1>10. ASSUME NEW i \in inserts, Insert(i) PROVE Good
  <2>1. /\ inserts' = inserts \ {i} /\ buf' = buf /\ stored' = stored \o i.lines
        /\ UNCHANGED <<read, faults>>
    BY <1>10 DEF Insert, Resume
  <2>2. i.lines \in Seq(Line) /\ stored \in Seq(Line)
    BY DEF LogTypes, InsertCall
  <2>3. stored \o i.lines \in Seq(Line)
    BY <2>2, SMTT(60)
  <2>4. LogTypes'
    BY <2>1, <2>3 DEF LogTypes
  <2>5. /\ UniqueOf(buf, inserts \ {i}, stored \o i.lines)
        /\ \A l : Place(buf, inserts \ {i}, stored \o i.lines, l) <=> Place(buf, inserts, stored, l)
    BY <2>2, StoreLines DEF UniqueInv
  <2>6. UniqueInv' /\ \A l \in Real : Somewhere(l)' <=> Somewhere(l)
    BY <2>1, <2>5 DEF UniqueInv, Somewhere
  <2> QED
    BY <2>1, <2>4, <2>6, ReadKept
<1>11. ASSUME NEW i \in inserts, InsertRaises(i) PROVE Good
  <2>1. /\ inserts' = inserts \ {i} /\ UNCHANGED <<buf, stored, read>>
        /\ faults' = faults + 1
    BY <1>11 DEF InsertRaises
  <2>2. faults' # 0
    BY <2>1, SMTT(60) DEF CountTypes
  <2>3. LogTypes'
    BY <2>1 DEF LogTypes
  <2>4. /\ UniqueOf(buf, inserts \ {i}, stored)
        /\ \A l : Place(buf, inserts \ {i}, stored, l) => Place(buf, inserts, stored, l)
    BY DropLines DEF UniqueInv
  <2>5. UniqueInv' /\ \A l : Somewhere(l)' => Somewhere(l)
    BY <2>1, <2>4 DEF UniqueInv, Somewhere
  <2>6. ReadInv'
    BY <2>1, <2>2, <2>5 DEF ReadInv
  <2> QED
    BY <2>3, <2>5, <2>6
<1> QED
  BY Kinds, <1>2, <1>4, <1>6, <1>7, <1>8, <1>9, <1>10, <1>11

-----------------------------------------------------------------------------
(* The pumps.                                                              *)

(* A pump does not leave its end, and ends when all is read and nobody can *)
(* write more.                                                             *)
PumpStepOf(s) ==
    /\ pump[s] \in {"eof", "raised"} => pump'[s] = pump[s]
    /\ pump'[s] = "eof" => pump[s] = "eof" \/ (read[s] = written[s] /\ ~PipeHeld /\ read' = read)

(* Where a pump can be. *)
PumpRange == {"none", "reads", "waits", "eof", "raised"}

(* What each step does to the pumps. *)
LEMMA PumpMoves ==
  ASSUME ShellInv, Next
  PROVE  /\ pump' \in [Stream -> PumpRange]
         /\ \A s \in Stream : PumpStepOf(s)
         /\ Ended /\ AllAt("none") => AllAt("none")'
<1> DEFINE Good == /\ pump' \in [Stream -> PumpRange]
                   /\ \A s \in Stream : PumpStepOf(s)
                   /\ Ended /\ AllAt("none") => AllAt("none")'
<1>0. pump \in [Stream -> PumpRange]
  BY DEF ShellInv, PumpTypes, PumpRange
<1>1. ASSUME UNCHANGED pump PROVE Good
  BY <1>0, <1>1 DEF PumpStepOf, AllAt
<1>2. ASSUME Still \/ LastLine \/ LastFlush \/ \E s \in Stream : WriteLine(s) PROVE Good
  <2>1. LastLine \/ LastFlush \/ (\E s \in Stream : WriteLine(s)) => UNCHANGED pump
    BY DEF LastLine, LastFlush, WriteLine, pumpVars
  <2> QED
    BY <1>1, <1>2, <2>1, StillFrame
<1>3. ASSUME Start PROVE Good
  <2>1. CASE UNCHANGED pump
    BY <1>1, <2>1
  <2>2. CASE pump' = [s \in Stream |-> "reads"]
    <3>1. AllAt("none") /\ ~Ended
      BY <1>3 DEF ShellInv, StartInv, Start, Ended
    <3> QED
      BY <2>2, <3>1 DEF PumpStepOf, PumpRange, AllAt
  <2> QED
    BY <1>3, <2>1, <2>2 DEF Start
<1>4. ASSUME NEW o \in Stream, NEW p \in {"reads", "waits", "eof", "raised"},
             pump[o] = "reads", pump' = [pump EXCEPT ![o] = p],
             p = "eof" => read[o] = written[o] /\ ~PipeHeld /\ read' = read
      PROVE  Good
  <2>1. pump' \in [Stream -> PumpRange]
    BY <1>0, <1>4 DEF PumpRange
  <2>2. ASSUME NEW s \in Stream PROVE PumpStepOf(s)
    <3>1. CASE s = o
      BY <1>0, <1>4, <3>1 DEF PumpStepOf
    <3>2. CASE s # o
      BY <1>0, <1>4, <3>2 DEF PumpStepOf
    <3> QED
      BY <3>1, <3>2
  <2>3. ~AllAt("none")
    BY <1>4 DEF AllAt
  <2> QED
    BY <2>1, <2>2, <2>3
<1>5. ASSUME NEW o \in Stream, PumpReads(o) PROVE Good
  <2>1. pump[o] = "reads"
    BY <1>5 DEF PumpReads
  <2>2. CASE Full
    <3>1. pump' = [pump EXCEPT ![o] = "waits"]
      BY <1>5, <2>2 DEF PumpReads
    <3> QED
      BY <1>4, <2>1, <3>1
  <2>3. CASE ~Full
    <3>1. pump' = [pump EXCEPT ![o] = "reads"]
      BY <1>5, <2>1, <2>3 DEF PumpReads
    <3> QED
      BY <1>4, <2>1, <3>1
  <2> QED
    BY <2>2, <2>3
<1>6. ASSUME NEW o \in Stream, PumpEnds(o) PROVE Good
  BY <1>4, <1>6 DEF PumpEnds
<1>7. ASSUME NEW o \in Stream, PumpRaises(o) PROVE Good
  BY <1>4, <1>7 DEF PumpRaises
<1>8. ASSUME NEW by, NEW p \in {"reads", "raised"},
             pump' = [s \in Stream |-> IF by = s /\ pump[s] = "waits" THEN p ELSE pump[s]]
      PROVE  Good
  BY <1>0, <1>8 DEF PumpStepOf, PumpRange, AllAt
<1>9. ASSUME NEW i \in inserts, Insert(i) \/ InsertRaises(i) PROVE Good
  BY <1>8, <1>9 DEF Insert, Resume, InsertRaises
<1>10. ASSUME Canceled PROVE Good
  <2>1. UNCHANGED pump \/ (CancelPumps /\ ~Ended)
    BY <1>10 DEF Canceled, Ended
  <2>2. ASSUME CancelPumps, ~Ended PROVE Good
    BY <1>0, <2>2 DEF CancelPumps, PumpStepOf, PumpRange
  <2> QED
    BY <1>1, <2>1, <2>2
<1> QED
  BY Kinds, <1>2, <1>3, <1>5, <1>6, <1>7, <1>9, <1>10 DEF Quiet, Still

(* Once the command and its background process are gone nobody writes. *)
LEMMA PipeStaysFree ==
  ASSUME ShellInv, Next, ~PipeHeld, pc # "start"
  PROVE  ~PipeHeld' /\ written' = written
<1>1. proc # "running" /\ child # "alive"
  BY DEF PipeHeld
<1>2. ASSUME UNCHANGED <<processes, written>> PROVE ~PipeHeld' /\ written' = written
  BY <1>1, <1>2 DEF PipeHeld, processes
<1>3. terminate => UNCHANGED processes
  BY <1>1 DEF terminate
<1>4. ASSUME Timeout \/ Waited \/ Drained \/ Finally PROVE UNCHANGED <<processes, written>>
  BY <1>3, <1>4 DEF Timeout, Waited, Drained, Finally
<1>5. ASSUME LastLine \/ LastFlush PROVE UNCHANGED <<processes, written>>
  BY <1>5 DEF LastLine, LastFlush
<1>6. ASSUME Canceled PROVE UNCHANGED <<processes, written>>
  BY <1>3, <1>6 DEF Canceled
<1>7. ASSUME NEW s \in Stream, PumpReads(s) \/ PumpEnds(s) \/ PumpRaises(s)
      PROVE  UNCHANGED <<processes, written>>
  BY <1>7 DEF PumpReads, PumpEnds, PumpRaises
<1>8. ASSUME NEW i \in inserts, Insert(i) \/ InsertRaises(i) PROVE UNCHANGED <<processes, written>>
  BY <1>3, <1>8 DEF Insert, Resume, InsertRaises
<1>9. ~Start /\ ~Fork /\ ~ChildExits /\ ~(\E code \in {"exit 0", "exit 1"} : Exit(code))
      /\ ~(\E s \in Stream : WriteLine(s))
  BY <1>1 DEF Start, Fork, ChildExits, Exit, WriteLine, PipeHeld
<1> QED
  BY <1>2, <1>4, <1>5, <1>6, <1>7, <1>8, <1>9, Kinds DEF Quiet

(* Only a pump reads, and only what was written. *)
LEMMA ReadStep ==
  ASSUME ShellInv, Next
  PROVE  /\ read' \in [Stream -> 0..MaxLines] /\ written' \in [Stream -> 0..MaxLines]
         /\ \A s \in Stream : read'[s] <= written'[s] /\ (read'[s] # read[s] => pump[s] = "reads")
         /\ \A s \in Stream : written[s] <= written'[s]
<1> DEFINE Good == /\ read' \in [Stream -> 0..MaxLines] /\ written' \in [Stream -> 0..MaxLines]
                   /\ \A s \in Stream : read'[s] <= written'[s] /\ (read'[s] # read[s] => pump[s] = "reads")
                   /\ \A s \in Stream : written[s] <= written'[s]
<1>0. /\ read \in [Stream -> 0..MaxLines] /\ written \in [Stream -> 0..MaxLines]
      /\ \A s \in Stream : read[s] <= written[s]
      /\ MaxLines \in Nat
  BY ShellAssumption DEF ShellInv, PumpTypes, PumpInv
<1>1. ASSUME UNCHANGED <<read, written>> PROVE Good
  <2>1. \A s \in Stream : written[s] <= written[s]
    BY <1>0, SMTT(60)
  <2> QED
    BY <1>0, <1>1, <2>1
<1>2. ASSUME NEW s \in Stream, WriteLine(s) PROVE Good
  <2>1. written["stdout"] + written["stderr"] < MaxLines /\ written' = [written EXCEPT ![s] = written[s] + 1]
        /\ read' = read
    BY <1>2 DEF WriteLine, pumpVars
  <2>2. \A o \in Stream : written[o] \in 0..MaxLines /\ read[o] \in 0..MaxLines
    BY <1>0
  <2>3. written[s] + 1 \in 0..MaxLines /\ written[s] <= written[s] + 1 /\ read[s] <= written[s] + 1
    <3>1. s = "stdout" \/ s = "stderr"
      BY DEF Stream
    <3>2. written["stdout"] \in 0..MaxLines /\ written["stderr"] \in 0..MaxLines
      BY <2>2 DEF Stream
    <3> QED
      BY <1>0, <2>1, <2>2, <3>1, <3>2, SMTT(60)
  <2>4. \A o \in Stream : written'[o] = IF o = s THEN written[s] + 1 ELSE written[o]
    BY <1>0, <2>1
  <2>5. \A o \in Stream : written[o] <= written[o]
    BY <2>2, SMTT(60)
  <2>6. written' \in [Stream -> 0..MaxLines]
    BY <1>0, <2>1, <2>3
  <2> QED
    BY <1>0, <2>1, <2>3, <2>4, <2>5, <2>6
<1>3. ASSUME NEW s \in Stream, PumpReads(s) PROVE Good
  <2>1. /\ pump[s] = "reads" /\ read[s] < written[s]
        /\ read' = [read EXCEPT ![s] = read[s] + 1] /\ written' = written
    BY <1>3 DEF PumpReads
  <2>2. \A o \in Stream : written[o] \in 0..MaxLines /\ read[o] \in 0..MaxLines
    BY <1>0
  <2>3. read[s] + 1 \in 0..MaxLines /\ read[s] + 1 <= written[s]
    BY <1>0, <2>1, <2>2, SMTT(60)
  <2>4. \A o \in Stream : read'[o] = IF o = s THEN read[s] + 1 ELSE read[o]
    BY <1>0, <2>1
  <2>5. \A o \in Stream : written[o] <= written[o]
    BY <2>2, SMTT(60)
  <2>6. read' \in [Stream -> 0..MaxLines]
    BY <1>0, <2>1, <2>3
  <2> QED
    BY <1>0, <2>1, <2>3, <2>4, <2>5, <2>6
<1>4. ASSUME Still \/ \E s \in Stream : PumpEnds(s) \/ PumpRaises(s) PROVE Good
  <2>1. (\E s \in Stream : PumpEnds(s) \/ PumpRaises(s)) => UNCHANGED <<read, written>>
    BY DEF PumpEnds, PumpRaises
  <2>2. Still => UNCHANGED <<read, written>>
    BY StillFrame, QuietFrame DEF Still, Quiet
  <2> QED
    BY <1>1, <1>4, <2>1, <2>2
<1>5. ASSUME Start \/ LastLine \/ LastFlush \/ Canceled PROVE Good
  BY <1>1, <1>5 DEF Start, LastLine, LastFlush, Canceled, pumpVars
<1>6. ASSUME NEW i \in inserts, Insert(i) \/ InsertRaises(i) PROVE Good
  BY <1>1, <1>6 DEF Insert, Resume, InsertRaises
<1> QED
  BY Kinds, <1>2, <1>3, <1>4, <1>5, <1>6 DEF Quiet, Still

(* Before the command is started nothing else can happen. *)
LEMMA FromStart ==
  ASSUME ShellInv, Next, pc = "start"
  PROVE  Start \/ Canceled
<1>1. AllAt("none") /\ inserts = {} /\ proc = "none" /\ child = "none"
  BY DEF ShellInv, StartInv
<1>2. \A s \in Stream : ~WriteLine(s) /\ ~PumpReads(s) /\ ~PumpEnds(s) /\ ~PumpRaises(s)
  BY <1>1 DEF WriteLine, PumpReads, PumpEnds, PumpRaises, AllAt, PipeHeld
<1>3. ~Waited /\ ~Drained /\ ~Finally /\ ~Timeout /\ ~LastLine /\ ~LastFlush
  BY DEF Waited, Drained, Finally, Timeout, LastLine, LastFlush
<1>4. ~Fork /\ ~ChildExits /\ ~(\E code \in {"exit 0", "exit 1"} : Exit(code))
  BY <1>1 DEF Fork, ChildExits, Exit
<1> QED
  BY Kinds, <1>1, <1>2, <1>3, <1>4 DEF Quiet

(* execute() is not left before the pumps are done or were never started. *)
LEMMA EndStep ==
  ASSUME ShellInv, Next, ~Ended, Ended'
  PROVE  pc' = "done" /\ (PumpsDone' \/ AllAt("none")')
<1> DEFINE Good == pc' = "done" /\ (PumpsDone' \/ AllAt("none")')
<1>1. ASSUME Finally PROVE Good
  BY <1>1 DEF Finally, PumpsDone, pumpVars
<1>2. ASSUME Start PROVE Good
  <2>1. AllAt("none")
    BY <1>2 DEF ShellInv, StartInv, Start
  <2>2. pc' = "done" /\ pump' = pump
    BY <1>2, Ended' DEF Start, Ended
  <2> QED
    BY <2>1, <2>2 DEF AllAt
<1>3. ASSUME Canceled PROVE Good
  <2>1. \/ pc = "start" /\ pc' = "done" /\ pump' = pump
        \/ pc' = "done" /\ CancelPumps
    BY <1>3, ~Ended, Ended' DEF Canceled, Ended
  <2>2. ASSUME CancelPumps PROVE PumpsDone'
    <3>1. CASE PumpsDone
      BY <2>2, <3>1 DEF CancelPumps, PumpsDone
    <3>2. CASE ~PumpsDone
      BY <2>2, <3>2 DEF CancelPumps, PumpsDone
    <3> QED
      BY <3>1, <3>2
  <2>3. pc = "start" => AllAt("none")
    BY DEF ShellInv, StartInv
  <2> QED
    BY <2>1, <2>2, <2>3 DEF AllAt
<1>4. ASSUME Waited \/ Drained \/ Timeout \/ Fork \/ ChildExits
             \/ (\E code \in {"exit 0", "exit 1"} : Exit(code))
             \/ (\E s \in Stream : WriteLine(s) \/ PumpReads(s) \/ PumpEnds(s) \/ PumpRaises(s))
      PROVE  FALSE
  BY <1>4, ~Ended, Ended' DEF Waited, Drained, Timeout, Fork, ChildExits, Exit, WriteLine,
     PumpReads, PumpEnds, PumpRaises, Ended
<1>5. ~LastLine /\ ~LastFlush
  BY ~Ended DEF LastLine, LastFlush, Ended
<1>6. ASSUME NEW i \in inserts, Insert(i) \/ InsertRaises(i) PROVE FALSE
  <2>1. Insert(i) => pc' \in {pc, "drain"} \/ Ended
    BY DEF Insert, Resume, Ended
  <2>2. InsertRaises(i) => pc' \in {pc, "finally"} \/ Ended
    BY DEF InsertRaises, Ended
  <2> QED
    BY <1>6, <2>1, <2>2, ~Ended, Ended' DEF Ended
<1> QED
  BY Kinds, <1>1, <1>2, <1>3, <1>4, <1>5, <1>6 DEF Quiet

(* The last flush leaves nothing in the buffer, and nobody logs after it. *)
LEMMA BufferStep ==
  ASSUME ShellInv, Next, AllAt("eof"), pc' \in {"write", "flush", "over"}
  PROVE  buf' = <<>>
<1>1. pc \in {"write", "flush", "over"} => buf = <<>>
  BY DEF ShellInv, PumpInv
<1>2. ASSUME Quiet PROVE buf' = <<>>
  <2>1. pc' \in {pc, "finally", "drain", "done"}
    BY <1>2 DEF Quiet, Waited, Drained, Finally, Timeout, Fork, ChildExits, Exit, WriteLine,
       PumpEnds, PumpRaises
  <2> QED
    BY <1>1, <1>2, <2>1, QuietFrame
<1>3. ~Start
  BY DEF Start
<1>4. ASSUME LastLine PROVE buf' = <<>>
  BY <1>4 DEF LastLine, Write, Flush
<1>5. ASSUME LastFlush PROVE buf' = <<>>
  BY <1>5 DEF LastFlush, Flush
<1>6. ASSUME Canceled PROVE buf' = <<>>
  BY <1>1, <1>6 DEF Canceled
<1>7. ASSUME NEW s \in Stream, PumpReads(s) PROVE FALSE
  BY <1>7 DEF PumpReads, AllAt
<1>8. ASSUME NEW i \in inserts, Insert(i) \/ InsertRaises(i) PROVE buf' = <<>>
  <2>1. buf' = buf
    BY <1>8 DEF Insert, InsertRaises
  <2>2. Insert(i) => pc' \in {pc, "drain", "last"} \/ pc = "flush"
    BY DEF Insert, Resume
  <2>3. InsertRaises(i) => pc' \in {pc, "finally"} \/ pc \in {"write", "flush"}
    BY DEF InsertRaises
  <2> QED
    BY <1>1, <1>8, <2>1, <2>2, <2>3
<1> QED
  BY Kinds, <1>2, <1>3, <1>4, <1>5, <1>6, <1>7, <1>8

(* Every step keeps what the invariant says of the pumps. *)
LEMMA PumpStep ==
  ASSUME ShellInv, Next
  PROVE  PumpTypes' /\ PumpInv'
<1>1. PumpTypes'
  BY PumpMoves, ReadStep DEF PumpTypes, PumpRange
<1>2. \A s \in Stream : read'[s] <= written'[s]
  BY ReadStep
<1>3. ASSUME NEW s \in Stream, pump'[s] = "eof" PROVE read'[s] = written'[s] /\ ~PipeHeld'
  <2>1. pump[s] = "eof" \/ (read[s] = written[s] /\ ~PipeHeld /\ read' = read)
    BY <1>3, PumpMoves DEF PumpStepOf
  <2>2. read[s] = written[s] /\ ~PipeHeld
    BY <2>1 DEF ShellInv, PumpInv
  <2>3. read'[s] = read[s]
    BY <2>1, ReadStep
  <2>4. pc # "start"
    <3>1. SUFFICES ASSUME pc = "start" PROVE FALSE
      OBVIOUS
    <3>2. AllAt("none")
      BY <3>1 DEF ShellInv, StartInv
    <3>3. Canceled => pump' = pump
      BY <3>1 DEF Canceled
    <3>4. Start => pump' = pump \/ pump' = [o \in Stream |-> "reads"]
      BY DEF Start
    <3> QED
      BY <1>3, <3>1, <3>2, <3>3, <3>4, FromStart DEF AllAt
  <2> QED
    BY <2>2, <2>3, <2>4, PipeStaysFree
<1>4. ASSUME Ended' PROVE PumpsDone' \/ AllAt("none")'
  <2>1. CASE ~Ended
    BY <1>4, <2>1, EndStep
  <2>2. CASE Ended
    <3>1. PumpsDone \/ AllAt("none")
      BY <2>2 DEF ShellInv, PumpInv
    <3>2. PumpsDone => PumpsDone'
      BY PumpMoves DEF PumpStepOf, PumpsDone
    <3> QED
      BY <2>2, <3>1, <3>2, PumpMoves
  <2> QED
    BY <2>1, <2>2
<1>5. ASSUME pc' \in {"write", "flush", "over"}, AllAt("eof")' PROVE buf' = <<>>
  <2>1. Ended' /\ pc' # "done"
    BY <1>5 DEF Ended
  <2>2. Ended
    BY <2>1, EndStep
  <2>3. PumpsDone \/ AllAt("none")
    BY <2>2 DEF ShellInv, PumpInv
  <2>4. ~AllAt("none")
    BY <1>5, <2>2, PumpMoves DEF AllAt, Stream
  <2>5. AllAt("eof")
    BY <1>5, <2>3, <2>4, PumpMoves DEF PumpsDone, AllAt, PumpStepOf
  <2> QED
    BY <1>5, <2>5, BufferStep
<1> QED
  BY <1>1, <1>2, <1>3, <1>4, <1>5 DEF PumpInv

-----------------------------------------------------------------------------
(* The command and the result.                                             *)

(* _terminate kills the command with its group. *)
LEMMA Terminated ==
  ASSUME CtlTypes, terminate, proc = "killed" => child # "alive"
  PROVE  /\ proc' # "running" /\ (proc' = "killed" => child' # "alive")
         /\ proc' \in {"none", "running", "exit 0", "exit 1", "killed"}
         /\ child' \in {"none", "alive", "gone"}
BY DEF CtlTypes, terminate, processes

(* A step counts at most one cancellation or one INSERT that raised. *)
LEMMA CountStep ==
  ASSUME Next
  PROVE  \/ UNCHANGED <<cancels, faults>>
         \/ cancels < MaxCancels /\ cancels' = cancels + 1 /\ faults' = faults
         \/ faults < MaxFaults /\ faults' = faults + 1 /\ cancels' = cancels
<1>1. Start \/ LastLine \/ LastFlush => UNCHANGED <<cancels, faults>>
  BY DEF Start, LastLine, LastFlush
<1>2. Canceled => cancels < MaxCancels /\ cancels' = cancels + 1 /\ faults' = faults
  BY DEF Canceled
<1>3. \A s \in Stream : PumpReads(s) => UNCHANGED <<cancels, faults>>
  BY DEF PumpReads
<1>4. \A i \in inserts : Insert(i) => UNCHANGED <<cancels, faults>>
  BY DEF Insert, Resume
<1>5. \A i \in inserts : InsertRaises(i) =>
         faults < MaxFaults /\ faults' = faults + 1 /\ cancels' = cancels
  BY DEF InsertRaises
<1> QED
  BY Kinds, QuietFrame, <1>1, <1>2, <1>3, <1>4, <1>5

(* execute() starts once. *)
LEMMA NoRestart ==
  ASSUME ShellInv, Next
  PROVE  pc' # "start"
<1>1. CASE pc = "start"
  BY <1>1, FromStart DEF Start, Canceled
<1>2. CASE pc # "start"
  <2>1. Quiet => pc' \in {pc, "finally", "drain", "done"}
    BY DEF Quiet, Waited, Drained, Finally, Timeout, Fork, ChildExits, Exit, WriteLine,
       PumpEnds, PumpRaises
  <2>2. Start \/ LastLine \/ LastFlush => pc' \in {"done", "wait", "write", "last", "over", "flush"}
    BY DEF Start, LastLine, LastFlush
  <2>3. Canceled => pc' \in {"done", "cancel", "drain", "finally", "over"}
    BY DEF Canceled
  <2>4. \A s \in Stream : PumpReads(s) => pc' = pc
    BY DEF PumpReads
  <2>5. \A i \in inserts : Insert(i) \/ InsertRaises(i) => pc' \in {pc, "drain", "last", "over", "finally"}
    BY DEF Insert, Resume, InsertRaises
  <2> QED
    BY Kinds, <1>2, <2>1, <2>2, <2>3, <2>4, <2>5
<1> QED
  BY <1>1, <1>2

(* A step of execute(), of process_run or of the command. *)
LEMMA CtlStep ==
  ASSUME ShellInv, Next
  PROVE  CtlTypes' /\ CountTypes' /\ StartInv' /\ ResultInv' /\ NoCommandLeft'
<1> DEFINE Good == CtlTypes' /\ ResultInv' /\ NoCommandLeft'
<1>0. /\ CtlTypes /\ ResultInv /\ NoCommandLeft
      /\ cancels \in Nat /\ faults \in Nat
  BY SMTT(60) DEF ShellInv, CountTypes
<1>1. ASSUME UNCHANGED <<pc, proc, child, script, cancels, result>> PROVE Good
  BY <1>0, <1>1 DEF CtlTypes, ResultInv, NoCommandLeft, Orderly, Ended
<1>2. ASSUME Start PROVE Good
  <2>1. /\ pc = "start" /\ proc = "none" /\ child = "none" /\ script = "none" /\ result = "none"
        /\ UNCHANGED <<child, cancels>>
        /\ \/ pc' = "done" /\ result' = "failed" /\ UNCHANGED <<proc, script>>
           \/ pc' = "wait" /\ proc' = "running" /\ script' \in {"none", "there"} /\ result' = result
    BY <1>0, <1>2 DEF Start, ShellInv, StartInv, ResultInv
  <2> QED
    BY <2>1 DEF CtlTypes, ResultInv, NoCommandLeft, Orderly, Ended
<1>3. ASSUME NEW code \in {"exit 0", "exit 1"}, Exit(code) PROVE Good
  <2>1. proc = "running" /\ proc' = code /\ UNCHANGED <<pc, child, script, cancels, result>>
    BY <1>3 DEF Exit
  <2> QED
    BY <1>0, <2>1 DEF CtlTypes, ResultInv, NoCommandLeft, Orderly, Ended
<1>4. ASSUME Fork \/ ChildExits PROVE Good
  <2>1. /\ UNCHANGED <<pc, proc, script, cancels, result>>
        /\ (proc = "running" /\ child' = "alive") \/ child' = "gone"
    BY <1>4 DEF Fork, ChildExits
  <2> QED
    BY <1>0, <2>1 DEF CtlTypes, ResultInv, NoCommandLeft, Orderly, Ended
<1>5. ASSUME NEW s \in Stream, WriteLine(s) \/ PumpReads(s) \/ PumpEnds(s) \/ PumpRaises(s) PROVE Good
  BY <1>1, <1>5 DEF WriteLine, PumpReads, PumpEnds, PumpRaises, processes
<1>6. ASSUME Waited PROVE Good
  <2>1. /\ pc = "wait" /\ proc \in {"exit 0", "exit 1"} /\ pc' = "finally"
        /\ UNCHANGED <<proc, child, script, cancels, result>>
    BY <1>6 DEF Waited, processes
  <2> QED
    BY <1>0, <2>1 DEF CtlTypes, ResultInv, NoCommandLeft, Orderly, Ended
<1>7. ASSUME Timeout PROVE Good
  <2>1. /\ pc = "wait" /\ pc' = "drain" /\ result' = "timed_out"
        /\ UNCHANGED <<script, cancels>>
        /\ proc' # "running" /\ (proc' = "killed" => child' # "alive")
        /\ proc' \in {"none", "running", "exit 0", "exit 1", "killed"}
        /\ child' \in {"none", "alive", "gone"}
    BY <1>0, <1>7, Terminated DEF Timeout, ResultInv
  <2> QED
    BY <1>0, <2>1 DEF CtlTypes, ResultInv, NoCommandLeft, Orderly, Ended
<1>8. ASSUME Drained PROVE Good
  <2>1. pc = "drain" /\ pc' = "finally" /\ UNCHANGED <<proc, child, script, cancels, result>>
    BY <1>8 DEF Drained, processes
  <2> QED
    BY <1>0, <2>1 DEF CtlTypes, ResultInv, NoCommandLeft, Orderly, Ended
<1>9. ASSUME Finally PROVE Good
  <2>1. /\ pc = "finally" /\ pc' = "done" /\ UNCHANGED <<proc, child, cancels>>
        /\ script' \in {script, "removed"}
        /\ result' = result \/ result' \in {"succeeded", "failed"}
        /\ result = "crashed" => result' = "crashed"
    BY <1>9 DEF Finally, processes
  <2> QED
    BY <1>0, <2>1 DEF CtlTypes, ResultInv, NoCommandLeft, Orderly, Ended
<1>10. ASSUME LastLine PROVE Good
  <2>1. /\ pc = "done" /\ UNCHANGED <<proc, child, script, cancels, result>>
        /\ pc' = "last" \/ (pc' = "write" /\ result \in {"canceled", "crashed"})
    BY <1>10 DEF LastLine, processes
  <2> QED
    BY <1>0, <2>1 DEF CtlTypes, ResultInv, NoCommandLeft, Orderly, Ended
<1>11. ASSUME LastFlush PROVE Good
  <2>1. pc = "last" /\ pc' \in {"over", "flush"} /\ UNCHANGED <<proc, child, script, cancels, result>>
    BY <1>11 DEF LastFlush, processes
  <2> QED
    BY <1>0, <2>1 DEF CtlTypes, ResultInv, NoCommandLeft, Orderly, Ended
<1>12. ASSUME Canceled PROVE Good
  <2>1. /\ cancels' = cancels + 1
        /\ \/ result' = "canceled"
           \/ result' = result /\ pc \in {"write", "flush"}
    BY <1>12 DEF Canceled
  <2>2. \/ /\ pc = "start" /\ pc' = "done" /\ script' \in {"none", "there"}
           /\ UNCHANGED <<proc, child>>
        \/ /\ pc = "wait" /\ pc' = "cancel" /\ UNCHANGED <<proc, child, script>>
        \/ /\ pc = "wait" /\ pc' = "drain" /\ UNCHANGED script /\ terminate
        \/ /\ pc = "cancel" /\ pc' = "finally" /\ UNCHANGED <<proc, child, script>>
        \/ /\ pc = "drain" /\ pc' = "finally" /\ UNCHANGED <<proc, child, script>>
        \/ /\ pc = "finally" /\ pc' = "done" /\ UNCHANGED <<proc, child, script>>
        \/ /\ pc \in {"write", "flush"} /\ pc' = "over" /\ UNCHANGED <<proc, child, script>>
    BY <1>12 DEF Canceled, processes
  <2>3. terminate => /\ proc' # "running" /\ (proc' = "killed" => child' # "alive")
                     /\ proc' \in {"none", "running", "exit 0", "exit 1", "killed"}
                     /\ child' \in {"none", "alive", "gone"}
    BY <1>0, Terminated DEF ResultInv
  <2>4. pc = "start" => proc = "none"
    BY DEF ShellInv, StartInv
  <2>5. cancels' >= 1 /\ (cancels >= 1 => ~(cancels' <= 1)) /\ (cancels' <= 1 => cancels <= 1)
    BY <1>0, <2>1, SMTT(60)
  <2> HIDE DEF terminate
  <2>6. CtlTypes'
    BY <1>0, <2>1, <2>2, <2>3 DEF CtlTypes
  <2>7. pc' \notin {"start", "wait"} /\ (proc' = "killed" => child' # "alive")
    BY <1>0, <2>2, <2>3 DEF ResultInv
  <2>8. ASSUME Orderly' PROVE pc # "cancel" /\ Orderly
    BY <1>0, <2>1, <2>5, <2>8 DEF ResultInv, Orderly
  <2>9. ASSUME Orderly' PROVE pc' # "cancel" => proc' # "running"
    BY <1>0, <2>2, <2>3, <2>4, <2>8, <2>9 DEF ResultInv, Ended
  <2>10. ASSUME Orderly', proc' = "running" PROVE script' # "removed"
    BY <1>0, <2>2, <2>3, <2>4, <2>8, <2>9, <2>10 DEF NoCommandLeft
  <2>11. ResultInv'
    BY <2>5, <2>7, <2>9 DEF ResultInv, Ended
  <2>12. NoCommandLeft'
    BY <2>7, <2>9, <2>10 DEF NoCommandLeft
  <2> QED
    BY <2>6, <2>11, <2>12
<1>13. ASSUME NEW i \in inserts, Insert(i) PROVE Good
  <2>1. /\ UNCHANGED <<script, cancels, result>>
        /\ \/ pc = "cancel" /\ pc' = "drain" /\ terminate
           \/ pc = "write" /\ pc' = "last" /\ UNCHANGED <<proc, child>>
           \/ pc = "flush" /\ pc' = "over" /\ UNCHANGED <<proc, child>>
           \/ pc' = pc /\ UNCHANGED <<proc, child>>
    BY <1>13 DEF Insert, Resume, processes
  <2>2. terminate => /\ proc' # "running" /\ (proc' = "killed" => child' # "alive")
                     /\ proc' \in {"none", "running", "exit 0", "exit 1", "killed"}
                     /\ child' \in {"none", "alive", "gone"}
    BY <1>0, Terminated DEF ResultInv
  <2> HIDE DEF terminate
  <2>3. CtlTypes'
    BY <1>0, <2>1, <2>2 DEF CtlTypes
  <2>4. Orderly' <=> Orderly
    BY <2>1 DEF Orderly
  <2>5. ResultInv'
    BY <1>0, <2>1, <2>2, <2>4 DEF ResultInv, Ended
  <2>6. Orderly' /\ proc' = "running" => script' # "removed"
    BY <1>0, <2>1, <2>2, <2>4 DEF NoCommandLeft
  <2>7. NoCommandLeft'
    BY <2>5, <2>6 DEF NoCommandLeft, ResultInv, Ended
  <2> QED
    BY <2>3, <2>5, <2>7
<1>14. ASSUME NEW i \in inserts, InsertRaises(i) PROVE Good
  <2>1. /\ UNCHANGED <<proc, child, script, cancels>>
        /\ \/ pc = "cancel" /\ pc' = "finally" /\ result' = "crashed"
           \/ pc \in {"write", "flush"} /\ pc' = "over" /\ result' = result
           \/ pc' = pc /\ result' = result
    BY <1>14 DEF InsertRaises, processes
  <2>2. CtlTypes'
    BY <1>0, <2>1 DEF CtlTypes
  <2>3. Orderly' => Orderly /\ (pc = "cancel" => pc' = "cancel")
    BY <1>0, <2>1 DEF Orderly, ResultInv
  <2>4. ResultInv'
    BY <1>0, <2>1, <2>3 DEF ResultInv, Ended
  <2>5. NoCommandLeft'
    BY <1>0, <2>1, <2>3, <2>4 DEF NoCommandLeft, ResultInv, Ended
  <2> QED
    BY <2>2, <2>4, <2>5
<1>15. Good
  BY Kinds, <1>2, <1>3, <1>4, <1>5, <1>6, <1>7, <1>8, <1>9, <1>10, <1>11, <1>12, <1>13, <1>14 DEF Quiet
<1>16. CountTypes'
  BY CountStep, ShellAssumption, SMTT(60) DEF ShellInv, CountTypes
<1> QED
  BY <1>15, <1>16, NoRestart DEF StartInv

-----------------------------------------------------------------------------
(* The order of a stream's lines.                                          *)

(* What makes s log alone was so before. *)
LEMMA AloneBefore ==
  ASSUME ShellInv, Next, NEW s \in Stream, Alone(s)'
  PROVE  Alone(s) /\ ~Canceled /\ \A i \in inserts : ~InsertRaises(i)
<1>1. cancels \in Nat /\ faults \in Nat /\ cancels' = 0 /\ faults' = 0
  BY SMTT(60) DEF ShellInv, CountTypes, Alone
<1>2. cancels = 0 /\ faults = 0
  BY <1>1, CountStep, SMTT(60)
<1>3. 0 + 1 # 0
  BY SMTT(60)
<1>4. ~Canceled /\ \A i \in inserts : ~InsertRaises(i)
  BY <1>1, <1>2, <1>3 DEF Canceled, InsertRaises
<1>5. ASSUME NEW o \in Stream PROVE pump[o] # "raised" /\ (o # s => written[o] = 0)
  <2>1. pump[o] # "raised"
    BY PumpMoves DEF PumpStepOf, Alone
  <2>2. written[o] \in 0..MaxLines /\ written[o] <= written'[o]
    BY ReadStep DEF ShellInv, PumpTypes
  <2>3. written'[o] = 0 => written[o] = 0
    BY <2>2, ShellAssumption, SMTT(60)
  <2> QED
    BY <2>1, <2>3 DEF Alone
<1> QED
  BY <1>2, <1>4, <1>5 DEF Alone

(* While s logs alone, a pump that reads or a task that flushes at the end *)
(* finds no INSERT under way.                                              *)
LEMMA NoInserts ==
  ASSUME ShellInv, NEW s \in Stream, Alone(s), pump[s] = "reads" \/ pc = "last"
  PROVE  inserts = {}
<1>1. \A x \in inserts : pump[s] = "waits" \/ pc = "flush"
  BY DEF ShellInv, OrderInv
<1>2. Ended => pump[s] \in {"eof", "none"}
  BY DEF ShellInv, PumpInv, PumpsDone, AllAt, Alone
<1> QED
  BY <1>1, <1>2 DEF Ended

(* Every step keeps the order of the lines of a stream that logs alone. *)
LEMMA OrderStep ==
  ASSUME ShellInv, Next
  PROVE  OrderInv'
<1> SUFFICES ASSUME NEW s \in Stream, Alone(s)'
             PROVE  /\ \A x \in inserts' : (x.by = s /\ pump'[s] = "waits") \/ (x.by = "end" /\ pc' = "flush")
                    /\ \A x, y \in inserts' : x = y
                    /\ OrderOf(s, buf', inserts', stored')
  BY DEF OrderInv
<1> DEFINE Good == /\ \A x \in inserts' : (x.by = s /\ pump'[s] = "waits") \/ (x.by = "end" /\ pc' = "flush")
                   /\ \A x, y \in inserts' : x = y
                   /\ OrderOf(s, buf', inserts', stored')
<1>0. Alone(s) /\ ~Canceled /\ \A i \in inserts : ~InsertRaises(i)
  BY AloneBefore
<1>1. /\ \A x \in inserts : (x.by = s /\ pump[s] = "waits") \/ (x.by = "end" /\ pc = "flush")
      /\ \A x, y \in inserts : x = y
      /\ OrderOf(s, buf, inserts, stored)
  BY <1>0 DEF ShellInv, OrderInv
<1>2. ASSUME UNCHANGED <<buf, inserts, stored>>,
             pump[s] = "waits" => pump'[s] = "waits", pc = "flush" => pc' = "flush"
      PROVE  Good
  BY <1>1, <1>2
<1>3. ASSUME Quiet PROVE Good
  <2>1. UNCHANGED <<buf, inserts, stored>>
    BY <1>3, QuietFrame
  <2>2. pump[s] = "waits" => pump'[s] = "waits"
    <3>1. Still \/ (\E o \in Stream : WriteLine(o)) => pump' = pump
      BY StillFrame DEF WriteLine, pumpVars
    <3>2. ASSUME NEW o \in Stream, PumpEnds(o) \/ PumpRaises(o), pump[s] = "waits" PROVE pump'[s] = "waits"
      <4>1. o # s
        BY <3>2 DEF PumpEnds, PumpRaises
      <4> QED
        BY <3>2, <4>1 DEF PumpEnds, PumpRaises, ShellInv, PumpTypes
    <3> QED
      BY <1>3, <3>1, <3>2 DEF Quiet, Still
  <2>3. pc = "flush" => pc' = "flush"
    BY <1>3 DEF Quiet, Waited, Drained, Finally, Timeout, Fork, ChildExits, Exit, WriteLine,
       PumpEnds, PumpRaises
  <2> QED
    BY <1>2, <2>1, <2>2, <2>3
<1>4. ASSUME Start PROVE Good
  <2>1. inserts = {} /\ buf = <<>> /\ inserts' = {} /\ stored' = stored /\ buf' \in {<<>>, <<System>>}
    <3>1. pc = "start" /\ UNCHANGED <<inserts, stored>> /\ buf' \in {<<>>, <<System>>}
      BY <1>4 DEF Start
    <3> QED
      BY <3>1 DEF ShellInv, StartInv
  <2>2. CASE buf' = <<>>
    BY <1>1, <2>1, <2>2
  <2>3. CASE buf' = <<System>>
    <3>1. buf' = Append(buf, System)
      BY <2>1, <2>3, SMTT(60)
    <3>2. \A m \in 1..MaxLines : <<s, m>> \in Real /\ System # <<s, m>>
      <4>1. \A m \in 1..MaxLines : <<s, m>> \in Real
        BY DEF Real
      <4> QED
        BY <4>1, SystemLine
    <3>3. buf \in Seq(Line)
      BY DEF ShellInv, LogTypes
    <3>4. OrderOf(s, Append(buf, System), inserts, stored)
      BY <1>1, <3>2, <3>3, SystemLine, WriteOrder
    <3> QED
      BY <2>1, <3>1, <3>4
  <2> QED
    BY <2>1, <2>2, <2>3
<1>5. ASSUME LastLine PROVE Good
  <2>1. result \notin {"canceled", "crashed"}
    <3>1. ~(cancels >= 1)
      BY <1>0, SMTT(60) DEF Alone
    <3> QED
      BY <3>1 DEF ShellInv, ResultInv
  <2>2. UNCHANGED <<buf, inserts, stored>> /\ pump' = pump /\ pc = "done"
    BY <1>5, <2>1 DEF LastLine, pumpVars
  <2> QED
    BY <1>2, <2>2
<1>6. ASSUME LastFlush PROVE Good
  <2>1. pc = "last" /\ pump' = pump /\ stored' = stored
    BY <1>6 DEF LastFlush, pumpVars
  <2>2. CASE buf = <<>>
    <3>1. UNCHANGED <<buf, inserts, stored>>
      BY <1>6, <2>1, <2>2 DEF LastFlush
    <3> QED
      BY <1>2, <2>1, <3>1
  <2>3. CASE buf # <<>>
    <3> DEFINE x == [by |-> "end", lines |-> buf]
    <3>1. inserts = {}
      BY <1>0, <2>1, NoInserts
    <3>2. buf' = <<>> /\ inserts' = {x} /\ pc' = "flush"
      BY <1>6, <2>3, <3>1 DEF LastFlush, Flush
    <3>3. x.lines = buf /\ x.by = "end"
      OBVIOUS
    <3> HIDE DEF x
    <3>4. OrderOf(s, <<>>, {x}, stored)
      BY <1>1, <3>1, <3>3, FlushLines
    <3> QED
      BY <2>1, <3>2, <3>3, <3>4
  <2> QED
    BY <2>2, <2>3
<1>7. ASSUME NEW o \in Stream, PumpReads(o) PROVE Good
  <2> DEFINE n == <<s, read[s] + 1>>
  <2> DEFINE b == Append(buf, n)
  <2>1. read[o] \in 0..MaxLines /\ read[o] < written[o] /\ MaxLines \in Nat /\ written[o] \in 0..MaxLines
    BY <1>7, ShellAssumption DEF PumpReads, ShellInv, PumpTypes
  <2>2. o = s
    <3>1. written[o] # 0
      BY <2>1, SMTT(60)
    <3> QED
      BY <1>0, <3>1 DEF Alone
  <2>3. pump[s] = "reads" /\ stored' = stored /\ Write(s, n)
    BY <1>7, <2>2 DEF PumpReads
  <2>4. inserts = {}
    BY <1>0, <2>3, NoInserts
  <2>5. buf \in Seq(Line) /\ n \in Line
    <3>1. read[s] + 1 \in 1..MaxLines
      BY <2>1, <2>2, SMTT(60)
    <3> QED
      BY <3>1 DEF Line, ShellInv, LogTypes
  <2>6. \A k, m \in 1..MaxLines : Place(buf, inserts, stored, <<s, k>>) /\ n = <<s, m>> => k < m
    <3>1. \A k \in 1..MaxLines : k <= read[s] => k < read[s] + 1
      BY <2>1, <2>2, SMTT(60)
    <3>2. \A m : n = <<s, m>> => m = read[s] + 1
      OBVIOUS
    <3> QED
      BY <3>1, <3>2 DEF ShellInv, ReadInv, Somewhere
  <2> HIDE DEF n
  <2>7. OrderOf(s, b, {}, stored)
    BY <1>1, <2>4, <2>5, <2>6, WriteOrder
  <2>8. CASE Full
    <3> DEFINE x == [by |-> s, lines |-> b]
    <3>1. buf' = <<>> /\ inserts' = {x}
      BY <2>3, <2>4, <2>8 DEF Write, Flush
    <3>2. pump'[s] = "waits"
      BY <1>7, <2>2, <2>8 DEF PumpReads, ShellInv, PumpTypes
    <3>3. x.lines = b /\ x.by = s
      OBVIOUS
    <3> HIDE DEF x, b
    <3>4. OrderOf(s, <<>>, {x}, stored)
      BY <2>7, <3>3, FlushLines
    <3> QED
      BY <2>3, <3>1, <3>2, <3>3, <3>4
  <2>9. CASE ~Full
    <3>1. buf' = b /\ inserts' = {}
      BY <2>3, <2>4, <2>9 DEF Write
    <3> QED
      BY <2>3, <2>7, <3>1
  <2> QED
    BY <2>8, <2>9
<1>8. ASSUME NEW i \in inserts, Insert(i) PROVE Good
  <2>1. inserts = {i}
    BY <1>1
  <2>2. inserts' = {} /\ buf' = buf /\ stored' = stored \o i.lines
    BY <1>8, <2>1 DEF Insert
  <2>3. stored \in Seq(Line) /\ i.lines \in Seq(Line)
    BY DEF ShellInv, LogTypes, InsertCall
  <2>4. OrderOf(s, buf, {}, stored \o i.lines)
    BY <1>1, <2>1, <2>3, StoreLines
  <2> QED
    BY <2>2, <2>4
<1> QED
  BY <1>0, <1>3, <1>4, <1>5, <1>6, <1>7, <1>8, Kinds

-----------------------------------------------------------------------------
(* The theorems.                                                           *)

(* The invariant holds at the start of process_run, ... *)
LEMMA ShellInit == Init => ShellInv
<1> SUFFICES ASSUME Init PROVE ShellInv
  OBVIOUS
<1> USE DEF Init
<1>1. CtlTypes /\ CountTypes
  BY ShellAssumption, SMTT(60) DEF CtlTypes, CountTypes
<1>2. PumpTypes
  <2>1. 0 \in 0..MaxLines
    BY ShellAssumption, SMTT(60)
  <2> QED
    BY <2>1 DEF PumpTypes
<1>3. LogTypes
  <2>1. <<>> \in Seq(Line) /\ Len(<<>>) < FlushEvery
    BY ShellAssumption, SMTT(60)
  <2> QED
    BY <2>1 DEF LogTypes
<1>4. StartInv
  BY DEF StartInv, AllAt
<1>5. ResultInv /\ NoCommandLeft
  BY DEF ResultInv, NoCommandLeft, Ended
<1>6. PumpInv
  <2>1. \A s \in Stream : read[s] = 0 /\ written[s] = 0 /\ pump[s] = "none"
    OBVIOUS
  <2>2. 0 <= 0
    BY SMTT(60)
  <2> QED
    BY <2>1, <2>2 DEF PumpInv, Ended
<1>7. \A l : ~ Has(<<>>, l) /\ Once(<<>>)
  BY EmptyLines
<1>8. UniqueInv
  BY <1>7 DEF UniqueInv, UniqueOf
<1>9. ReadInv
  <2>1. \A k \in 1..MaxLines : ~(k <= 0)
    BY ShellAssumption, SMTT(60)
  <2> QED
    BY <1>7, <2>1 DEF ReadInv, Somewhere, Place
<1>10. OrderInv
  BY EmptyLines DEF OrderInv, OrderOf
<1> QED
  BY <1>1, <1>2, <1>3, <1>4, <1>5, <1>6, <1>8, <1>9, <1>10 DEF ShellInv

(* ... and every step keeps it. *)
LEMMA ShellStep == ShellInv /\ [Next]_vars => ShellInv'
<1> SUFFICES ASSUME ShellInv, [Next]_vars PROVE ShellInv'
  OBVIOUS
<1>1. CASE Next
  BY <1>1, LogStep, PumpStep, CtlStep, OrderStep DEF ShellInv
<1>2. CASE UNCHANGED vars
  <2>1. /\ CtlTypes' /\ CountTypes' /\ PumpTypes' /\ LogTypes'
    BY <1>2 DEF ShellInv, vars, CtlTypes, CountTypes, PumpTypes, LogTypes
  <2>2. StartInv' /\ ResultInv' /\ NoCommandLeft'
    BY <1>2 DEF ShellInv, vars, StartInv, ResultInv, NoCommandLeft, AllAt, Ended, Orderly
  <2>3. PumpInv'
    BY <1>2 DEF ShellInv, vars, PumpInv, PipeHeld, PumpsDone, AllAt, Ended
  <2>4. UniqueInv' /\ ReadInv' /\ OrderInv'
    BY <1>2 DEF ShellInv, vars, UniqueInv, ReadInv, OrderInv, Somewhere, Alone
  <2> QED
    BY <2>1, <2>2, <2>3, <2>4 DEF ShellInv
<1> QED
  BY <1>1, <1>2

(* The variables of execute(), of the pumps and of LogBuffer have their    *)
(* types; the buffer never holds _FLUSH_EVERY lines between two steps.     *)
THEOREM ShellTypes == Spec => []TypeOK
<1>1. ShellInv => TypeOK
  BY DEF ShellInv, TypeOK, CtlTypes, CountTypes, PumpTypes, LogTypes, InsertCall
<1> QED
  BY ShellInit, ShellStep, <1>1, PTL DEF Spec

(* Unless it is canceled twice, or an INSERT raises in the branch for a    *)
(* cancellation, execute() leaves no command and removes no script that    *)
(* runs, for all numbers of lines, cancellations and failing INSERTs.      *)
THEOREM CommandsEnd == Spec => []NoCommandLeft
<1>1. ShellInv => NoCommandLeft
  BY DEF ShellInv
<1> QED
  BY ShellInit, ShellStep, <1>1, PTL DEF Spec

(* Every line that the command wrote is stored once, and in order if one   *)
(* stream logs alone, for all sizes of the buffer and numbers of lines.    *)
THEOREM LinesAreKept == Spec => []LinesKept
<1>1. ASSUME ShellInv PROVE LinesKept
  <2> SUFFICES ASSUME faults = 0, pc = "over", inserts = {}, \A o \in Stream : pump[o] = "eof",
                      NEW s \in Stream
               PROVE  LET mine == {i \in DOMAIN stored : stored[i][1] = s}
                      IN /\ {stored[i] : i \in mine} = {s} \X (1..written[s])
                         /\ \A i, k \in mine : stored[i] = stored[k] => i = k
                         /\ (cancels = 0 /\ \A o \in Stream \ {s} : written[o] = 0) =>
                               \A i, k \in mine : i < k => stored[i][2] < stored[k][2]
    BY DEF LinesKept
  <2> DEFINE mine == {i \in DOMAIN stored : stored[i][1] = s}
  <2>1. buf = <<>> /\ read[s] = written[s] /\ written[s] \in 0..MaxLines
    BY <1>1 DEF ShellInv, PumpInv, AllAt, PumpTypes
  <2>2. \A l : Somewhere(l) <=> Has(stored, l)
    BY <2>1, EmptyLines DEF Somewhere, Place
  <2>3. \A k \in 1..MaxLines : Has(stored, <<s, k>>) <=> k <= written[s]
    BY <1>1, <2>1, <2>2 DEF ShellInv, ReadInv
  <2>4. \A i \in DOMAIN stored : stored[i] \in Line
    BY <1>1, SMTT(60) DEF ShellInv, LogTypes
  <2>5. ASSUME NEW l \in Line, l[1] = s
        PROVE  l[2] \in 1..MaxLines /\ l = <<s, l[2]>> /\ l \in Real
    BY <2>5, SMTT(60) DEF Line, System, Stream, Real
  <2>6. \A k : k \in 1..written[s] <=> k \in 1..MaxLines /\ k <= written[s]
    BY <2>1, ShellAssumption, SMTT(60)
  <2>7. {stored[i] : i \in mine} = {s} \X (1..written[s])
    <3>1. ASSUME NEW i \in mine PROVE \E k \in 1..written[s] : stored[i] = <<s, k>>
      <4>1. stored[i][2] \in 1..MaxLines /\ stored[i] = <<s, stored[i][2]>>
        BY <2>4, <2>5
      <4>2. Has(stored, <<s, stored[i][2]>>)
        BY <4>1 DEF Has
      <4>3. stored[i][2] \in 1..written[s]
        BY <2>3, <2>6, <4>1, <4>2
      <4> QED
        BY <4>1, <4>3
    <3>2. ASSUME NEW k \in 1..written[s] PROVE \E i \in mine : stored[i] = <<s, k>>
      <4>1. PICK i \in DOMAIN stored : stored[i] = <<s, k>>
        BY <2>3, <2>6 DEF Has
      <4>2. <<s, k>>[1] = s
        OBVIOUS
      <4>3. i \in mine
        BY <4>1, <4>2
      <4> QED
        BY <4>1, <4>3
    <3>3. \A l : l \in {s} \X (1..written[s]) <=> \E k \in 1..written[s] : l = <<s, k>>
      BY SMTT(60)
    <3>4. \A l : l \in {stored[i] : i \in mine} <=> \E i \in mine : l = stored[i]
      OBVIOUS
    <3> HIDE DEF mine
    <3>5. ASSUME NEW l \in {stored[i] : i \in mine} PROVE l \in {s} \X (1..written[s])
      <4>1. PICK i \in mine : l = stored[i]
        BY <3>4
      <4>2. PICK k \in 1..written[s] : stored[i] = <<s, k>>
        BY <3>1
      <4> QED
        BY <3>3, <4>1, <4>2
    <3>6. ASSUME NEW l \in {s} \X (1..written[s]) PROVE l \in {stored[i] : i \in mine}
      <4>1. PICK k \in 1..written[s] : l = <<s, k>>
        BY <3>3
      <4>2. PICK i \in mine : stored[i] = <<s, k>>
        BY <3>2
      <4> QED
        BY <4>1, <4>2
    <3> QED
      BY <3>5, <3>6
  <2>8. \A i, k \in mine : stored[i] = stored[k] => i = k
    BY <1>1, <2>4, <2>5 DEF ShellInv, UniqueInv, UniqueOf, Once
  <2>9. ASSUME cancels = 0, \A o \in Stream \ {s} : written[o] = 0
        PROVE  \A i, k \in mine : i < k => stored[i][2] < stored[k][2]
    <3>1. Alone(s)
      BY <2>9 DEF Alone
    <3>2. Sorted(stored, s)
      BY <1>1, <3>1 DEF ShellInv, OrderInv, OrderOf
    <3>3. \A i \in mine : stored[i][2] \in 1..MaxLines /\ stored[i] = <<s, stored[i][2]>>
      BY <2>4, <2>5
    <3> SUFFICES ASSUME NEW i \in mine, NEW k \in mine, i < k
                 PROVE  stored[i][2] < stored[k][2]
      OBVIOUS
    <3>4. i \in DOMAIN stored /\ k \in DOMAIN stored
      OBVIOUS
    <3> HIDE DEF mine
    <3> QED
      BY <3>2, <3>3, <3>4 DEF Sorted
  <2> QED
    BY <2>7, <2>8, <2>9
<1> QED
  BY ShellInit, ShellStep, <1>1, PTL DEF Spec
=============================================================================
