---------------------------- MODULE LeaderProofs ----------------------------
(***************************************************************************)
(* The leader election under the scheduler's loop, and the ticks that the  *)
(* leaders write, for any replicas, sessions, jobs, schedules and bounds.  *)
(* The election implements LeaderLock; one replica at most leads with a    *)
(* live session; no tick gets a second run; last_scheduled_for names a     *)
(* tick that has a run; and until a session is lost the ticks of a job are *)
(* written in order.                                                       *)
(***************************************************************************)
EXTENDS Scheduler, CronProofs

USE ZenonT(60)

(* A replica's sessions are its own. *)
OwnSessions ==
    \A p, q \in Replica : p # q => SessionsOf(p) \intersect SessionsOf(q) = {}

(* A leader has a connection, and while that is alive it has the lock. *)
LeadersHoldLock ==
    \A p \in Replica : is_leader[p] =>
        /\ conn[p] \in Session
        /\ conn[p] \in alive => conn[p] = lock

(* Before the first loss a replica in a tick has the lock. *)
TickersHoldLock ==
    losses = 0 => \A p \in Replica : ticking[p] => is_leader[p] /\ conn[p] = lock

(* The inductive invariant of the election. *)
EInv ==
    /\ ElectionTypeOK
    /\ OwnSessions
    /\ LeadersHoldLock
    /\ TickersHoldLock

-----------------------------------------------------------------------------
(* Where a connection comes from, and what is left of the pool then. *)
LEMMA Connecting ==
    ASSUME EInv, NEW p \in Replica, NEW s \in Connectable(p)
    PROVE  /\ s \in Session
           /\ \A q \in Replica : q # p => s \notin SessionsOf(q)
           /\ s \notin alive => s \notin Referenced
           /\ Rest(p) \in Seq(Session)
           /\ \A i \in 1..Len(Rest(p)) : Rest(p)[i] \in Pooled(p)
<1>1. pool[p] \in Seq(Session)
  BY DEF EInv, ElectionTypeOK
<1>2. CASE Reusable(p)
  <2>1. s = Head(pool[p]) /\ pool[p] # <<>> /\ s \in alive /\ Rest(p) = Tail(pool[p])
    BY <1>2 DEF Connectable, Reusable, Rest
  <2>2. s \in Session /\ s \in Pooled(p)
    BY <1>1, <2>1, SMTT(60) DEF Pooled
  <2>3. \A q \in Replica : q # p => s \notin SessionsOf(q)
    BY <2>2 DEF EInv, OwnSessions, SessionsOf
  <2>4. Rest(p) \in Seq(Session) /\ \A i \in 1..Len(Rest(p)) : Rest(p)[i] \in Pooled(p)
    BY <1>1, <2>1, SMTT(60) DEF Pooled
  <2> QED BY <2>1, <2>2, <2>3, <2>4
<1>3. CASE ~Reusable(p)
  <2>1. s \in Unused /\ Rest(p) = <<>>
    BY <1>3 DEF Connectable, New, Rest
  <2>2. s \in Session /\ s \notin Referenced
    BY <2>1 DEF Unused
  <2>3. \A q \in Replica : s \notin SessionsOf(q)
    BY <2>2 DEF Referenced
  <2>4. Rest(p) \in Seq(Session) /\ \A i \in 1..Len(Rest(p)) : Rest(p)[i] \in Pooled(p)
    BY <2>1, SMTT(60)
  <2> QED BY <2>2, <2>3, <2>4
<1> QED BY <1>2, <1>3

(* The pool after a session is returned to what is left of it. *)
LEMMA Returning ==
    ASSUME NEW S, NEW u \in Seq(S), NEW s \in S
    PROVE  /\ Append(u, s) \in Seq(S)
           /\ \A i \in 1..Len(Append(u, s)) :
                Append(u, s)[i] = s \/ \E k \in 1..Len(u) : Append(u, s)[i] = u[k]
BY SMTT(60)

(* What a step of the election has to do. *)
Good == EInv' /\ [Lock!Next]_<<holders, ticking>>

-----------------------------------------------------------------------------
(* The steps of Leader.acquire and tick(). *)
LEMMA ConfirmStep ==
    ASSUME EInv, NEW p \in Replica, Confirm(p)
    PROVE  Good
<1>1. EInv'
  <2>1. ElectionTypeOK'
    BY DEF EInv, ElectionTypeOK, Confirm
  <2>2. OwnSessions'
    BY SMTT(60) DEF EInv, OwnSessions, SessionsOf, Pooled, Confirm
  <2>3. LeadersHoldLock' /\ TickersHoldLock'
    BY DEF EInv, ElectionTypeOK, LeadersHoldLock, TickersHoldLock, Confirm
  <2> QED BY <2>1, <2>2, <2>3 DEF EInv
<1>2. Lock!StartTick(p)
  BY DEF EInv, ElectionTypeOK, LeadersHoldLock, Confirm, Lock!StartTick, Lock!Enter, holders
<1> QED BY <1>1, <1>2 DEF Good, Lock!Next

(* At most one replica holds the lock. *)
LEMMA OneHolder ==
    ASSUME EInv, NEW p \in Replica, p \in holders
    PROVE  holders = {p} /\ lock \in SessionsOf(p)
<1>1. lock = conn[p] /\ lock \in Session /\ lock \in SessionsOf(p)
  BY LeaderAssumption DEF EInv, LeadersHoldLock, SessionsOf, holders
<1>2. ASSUME NEW q \in Replica, q \in holders PROVE q = p
  <2>1. lock \in SessionsOf(q)
    BY <1>1, <1>2, LeaderAssumption DEF SessionsOf, holders
  <2> QED BY <1>1, <2>1 DEF EInv, OwnSessions
<1> QED BY <1>1, <1>2 DEF holders

(* The check of the connection fails. *)
LEMMA CheckStep ==
    ASSUME EInv, NEW p \in Replica, CheckFails(p)
    PROVE  Good
<1>p. /\ pool[p] \in Seq(Session) /\ conn[p] \in Session
      /\ pool \in [Replica -> Seq(Session)] /\ losses \in 0..MaxLosses /\ MaxLosses \in Nat
  BY LeaderAssumption DEF EInv, ElectionTypeOK, LeadersHoldLock, CheckFails
<1>1. \E rest \in {<<>>, Append(pool[p], conn[p])} : pool' = [pool EXCEPT ![p] = rest]
  BY DEF CheckFails
<1>2. PICK rest \in {<<>>, Append(pool[p], conn[p])} : pool' = [pool EXCEPT ![p] = rest]
  BY <1>1
<1>3. rest \in Seq(Session) /\ \A i \in 1..Len(rest) : rest[i] \in SessionsOf(p)
  <2>1. CASE rest = <<>>
    BY <2>1, SMTT(60)
  <2>2. CASE rest = Append(pool[p], conn[p])
    BY <1>p, <2>2, LeaderAssumption, SMTT(60) DEF SessionsOf, Pooled
  <2> QED BY <1>2, <2>1, <2>2
<1>4. losses' \in 0..MaxLosses /\ (losses' = 0 => losses = 0) /\ stops' = stops
  BY <1>p, SMTT(60) DEF CheckFails, Loss
<1>5. /\ ~ticking[p] /\ is_leader[p]
      /\ conn' = [conn EXCEPT ![p] = NoSession]
      /\ is_leader' = [is_leader EXCEPT ![p] = FALSE]
      /\ UNCHANGED <<alive, lock, ticking>>
  BY DEF CheckFails
<1>6. ElectionTypeOK'
  BY <1>2, <1>3, <1>4, <1>5 DEF EInv, ElectionTypeOK
<1>7. OwnSessions'
  <2>1. \A q \in Replica : q # p => SessionsOf(q)' = SessionsOf(q)
    BY <1>2, <1>5 DEF EInv, ElectionTypeOK, SessionsOf, Pooled
  <2>2. SessionsOf(p)' \subseteq SessionsOf(p)
    BY <1>2, <1>3, <1>5, SMTT(60) DEF EInv, ElectionTypeOK, SessionsOf, Pooled
  <2> QED BY <2>1, <2>2, SMTT(60) DEF EInv, OwnSessions
<1>8. LeadersHoldLock' /\ TickersHoldLock'
  BY <1>4, <1>5 DEF EInv, ElectionTypeOK, LeadersHoldLock, TickersHoldLock
<1>9. holders' = holders \ {p}
  BY <1>5 DEF EInv, ElectionTypeOK, holders
<1>10. CASE p \in holders
  <2>1. Lock!Lose(p)
    BY <1>5, <1>9, <1>10, OneHolder DEF Lock!Lose
  <2> QED BY <1>6, <1>7, <1>8, <2>1 DEF EInv, Good, Lock!Next
<1>11. CASE p \notin holders
  BY <1>5, <1>6, <1>7, <1>8, <1>9, <1>11 DEF EInv, Good
<1> QED BY <1>10, <1>11

(* A session that p may connect to is not the lock of anybody else. *)
LEMMA NotOthersLock ==
    ASSUME EInv, NEW p \in Replica, ~is_leader[p], NEW s \in Connectable(p),
           lock \in {NoSession, s}
    PROVE  /\ holders = {}
           /\ \A q \in Replica : ~(is_leader[q] /\ conn[q] = lock)
           /\ \A q \in Replica : ~(is_leader[q] /\ conn[q] \in alive \union {s})
<1>1. \A q \in Replica : q # p => s \notin SessionsOf(q)
  BY Connecting
<1>2. ASSUME NEW q \in Replica, is_leader[q]
      PROVE  conn[q] # lock /\ conn[q] # s /\ conn[q] \notin alive
  <2>1. q # p /\ conn[q] \in Session /\ conn[q] \in SessionsOf(q)
    BY <1>2, LeaderAssumption DEF EInv, LeadersHoldLock, SessionsOf
  <2>2. conn[q] # s /\ conn[q] # lock
    BY <1>1, <2>1, LeaderAssumption
  <2> QED BY <1>2, <2>2 DEF EInv, LeadersHoldLock
<1> QED BY <1>2 DEF holders

(* p connects to s, which goes to its pool or becomes its connection. *)
LEMMA ConnectedOwn ==
    ASSUME EInv, ElectionTypeOK', NEW p \in Replica, NEW s \in Connectable(p),
           NEW rest \in {<<>>, Rest(p), Append(Rest(p), s)}, NEW c \in {conn[p], s},
           pool' = [pool EXCEPT ![p] = rest], conn' = [conn EXCEPT ![p] = c]
    PROVE  OwnSessions'
<1>1. /\ s \in Session /\ \A q \in Replica : q # p => s \notin SessionsOf(q)
      /\ Rest(p) \in Seq(Session) /\ \A i \in 1..Len(Rest(p)) : Rest(p)[i] \in Pooled(p)
  BY Connecting
<1>2. \A i \in 1..Len(rest) : rest[i] = s \/ rest[i] \in Pooled(p)
  BY <1>1, Returning, SMTT(60)
<1>3. \A q \in Replica : q # p => SessionsOf(q)' = SessionsOf(q)
  BY SMTT(60) DEF EInv, ElectionTypeOK, SessionsOf, Pooled
<1>4. SessionsOf(p)' \subseteq SessionsOf(p) \union {s}
  BY <1>2, SMTT(60) DEF EInv, ElectionTypeOK, SessionsOf, Pooled
<1> QED BY <1>1, <1>3, <1>4, SMTT(60) DEF EInv, OwnSessions

(* The lock is granted. *)
LEMMA GrantStep ==
    ASSUME EInv, NEW p \in Replica, NEW s \in Connectable(p),
           ~ticking[p] /\ ~is_leader[p], alive' = alive \union {s}, LockGranted(p, s)
    PROVE  Good
<1>1. /\ s \in Session /\ Rest(p) \in Seq(Session)
  BY Connecting
<1>2. /\ holders = {}
      /\ \A q \in Replica : ~(is_leader[q] /\ conn[q] = lock)
      /\ \A q \in Replica : ~(is_leader[q] /\ conn[q] \in alive \union {s})
  BY NotOthersLock DEF LockGranted
<1>3. ElectionTypeOK'
  BY <1>1 DEF EInv, ElectionTypeOK, LockGranted
<1>4. OwnSessions'
  <2>1. pool' = [pool EXCEPT ![p] = Rest(p)] /\ conn' = [conn EXCEPT ![p] = s]
    BY DEF LockGranted
  <2>2. Rest(p) \in {<<>>, Rest(p), Append(Rest(p), s)} /\ s \in {conn[p], s}
    OBVIOUS
  <2> QED BY <1>3, <2>1, <2>2, ConnectedOwn
<1>5. LeadersHoldLock'
  BY <1>1, <1>2 DEF EInv, ElectionTypeOK, LeadersHoldLock, LockGranted
<1>6. TickersHoldLock'
  BY <1>2 DEF EInv, ElectionTypeOK, TickersHoldLock, LockGranted
<1>7. holders' = {p}
  <2>1. is_leader'[p] /\ conn'[p] = lock'
    BY DEF EInv, ElectionTypeOK, LockGranted
  <2>2. \A q \in Replica : q # p => ~(is_leader'[q] /\ conn'[q] = lock')
    BY <1>2 DEF EInv, ElectionTypeOK, LockGranted
  <2> QED BY <2>1, <2>2 DEF holders
<1>8. Lock!Elected(p)
  BY <1>2, <1>7 DEF EInv, ElectionTypeOK, LockGranted, Lock!Elected, Lock!Enter
<1> QED BY <1>3, <1>4, <1>5, <1>6, <1>8 DEF EInv, Good, Lock!Next

(* The lock is denied, or the answer gets lost. *)
LEMMA DeniedStep ==
    ASSUME EInv, NEW p \in Replica, NEW s \in Connectable(p),
           ~is_leader[p], alive' = alive \union {s}, LockDenied(p, s) \/ GrantLost(p, s)
    PROVE  Good
<1>1. /\ s \in Session /\ Rest(p) \in Seq(Session)
      /\ \A q \in Replica : q # p => s \notin SessionsOf(q)
      /\ s \notin alive => s \notin Referenced
  BY Connecting
<1>2. /\ \E rest \in {<<>>, Append(Rest(p), s)} : pool' = [pool EXCEPT ![p] = rest]
      /\ UNCHANGED <<conn, is_leader, ticking, stops>>
      /\ losses' \in 0..MaxLosses /\ (losses' = 0 => losses = 0 /\ lock' = lock)
      /\ lock' = lock \/ (lock' = s /\ lock \in {NoSession, s})
  BY LeaderAssumption, SMTT(60) DEF EInv, ElectionTypeOK, LockDenied, GrantLost, Loss
<1>r. PICK rest \in {<<>>, Append(Rest(p), s)} : pool' = [pool EXCEPT ![p] = rest]
  BY <1>2
<1>3. ElectionTypeOK'
  <2>1. <<>> \in Seq(Session) /\ Append(Rest(p), s) \in Seq(Session)
    BY <1>1, SMTT(60)
  <2>2. rest \in Seq(Session)
    BY <1>r, <2>1
  <2> QED BY <1>1, <1>2, <1>r, <2>2 DEF EInv, ElectionTypeOK
<1>4. OwnSessions'
  <2>1. conn' = [conn EXCEPT ![p] = conn[p]]
    BY <1>2 DEF EInv, ElectionTypeOK
  <2>2. rest \in {<<>>, Rest(p), Append(Rest(p), s)}
    BY <1>r
  <2> QED BY <1>3, <1>r, <2>1, <2>2, ConnectedOwn
<1>5. \A q \in Replica : is_leader[q] => conn[q] # s /\ (conn[q] = lock <=> conn[q] = lock')
  <2>1. \A q \in Replica : is_leader[q] => conn[q] # s /\ conn[q] # NoSession
    BY <1>1, LeaderAssumption DEF EInv, LeadersHoldLock, SessionsOf
  <2> QED BY <1>2, <2>1
<1>6. LeadersHoldLock' /\ TickersHoldLock'
  BY <1>2, <1>5 DEF EInv, LeadersHoldLock, TickersHoldLock
<1>7. holders' = holders
  BY <1>2, <1>5 DEF holders
<1> QED BY <1>2, <1>3, <1>4, <1>6, <1>7 DEF EInv, Good

(* tick() returns or raises. *)
LEMMA EndTickStep ==
    ASSUME EInv, NEW p \in Replica, EndTick(p) \/ TickRaises(p)
    PROVE  Good
<1>1. ElectionTypeOK' /\ OwnSessions'
  <2>1. CASE EndTick(p)
    <3>1. PICK s \in Connectable(p) :
            /\ alive' = alive \union {s}
            /\ pool' = [pool EXCEPT ![p] = Append(Rest(p), s)]
      BY <2>1 DEF EndTick
    <3>2. s \in Session /\ Append(Rest(p), s) \in Seq(Session)
      BY Connecting, SMTT(60)
    <3>3. ElectionTypeOK'
      BY <2>1, <3>1, <3>2 DEF EInv, ElectionTypeOK, EndTick
    <3>4. conn' = [conn EXCEPT ![p] = conn[p]]
      BY <2>1 DEF EInv, ElectionTypeOK, EndTick
    <3> QED BY <3>1, <3>3, <3>4, ConnectedOwn
  <2>2. CASE TickRaises(p)
    <3>1. ElectionTypeOK'
      BY <2>2, LeaderAssumption, SMTT(60) DEF EInv, ElectionTypeOK, TickRaises, Loss
    <3> QED BY <2>2, <3>1, SMTT(60) DEF EInv, OwnSessions, SessionsOf, Pooled, TickRaises
  <2> QED BY <2>1, <2>2
<1>2. /\ ticking[p] /\ ticking' = [ticking EXCEPT ![p] = FALSE]
      /\ UNCHANGED <<lock, conn, is_leader>>
      /\ losses' = 0 => losses = 0
  BY LeaderAssumption, SMTT(60) DEF EInv, ElectionTypeOK, EndTick, TickRaises, Loss
<1>3. \A q \in Replica : is_leader[q] /\ conn[q] \in alive' => conn[q] \in alive
  <2>1. ASSUME NEW s \in Connectable(p), NEW q \in Replica, is_leader[q], conn[q] = s, s \notin alive
        PROVE  FALSE
    <3>1. s \in Session /\ s \notin Referenced
      BY <2>1, Connecting
    <3> QED BY <2>1, <3>1, LeaderAssumption, SMTT(60) DEF Referenced, SessionsOf
  <2> QED BY <2>1 DEF EndTick, TickRaises
<1>4. LeadersHoldLock' /\ TickersHoldLock'
  BY <1>2, <1>3 DEF EInv, ElectionTypeOK, LeadersHoldLock, TickersHoldLock
<1>5. Lock!EndTick(p)
  BY <1>2 DEF Lock!EndTick, Lock!Leave, holders
<1> QED BY <1>1, <1>4, <1>5 DEF EInv, Good, Lock!Next

-----------------------------------------------------------------------------
(* The ends of processes and of sessions. *)
LEMMA ProcessStep ==
    ASSUME EInv, NEW p \in Replica, release(p) \/ Crash(p)
    PROVE  Good
<1>1. /\ conn' = [conn EXCEPT ![p] = NoSession]
      /\ is_leader' = [is_leader EXCEPT ![p] = FALSE]
      /\ pool' = [pool EXCEPT ![p] = <<>>]
      /\ ticking' = [ticking EXCEPT ![p] = FALSE]
      /\ stops' \in 0..MaxStops /\ losses' = losses
  BY LeaderAssumption, SMTT(60) DEF EInv, ElectionTypeOK, release, Crash, NewProcess, Stop
<1>2. /\ alive' \subseteq alive
      /\ lock' \in {lock, NoSession}
      /\ lock' # lock => lock \in SessionsOf(p)
  BY DEF release, Crash, EndSessions
<1>3. ElectionTypeOK'
  BY <1>1, <1>2, SMTT(60) DEF EInv, ElectionTypeOK
<1>4. OwnSessions'
  <2>1. \A q \in Replica : q # p => SessionsOf(q)' = SessionsOf(q)
    BY <1>1 DEF EInv, ElectionTypeOK, SessionsOf, Pooled
  <2>2. SessionsOf(p)' = {}
    BY <1>1, SMTT(60) DEF EInv, ElectionTypeOK, SessionsOf, Pooled
  <2> QED BY <2>1, <2>2 DEF EInv, OwnSessions
<1>5. \A q \in Replica : q # p /\ is_leader[q] => (conn[q] = lock <=> conn[q] = lock')
  <2>1. \A q \in Replica : is_leader[q] => conn[q] \in SessionsOf(q) /\ conn[q] # NoSession
    BY LeaderAssumption DEF EInv, LeadersHoldLock, SessionsOf
  <2> QED BY <1>2, <2>1 DEF EInv, OwnSessions
<1>6. LeadersHoldLock' /\ TickersHoldLock'
  BY <1>1, <1>2, <1>5 DEF EInv, ElectionTypeOK, LeadersHoldLock, TickersHoldLock
<1>7. holders' = holders \ {p}
  BY <1>1, <1>5 DEF EInv, ElectionTypeOK, holders
<1>8. Lock!End(p)
  BY <1>1, <1>7 DEF Lock!End, Lock!Leave
<1> QED BY <1>3, <1>4, <1>6, <1>8 DEF EInv, Good, Lock!Next

(* A session ends on the server. *)
LEMMA SessionStep ==
    ASSUME EInv, NEW s \in Session, SessionLost(s) \/ ServerDrops(s)
    PROVE  Good
<1>1. /\ UNCHANGED <<conn, is_leader, pool, ticking, stops>>
      /\ alive' = alive \ {s}
      /\ lock' = IF lock = s THEN NoSession ELSE lock
      /\ losses' \in 0..MaxLosses
      /\ losses' = 0 => losses = 0 /\ s \notin Referenced
  BY LeaderAssumption, SMTT(60) DEF EInv, ElectionTypeOK, SessionLost, ServerDrops, EndSessions, Loss
<1>2. ElectionTypeOK'
  BY <1>1 DEF EInv, ElectionTypeOK
<1>3. OwnSessions'
  BY <1>1, SMTT(60) DEF EInv, OwnSessions, SessionsOf, Pooled
<1>4. LeadersHoldLock'
  BY <1>1 DEF EInv, LeadersHoldLock
<1>5. TickersHoldLock'
  <2>1. \A q \in Replica : is_leader[q] => conn[q] \in Referenced
    BY LeaderAssumption, SMTT(60) DEF EInv, LeadersHoldLock, SessionsOf, Referenced
  <2> QED BY <1>1, <2>1 DEF EInv, TickersHoldLock
<1>6. CASE lock # s
  BY <1>1, <1>2, <1>3, <1>4, <1>5, <1>6 DEF EInv, Good, holders
<1>7. CASE lock = s
  <2>1. holders' = {}
    BY <1>1, <1>7, LeaderAssumption DEF EInv, LeadersHoldLock, holders
  <2>2. ASSUME NEW p \in Replica, p \in holders PROVE Lock!Lose(p)
    BY <1>1, <2>1, <2>2, OneHolder DEF Lock!Lose
  <2>3. CASE holders = {}
    BY <1>1, <1>2, <1>3, <1>4, <1>5, <2>1, <2>3 DEF EInv, Good
  <2>4. CASE holders # {}
    <3>1. PICK p \in Replica : p \in holders
      BY <2>4 DEF holders
    <3> QED BY <1>2, <1>3, <1>4, <1>5, <2>2, <3>1 DEF EInv, Good, Lock!Next
  <2> QED BY <2>3, <2>4
<1> QED BY <1>6, <1>7

(* Every step of the election is good, and so is a step that leaves it     *)
(* alone.                                                                  *)
LEMMA ElectionStep ==
    ASSUME EInv, [ElectionNext]_electionVars
    PROVE  Good
<1>1. ASSUME NEW p \in Replica, TryLock(p) PROVE Good
  <2>1. PICK s \in Connectable(p) :
          /\ alive' = alive \union {s}
          /\ LockGranted(p, s) \/ LockDenied(p, s) \/ GrantLost(p, s)
    BY <1>1 DEF TryLock
  <2>2. ~ticking[p] /\ ~is_leader[p]
    BY <1>1 DEF TryLock
  <2> QED BY <2>1, <2>2, GrantStep, DeniedStep
<1>2. ASSUME NEW p \in Replica, ReplicaStep(p) PROVE Good
  BY <1>1, <1>2, ConfirmStep, CheckStep, EndTickStep DEF ReplicaStep
<1>3. CASE UNCHANGED electionVars
  <2>1. ElectionTypeOK'
    BY <1>3 DEF EInv, ElectionTypeOK, electionVars
  <2>2. OwnSessions'
    BY <1>3, SMTT(60) DEF EInv, OwnSessions, SessionsOf, Pooled, electionVars
  <2>3. LeadersHoldLock' /\ TickersHoldLock'
    BY <1>3 DEF EInv, LeadersHoldLock, TickersHoldLock, electionVars
  <2>4. UNCHANGED <<holders, ticking>>
    BY <1>3 DEF holders, electionVars
  <2> QED BY <2>1, <2>2, <2>3, <2>4 DEF EInv, Good
<1> QED BY <1>2, <1>3, ProcessStep, SessionStep DEF ElectionNext

(* A step of the scheduler is a step of the election or none of its        *)
(* business: the modules are composed without loss.                        *)
LEMMA SchedulerStep ==
    ASSUME [Next]_vars
    PROVE  [ElectionNext]_electionVars
<1>1. ASSUME NEW p \in Replica, TickStep(p) PROVE [ElectionNext]_electionVars
  <2>1. CASE StartTick(p) \/ NotLeader(p) \/ TickDone(p)
    BY <2>1 DEF StartTick, NotLeader, TickDone, ElectionNext, ReplicaStep
  <2>2. CASE ReadJobs(p) \/ WriteRuns(p) \/ \E k \in RunKey : Enqueue(p, k)
    BY <2>2 DEF ReadJobs, WriteRuns, Commit, Enqueue, electionVars
  <2> QED BY <1>1, <2>1, <2>2 DEF TickStep
<1>2. ASSUME NEW p \in Replica, TickFails(p) \/ ReplicaEnds(p) PROVE [ElectionNext]_electionVars
  BY <1>2 DEF TickFails, ReplicaEnds, ElectionNext, ReplicaStep
<1>3. ASSUME NEW s \in Session, SessionEnds(s) PROVE [ElectionNext]_electionVars
  BY <1>3 DEF SessionEnds, ElectionNext
<1>4. CASE (\E k \in RunKey : ClaimRun(k)) \/ ClockTick \/ UNCHANGED vars
  BY <1>4 DEF ClaimRun, ClockTick, vars, electionVars
<1> QED BY <1>1, <1>2, <1>3, <1>4 DEF Next

(* Nobody leads at the start. *)
LEMMA ElectionStarts ==
    ASSUME ElectionInit
    PROVE  EInv /\ Lock!Init
<1>1. ElectionTypeOK
  BY LeaderAssumption, SMTT(60) DEF ElectionInit, ElectionTypeOK
<1>2. OwnSessions /\ LeadersHoldLock /\ TickersHoldLock
  BY SMTT(60) DEF ElectionInit, OwnSessions, SessionsOf, Pooled, LeadersHoldLock, TickersHoldLock
<1>3. Lock!Init
  BY DEF ElectionInit, Lock!Init, holders
<1> QED BY <1>1, <1>2, <1>3 DEF EInv

-----------------------------------------------------------------------------
(* The inductive invariant: whatever fails, the sessions of the replicas   *)
(* are disjoint and a leader with a live connection has the lock.          *)
THEOREM Elections == Spec => []EInv
<1>1. Init => EInv
  BY ElectionStarts DEF Init
<1>2. EInv /\ [Next]_vars => EInv'
  BY SchedulerStep, ElectionStep DEF Good
<1> QED BY <1>1, <1>2, PTL DEF Spec

(* Leader.acquire implements the lock of LeaderLock under the loop of the  *)
(* scheduler, through crashes, lost sessions, lost replies and sessions    *)
(* that go back to the pool with the lock.                                 *)
THEOREM LockImplemented == Spec => LockSpec
<1>1. Init => Lock!Init
  BY ElectionStarts DEF Init
<1>2. EInv /\ [Next]_vars => [Lock!Next]_<<holders, ticking>>
  BY SchedulerStep, ElectionStep DEF Good
<1> QED BY <1>1, <1>2, Elections, PTL DEF Spec, LockSpec, Lock!Spec

(* Of the replicas that believe to lead, one at most has a live session:   *)
(* pg_try_advisory_lock is answered once.                                  *)
THEOREM SoleLeader == Spec => []SoleLiveLeader
<1>1. EInv => SoleLiveLeader
  <2> SUFFICES ASSUME EInv, NEW p \in Replica, NEW q \in Replica,
                      is_leader[p], conn[p] \in alive, is_leader[q], conn[q] \in alive
               PROVE  p = q
    BY DEF SoleLiveLeader
  <2>1. p \in holders /\ q \in holders
    BY DEF EInv, LeadersHoldLock, holders
  <2> QED BY <2>1, OneHolder
<1> QED BY <1>1, Elections, PTL

(* Two replicas are inside tick() at once only after a loss. *)
THEOREM SingleLeader == Spec => []SingleActiveLeader
<1>1. EInv => SingleActiveLeader
  <2> SUFFICES ASSUME EInv, losses = 0, NEW p \in Replica, NEW q \in Replica,
                      ticking[p], ticking[q]
               PROVE  p = q
    BY DEF SingleActiveLeader
  <2>1. p \in holders /\ q \in holders
    BY DEF EInv, TickersHoldLock, holders
  <2> QED BY <2>1, OneHolder
<1> QED BY <1>1, Elections, PTL

(* The unique constraint on job and tick: whoever ticks, and however often *)
(* a tick is attempted, its run is created once and never queued again.    *)
THEOREM OneRunPerTick == Spec => TickRunsOnce
<1> DEFINE StatusOK == status \in [RunKey -> {"none", "queued", "claimed"}]
           Once == \A k \in Rows : status'[k] = status[k] \/ status'[k] = "claimed"
<1>1. Init => StatusOK
  BY DEF Init
<1>2. StatusOK /\ [Next]_vars => StatusOK' /\ Once
  <2> SUFFICES ASSUME StatusOK, [Next]_vars PROVE StatusOK' /\ Once
    OBVIOUS
  <2>1. ASSUME NEW p \in Replica, WriteRuns(p) PROVE StatusOK' /\ Once
    BY <2>1 DEF WriteRuns, Commit, Rows
  <2>2. ASSUME NEW k \in RunKey, ClaimRun(k) PROVE StatusOK' /\ Once
    BY <2>2 DEF ClaimRun, Rows
  <2>3. ASSUME status' = status PROVE StatusOK' /\ Once
    BY <2>3
  <2>4. ASSUME NEW p \in Replica, TickStep(p) PROVE StatusOK' /\ Once
    BY <2>1, <2>3, <2>4
    DEF TickStep, StartTick, NotLeader, ReadJobs, Enqueue, TickDone, schedVars, tableVars
  <2> QED BY <2>2, <2>3, <2>4
          DEF Next, TickFails, ReplicaEnds, SessionEnds, ClockTick, vars, schedVars, tableVars
<1>3. StatusOK /\ [Next]_vars => [Once]_vars
  BY <1>2
<1> QED BY <1>1, <1>2, <1>3, PTL DEF Spec, TickRunsOnce

-----------------------------------------------------------------------------
(* The ticks of a job.                                                     *)

(* What last_scheduled_for and due_tick's result can be. *)
Dates == (0..MaxClock) \union {NoTick}

(* The tables and the locals of tick(), with the times they can hold. *)
Dated ==
    /\ clock \in 0..MaxClock
    /\ last_scheduled_for \in [Jobs -> Dates]
    /\ status \in [RunKey -> {"none", "queued", "claimed"}]
    /\ now \in [Replica -> 0..MaxClock]
    /\ due \in [Replica -> [Jobs -> Dates]]

(* A replica that is anywhere in tick() is ticking, and due_tick's results *)
(* are gone once they are written.                                         *)
InTick ==
    /\ phase \in [Replica -> {"idle", "read", "write", "send"}]
    /\ \A p \in Replica : phase[p] # "idle" => ticking[p]
    /\ \A p \in Replica, j \in Jobs : due[p][j] # NoTick => phase[p] = "write"

(* The inductive invariant of tick() under any number of leaders. *)
SInv == Dated /\ InTick /\ LastHasRun

(* last_scheduled_for is the latest tick that has a run, and a replica is  *)
(* about to write later ones only.                                         *)
Ordered ==
    /\ \A k \in Rows : last_scheduled_for[k[1]] # NoTick /\ k[2] <= last_scheduled_for[k[1]]
    /\ \A p \in Replica, j \in Jobs :
          (due[p][j] # NoTick /\ last_scheduled_for[j] # NoTick) =>
              due[p][j] > last_scheduled_for[j]

(* The clock stops before datetime does. *)
LEMMA MaxClockInTime ==
    /\ 0..MaxClock \subseteq Time /\ 0..MaxClock \subseteq Nat
    /\ NoTick \notin 0..MaxClock /\ Raises \notin 0..MaxClock
BY SchedulerAssumption, CronAssumption, SMTT(60) DEF Time

(* due_tick returns a tick after the last one and not after now. *)
LEMMA DueTickLater ==
    ASSUME Dated, NEW p \in Replica, NEW j \in Jobs
    PROVE  /\ DueTick(p, j) \in Dates
           /\ (DueTick(p, j) # NoTick /\ last_scheduled_for[j] # NoTick) =>
                  DueTick(p, j) > last_scheduled_for[j]
<1> DEFINE base == IF last_scheduled_for[j] = NoTick THEN created_at[j] ELSE last_scheduled_for[j]
           n == now[p]
           s == schedule[j]
<1>1. /\ last_scheduled_for[j] \in Dates
      /\ n \in 0..MaxClock /\ n \in Time /\ n \in Nat
      /\ s \in Schedule /\ created_at[j] \in Time
  BY MaxClockInTime, SchedulerAssumption DEF Dated
<1>2. base \in Time /\ base \in (0..MaxClock) \union {created_at[j]}
  BY <1>1, MaxClockInTime DEF Dates
<1>3. DueTick(p, j) = due_tick(s, base, n)
  BY DEF DueTick
<1>4. \A t \in (0..MaxClock) \union {created_at[j]} : next_run_time(s, t) # Raises
  BY SchedulerAssumption
<1> HIDE DEF base, n, s
<1>5. PICK last : /\ IsLast(s, base, n, last)
                  /\ due_tick(s, base, n) = IF next_run_time(s, last) = Raises THEN Raises
                                            ELSE IF last = base THEN NoTick ELSE last
  <2>1. s \in Schedule /\ base \in Time /\ n \in Time
    BY <1>1, <1>2
  <2> QED
    BY ONLY <2>1, DueTickIsLatest
<1>6. last = base \/ (last \in 0..MaxClock /\ last > base)
  BY <1>1, <1>2, <1>5, SchedulerAssumption, CronAssumption, SMTT(60) DEF IsLast, FireTimes, Time
<1>7. next_run_time(s, last) # Raises
  BY <1>2, <1>4, <1>6
<1>8. DueTick(p, j) = NoTick \/ (DueTick(p, j) \in 0..MaxClock /\ DueTick(p, j) > base)
  BY <1>3, <1>5, <1>6, <1>7
<1> QED
  BY <1>8, MaxClockInTime DEF Dates, base

(* A step that leaves the tables alone, and at most forgets the locals of  *)
(* one replica.                                                            *)
Idles ==
    /\ clock' \in 0..MaxClock
    /\ UNCHANGED last_scheduled_for
    /\ status' \in [RunKey -> {"none", "queued", "claimed"}]
    /\ Rows' = Rows
    /\ now' \in [Replica -> 0..MaxClock]
    /\ due' \in [Replica -> [Jobs -> Dates]]
    /\ \A p \in Replica : due'[p] \in {due[p], NothingDue}

(* Such a step keeps the tables consistent and in order. *)
LEMMA IdleStep ==
    ASSUME SInv, Idles
    PROVE  Dated' /\ LastHasRun' /\ (Ordered => Ordered')
<1>1. Dated'
  BY DEF SInv, Dated, Idles
<1>2. LastHasRun'
  BY DEF SInv, LastHasRun, Idles
<1>3. \A p \in Replica, j \in Jobs : due'[p][j] # NoTick => due'[p][j] = due[p][j]
  BY DEF Idles, NothingDue
<1>4. Ordered => Ordered'
  BY <1>3 DEF Ordered, Idles
<1> QED
  BY <1>1, <1>2, <1>4

(* Forgetting the locals of tick(). *)
LEMMA ForgetStep ==
    ASSUME EInv, SInv, NEW p \in Replica, Forget(p), UNCHANGED <<clock, tableVars>>,
           \A q \in Replica : q # p => ticking'[q] = ticking[q]
    PROVE  Idles /\ InTick'
<1>1. UNCHANGED <<clock, last_scheduled_for, status>>
  BY DEF tableVars
<1>2. /\ phase' = [phase EXCEPT ![p] = "idle"] /\ now' = [now EXCEPT ![p] = 0]
      /\ due' = [due EXCEPT ![p] = NothingDue]
  BY DEF Forget
<1>3. NothingDue \in [Jobs -> Dates] /\ 0 \in 0..MaxClock
  BY SchedulerAssumption, CronAssumption, SMTT(60) DEF NothingDue, Dates, Time
<1>4. Idles
  BY <1>1, <1>2, <1>3 DEF Idles, SInv, Dated, Rows
<1>5. /\ phase' \in [Replica -> {"idle", "read", "write", "send"}]
      /\ phase'[p] = "idle" /\ due'[p] = NothingDue
      /\ \A q \in Replica : q # p => phase'[q] = phase[q] /\ due'[q] = due[q]
  BY <1>2 DEF SInv, InTick, Dated
<1>6. InTick'
  <2>1. \A q \in Replica : phase'[q] # "idle" => ticking'[q]
    BY <1>5 DEF SInv, InTick
  <2>2. \A q \in Replica, j \in Jobs : due'[q][j] # NoTick => phase'[q] = "write"
    <3>1. \A j \in Jobs : due'[p][j] = NoTick
      BY <1>5 DEF NothingDue
    <3>2. ASSUME NEW q \in Replica, NEW j \in Jobs, q # p, due'[q][j] # NoTick
          PROVE  phase'[q] = "write"
      <4>1. due[q][j] # NoTick /\ phase'[q] = phase[q]
        BY <1>5, <3>2
      <4> QED
        BY <4>1 DEF SInv, InTick
    <3> QED
      BY <3>1, <3>2
  <2> QED
    BY <1>5, <2>1, <2>2 DEF InTick
<1> QED
  BY <1>4, <1>6

(* The steps of tick() and of its surroundings, but for the commit. *)
LEMMA OtherStep ==
    ASSUME EInv, SInv, [Next]_vars
    PROVE  \/ Idles /\ InTick'
           \/ \E p \in Replica : ReadJobs(p) \/ WriteRuns(p)
<1>0. ticking \in [Replica -> BOOLEAN]
  BY DEF EInv, ElectionTypeOK
<1> DEFINE Stays == Idles /\ InTick'
<1>1. ASSUME NEW p \in Replica, StartTick(p) PROVE Stays
  <2>1. \A q \in Replica : q # p => ticking'[q] = ticking[q]
    BY <1>0, <1>1 DEF StartTick, Confirm, TryLock, LockGranted, LockDenied, GrantLost
  <2>2. /\ ticking'[p] /\ phase' = [phase EXCEPT ![p] = "read"]
        /\ now' = [now EXCEPT ![p] = clock] /\ due' = due
        /\ UNCHANGED <<clock, last_scheduled_for, status>>
    BY <1>1 DEF StartTick, tableVars
  <2>3. ~ticking[p]
    BY <1>1 DEF StartTick, Confirm, TryLock
  <2>4. Idles
    BY <2>2 DEF Idles, SInv, Dated, Rows
  <2>5. InTick'
    BY <2>1, <2>2, <2>3 DEF SInv, InTick
  <2> QED
    BY <2>4, <2>5
<1>2. ASSUME UNCHANGED <<clock, last_scheduled_for, status, now, due, phase>>,
             \A p \in Replica : ticking[p] => ticking'[p]
      PROVE  Stays
  <2>1. Idles
    BY <1>2 DEF Idles, SInv, Dated, Rows
  <2>2. InTick'
    BY <1>2 DEF SInv, InTick
  <2> QED
    BY <2>1, <2>2
<1>3. ASSUME NEW p \in Replica, NotLeader(p) PROVE Stays
  <2>1. \A q \in Replica : ticking[q] => ticking'[q]
    BY <1>0, <1>3 DEF NotLeader, CheckFails, TryLock, LockGranted, LockDenied, GrantLost
  <2> QED
    BY <1>2, <1>3, <2>1 DEF NotLeader, schedVars, tableVars, localVars
<1>4. ASSUME NEW p \in Replica, NEW k \in RunKey, Enqueue(p, k) PROVE Stays
  BY <1>2, <1>4 DEF Enqueue, tableVars, electionVars
<1>5. ASSUME NEW p \in Replica, TickDone(p) \/ TickFails(p) \/ ReplicaEnds(p) PROVE Stays
  <2>1. \A q \in Replica : q # p => ticking'[q] = ticking[q]
    BY <1>0, <1>5 DEF TickDone, TickFails, ReplicaEnds, EndTick, TickRaises, release, Crash,
                      NewProcess
  <2> QED
    BY <1>5, <2>1, ForgetStep DEF TickDone, TickFails, ReplicaEnds
<1>6. ASSUME NEW s \in Session, SessionEnds(s) PROVE Stays
  BY <1>2, <1>6 DEF SessionEnds, SessionLost, ServerDrops, schedVars, tableVars, localVars
<1>7. ASSUME NEW k \in RunKey, ClaimRun(k) PROVE Stays
  <2>1. /\ status[k] = "queued" /\ status' = [status EXCEPT ![k] = "claimed"]
        /\ UNCHANGED <<clock, last_scheduled_for, now, due, phase, ticking>>
    BY <1>7 DEF ClaimRun, localVars, electionVars
  <2>2. Idles
    BY <2>1 DEF Idles, SInv, Dated, Rows
  <2>3. InTick'
    BY <2>1 DEF SInv, InTick
  <2> QED
    BY <2>2, <2>3
<1>8. ASSUME ClockTick PROVE Stays
  <2>1. /\ clock < MaxClock /\ clock' = clock + 1
        /\ UNCHANGED <<last_scheduled_for, status, now, due, phase, ticking>>
    BY <1>8 DEF ClockTick, tableVars, localVars, electionVars
  <2>2. clock' \in 0..MaxClock
    BY <2>1, SchedulerAssumption, CronAssumption, SMTT(60) DEF SInv, Dated, Time
  <2>3. Idles
    BY <2>1, <2>2 DEF Idles, SInv, Dated, Rows
  <2>4. InTick'
    BY <2>1 DEF SInv, InTick
  <2> QED
    BY <2>3, <2>4
<1>9. ASSUME UNCHANGED vars PROVE Stays
  BY <1>2, <1>9 DEF vars, schedVars, tableVars, localVars, electionVars
<1> HIDE DEF Stays
<1>10. Stays \/ \E p \in Replica : ReadJobs(p) \/ WriteRuns(p)
  BY <1>1, <1>3, <1>4, <1>5, <1>6, <1>7, <1>8, <1>9 DEF Next, TickStep
<1> QED
  BY <1>10 DEF Stays

(* What a step does to the ticks of the jobs. *)
InOrder ==
    /\ \A k \in RunKey : (k \notin Rows /\ status'[k] # "none") =>
          \A l \in Rows : l[1] = k[1] => l[2] < k[2]
    /\ \A j \in Jobs : last_scheduled_for[j] # NoTick =>
          last_scheduled_for'[j] >= last_scheduled_for[j]

(* The SELECT of the jobs. *)
LEMMA ReadStep ==
    ASSUME SInv, NEW p \in Replica, ReadJobs(p)
    PROVE  /\ SInv' /\ (Ordered => Ordered')
           /\ UNCHANGED <<last_scheduled_for, status>>
<1>1. /\ phase[p] = "read" /\ phase' = [phase EXCEPT ![p] = "write"]
      /\ due' = [due EXCEPT ![p] = [j \in Jobs |-> DueTick(p, j)]]
      /\ UNCHANGED <<clock, last_scheduled_for, status, now, ticking>>
  BY DEF ReadJobs, tableVars, electionVars
<1>2. [j \in Jobs |-> DueTick(p, j)] \in [Jobs -> Dates]
  BY DueTickLater DEF SInv
<1>3. /\ due' \in [Replica -> [Jobs -> Dates]]
      /\ \A j \in Jobs : due'[p][j] = DueTick(p, j)
      /\ \A q \in Replica : q # p => due'[q] = due[q]
  BY <1>1, <1>2 DEF SInv, Dated
<1>4. Dated' /\ LastHasRun'
  BY <1>1, <1>3 DEF SInv, Dated, LastHasRun, Rows
<1>5. /\ phase' \in [Replica -> {"idle", "read", "write", "send"}]
      /\ phase'[p] = "write" /\ \A q \in Replica : q # p => phase'[q] = phase[q]
  BY <1>1 DEF SInv, InTick
<1>6. InTick'
  BY <1>1, <1>3, <1>5 DEF SInv, InTick
<1>7. ASSUME Ordered PROVE Ordered'
  <2>1. \A j \in Jobs : (due'[p][j] # NoTick /\ last_scheduled_for[j] # NoTick) =>
                            due'[p][j] > last_scheduled_for[j]
    BY <1>3, DueTickLater DEF SInv
  <2> QED
    BY <1>1, <1>3, <1>7, <2>1 DEF Ordered, Rows
<1> QED
  BY <1>1, <1>4, <1>6, <1>7 DEF SInv

(* The commit.  The runs that are due are there afterwards, whoever        *)
(* inserted them.                                                          *)
LEMMA WriteStep ==
    ASSUME SInv, NEW p \in Replica, WriteRuns(p)
    PROVE  /\ SInv' /\ phase[p] = "write" /\ UNCHANGED ticking
           /\ \A j \in Jobs : due'[p][j] = NoTick
           /\ \A q \in Replica : q # p => due'[q] = due[q]
           /\ \A j \in Jobs : last_scheduled_for'[j] = IF due[p][j] = NoTick
                                                       THEN last_scheduled_for[j] ELSE due[p][j]
           /\ Rows' = Rows \union DueRuns(p)
<1>1. /\ phase[p] = "write" /\ phase' = [phase EXCEPT ![p] = "send"]
      /\ status' = [k \in RunKey |-> IF k \in DueRuns(p) \ Rows THEN "queued" ELSE status[k]]
      /\ last_scheduled_for' = [j \in Jobs |-> IF due[p][j] = NoTick
                                               THEN last_scheduled_for[j] ELSE due[p][j]]
      /\ due' = [due EXCEPT ![p] = NothingDue]
      /\ now' = [now EXCEPT ![p] = 0]
      /\ UNCHANGED <<clock, ticking>>
  BY DEF WriteRuns, Commit, electionVars
<1>2. NothingDue \in [Jobs -> Dates] /\ 0 \in 0..MaxClock /\ \A j \in Jobs : NothingDue[j] = NoTick
  BY SchedulerAssumption, CronAssumption, SMTT(60) DEF NothingDue, Dates, Time
<1>3. \A j \in Jobs : due[p][j] \in Dates /\ last_scheduled_for[j] \in Dates
  BY DEF SInv, Dated
<1>4. DueRuns(p) \subseteq RunKey
  <2>1. \A j \in Jobs : due[p][j] # NoTick => <<j, due[p][j]>> \in RunKey
    BY <1>3, MaxClockInTime DEF RunKey, Dates
  <2> QED
    BY <2>1 DEF DueRuns
<1>5. Dated'
  BY <1>1, <1>2, <1>3 DEF SInv, Dated
<1>6. Rows' = Rows \union DueRuns(p)
  BY <1>1, <1>4 DEF Rows
<1>7. LastHasRun'
  <2> SUFFICES ASSUME NEW j \in Jobs, last_scheduled_for'[j] # NoTick
               PROVE  <<j, last_scheduled_for'[j]>> \in Rows'
    BY DEF LastHasRun
  <2>1. CASE due[p][j] = NoTick
    BY <1>1, <1>6, <2>1 DEF SInv, LastHasRun
  <2>2. CASE due[p][j] # NoTick
    BY <1>1, <1>6, <2>2 DEF DueRuns
  <2> QED
    BY <2>1, <2>2
<1>8. /\ due'[p] = NothingDue /\ \A q \in Replica : q # p => due'[q] = due[q]
      /\ phase' \in [Replica -> {"idle", "read", "write", "send"}]
      /\ phase'[p] = "send" /\ \A q \in Replica : q # p => phase'[q] = phase[q]
  BY <1>1 DEF SInv, Dated, InTick
<1>9. InTick'
  <2>1. \A q \in Replica : phase'[q] # "idle" => ticking'[q]
    BY <1>1, <1>8 DEF SInv, InTick
  <2>2. \A q \in Replica, j \in Jobs : due'[q][j] # NoTick => phase'[q] = "write"
    <3>1. \A j \in Jobs : due'[p][j] = NoTick
      BY <1>2, <1>8
    <3>2. ASSUME NEW q \in Replica, NEW j \in Jobs, q # p, due'[q][j] # NoTick
          PROVE  phase'[q] = "write"
      <4>1. due[q][j] # NoTick /\ phase'[q] = phase[q]
        BY <1>8, <3>2
      <4> QED
        BY <4>1 DEF SInv, InTick
    <3> QED
      BY <3>1, <3>2
  <2> QED
    BY <1>8, <2>1, <2>2 DEF InTick
<1> QED
  BY <1>1, <1>2, <1>5, <1>6, <1>7, <1>8, <1>9 DEF SInv

(* One leader after the other: what it writes is later than all there is. *)
LEMMA OrderedWrite ==
    ASSUME EInv, SInv, losses = 0, Ordered, NEW p \in Replica, WriteRuns(p)
    PROVE  Ordered' /\ InOrder
<1> DEFINE last == last_scheduled_for
<1>1. \A q \in Replica : phase[q] = "write" => q = p
  <2>1. ticking[p] /\ phase[p] = "write"
    BY WriteStep DEF SInv, InTick
  <2>2. \A q \in Replica : ticking[q] => q \in holders
    BY DEF EInv, TickersHoldLock, holders
  <2>3. \A q \in Replica : ticking[q] => q = p
    BY <2>1, <2>2, OneHolder
  <2> QED
    BY <2>3 DEF SInv, InTick
<1>2. \A q \in Replica, j \in Jobs : due'[q][j] = NoTick
  <2>1. /\ \A j \in Jobs : due'[p][j] = NoTick
        /\ \A q \in Replica : q # p => due'[q] = due[q]
    BY WriteStep
  <2>2. ASSUME NEW q \in Replica, NEW j \in Jobs, q # p PROVE due'[q][j] = NoTick
    <3>1. due'[q][j] = due[q][j] /\ phase[q] # "write"
      BY <1>1, <2>1, <2>2
    <3> QED
      BY <3>1 DEF SInv, InTick
  <2> QED
    BY <2>1, <2>2
<1>3. ASSUME NEW k \in DueRuns(p)
      PROVE  k[1] \in Jobs /\ due[p][k[1]] # NoTick /\ k[2] = due[p][k[1]] /\ k[2] \in 0..MaxClock
  <2>1. PICK j \in Jobs : due[p][j] # NoTick /\ k = <<j, due[p][j]>>
    BY <1>3 DEF DueRuns
  <2>2. k[1] = j /\ k[2] = due[p][j]
    BY <2>1
  <2>3. due[p][j] \in Dates
    BY DEF SInv, Dated
  <2> QED
    BY <2>1, <2>2, <2>3 DEF Dates
<1>4. ASSUME NEW j \in Jobs
      PROVE  /\ last'[j] = IF due[p][j] = NoTick THEN last[j] ELSE due[p][j]
             /\ (due[p][j] # NoTick /\ last[j] # NoTick) => due[p][j] > last[j]
             /\ due[p][j] \in Dates /\ last[j] \in Dates
  BY WriteStep DEF Ordered, SInv, Dated
<1>5. ASSUME NEW k \in Rows
      PROVE  /\ k[1] \in Jobs /\ k[2] \in Nat /\ last[k[1]] # NoTick /\ k[2] <= last[k[1]]
  BY CronAssumption, SMTT(60) DEF Ordered, Rows, RunKey, Time
<1> HIDE DEF last
<1>6. \A k \in Rows' : last'[k[1]] # NoTick /\ k[2] <= last'[k[1]]
  <2>1. ASSUME NEW k \in DueRuns(p) PROVE last'[k[1]] # NoTick /\ k[2] <= last'[k[1]]
    BY <1>3, <1>4, SMTT(60)
  <2>2. ASSUME NEW k \in Rows PROVE last'[k[1]] # NoTick /\ k[2] <= last'[k[1]]
    BY <1>4, <1>5, MaxClockInTime, SMTT(60) DEF Dates
  <2> QED
    BY <2>1, <2>2, WriteStep
<1>7. \A k \in DueRuns(p), l \in Rows : l[1] = k[1] => l[2] < k[2]
  BY <1>3, <1>4, <1>5, MaxClockInTime, SMTT(60) DEF Dates
<1>8. \A j \in Jobs : last[j] # NoTick => last'[j] >= last[j]
  BY <1>4, MaxClockInTime, SMTT(60) DEF Dates
<1>9. \A k \in RunKey : (k \notin Rows /\ status'[k] # "none") => k \in DueRuns(p)
  <2>1. \A k \in RunKey : status'[k] # "none" => k \in Rows'
    BY DEF Rows
  <2> QED
    BY <2>1, WriteStep
<1>10. InOrder
  BY <1>7, <1>8, <1>9 DEF InOrder, last
<1>11. Ordered'
  BY <1>2, <1>6 DEF Ordered, last
<1> QED
  BY <1>10, <1>11

(* Every step keeps the invariant; before the first loss, in order. *)
LEMMA TicksNext ==
    ASSUME EInv, SInv, [Next]_vars
    PROVE  SInv' /\ (losses = 0 /\ Ordered => Ordered' /\ InOrder)
<1>1. ASSUME UNCHANGED last_scheduled_for, Rows' = Rows PROVE InOrder
  <2>1. \A k \in RunKey : k \notin Rows => status'[k] = "none"
    BY <1>1 DEF Rows
  <2>2. \A j \in Jobs : last_scheduled_for[j] \in Dates
    BY DEF SInv, Dated
  <2>3. \A j \in Jobs : last_scheduled_for[j] # NoTick =>
            last_scheduled_for[j] >= last_scheduled_for[j]
    BY <2>2, MaxClockInTime, SMTT(60) DEF Dates
  <2> QED
    BY <1>1, <2>1, <2>3 DEF InOrder
<1>2. CASE Idles /\ InTick'
  <2>1. SInv' /\ (Ordered => Ordered')
    BY <1>2, IdleStep DEF SInv
  <2>2. InOrder
    BY <1>1, <1>2 DEF Idles
  <2> QED
    BY <2>1, <2>2
<1>3. ASSUME NEW p \in Replica, ReadJobs(p)
      PROVE  SInv' /\ (Ordered => Ordered') /\ InOrder
  <2>1. SInv' /\ (Ordered => Ordered') /\ UNCHANGED <<last_scheduled_for, status>>
    BY <1>3, ReadStep
  <2>2. Rows' = Rows
    BY <2>1 DEF Rows
  <2> QED
    BY <1>1, <2>1, <2>2
<1>4. ASSUME NEW p \in Replica, WriteRuns(p)
      PROVE  SInv' /\ (losses = 0 /\ Ordered => Ordered' /\ InOrder)
  <2>1. SInv'
    BY <1>4, WriteStep
  <2> QED
    BY <1>4, <2>1, OrderedWrite
<1> QED
  BY <1>2, <1>3, <1>4, OtherStep

(* Losses are counted and not forgotten. *)
LEMMA LossesCount ==
    ASSUME EInv, [Next]_vars, losses' = 0
    PROVE  losses = 0
<1>1. losses \in Nat
  BY LeaderAssumption, SMTT(60) DEF EInv, ElectionTypeOK
<1>2. losses' = losses \/ losses' = losses + 1
  <2>1. [ElectionNext]_electionVars
    BY SchedulerStep
  <2> QED
    BY <2>1 DEF ElectionNext, ReplicaStep, Confirm, CheckFails, TryLock, LockGranted, LockDenied,
                GrantLost, EndTick, TickRaises, release, Crash, SessionLost, ServerDrops, Stop,
                Loss, electionVars
<1> QED
  BY <1>1, <1>2, SMTT(60)

(* No job has a run at the start. *)
LEMMA TicksInit ==
    ASSUME Init
    PROVE  SInv /\ Ordered
<1>1. 0 \in 0..MaxClock /\ NothingDue \in [Jobs -> Dates] /\ \A j \in Jobs : NothingDue[j] = NoTick
  BY SchedulerAssumption, CronAssumption, SMTT(60) DEF NothingDue, Dates, Time
<1>2. /\ clock = 0 /\ last_scheduled_for = NothingDue
      /\ status = [k \in RunKey |-> "none"]
      /\ now = [p \in Replica |-> 0]
      /\ due = [p \in Replica |-> NothingDue]
      /\ phase = [p \in Replica |-> "idle"]
  BY DEF Init
<1>3. Rows = {}
  BY <1>2 DEF Rows
<1>4. Dated
  BY <1>1, <1>2 DEF Dated
<1>5. \A p \in Replica, j \in Jobs : due[p][j] = NoTick /\ phase[p] = "idle"
  BY <1>1, <1>2
<1>6. InTick
  BY <1>2, <1>5 DEF InTick
<1> QED
  BY <1>1, <1>2, <1>3, <1>4, <1>5, <1>6 DEF SInv, LastHasRun, Ordered

(* The tables are consistent, and in order until a loss. *)
LEMMA Ticks == Spec => [](SInv /\ (losses = 0 => Ordered))
<1>1. Init => SInv /\ (losses = 0 => Ordered)
  BY TicksInit
<1>2. EInv /\ SInv /\ (losses = 0 => Ordered) /\ [Next]_vars =>
          SInv' /\ (losses = 0 => Ordered)'
  BY TicksNext, LossesCount
<1> QED
  BY <1>1, <1>2, Elections, PTL DEF Spec

(* Bookkeeping matches the runs: whoever commits, and however many leaders *)
(* there are, last_scheduled_for names a tick that has a run.              *)
THEOREM LastTickHasRun == Spec => []LastHasRun
<1>1. SInv => LastHasRun
  BY DEF SInv
<1> QED
  BY <1>1, Ticks, PTL

(* While no session was lost, schedule_due_jobs creates the runs of a job  *)
(* in the order of their ticks, and last_scheduled_for only moves forward. *)
THEOREM TicksAreOrdered == Spec => TicksInOrder
<1>1. EInv /\ SInv /\ (losses = 0 => Ordered) /\ [Next]_vars => [losses = 0 => InOrder]_vars
  BY TicksNext
<1>2. Spec => [][losses = 0 => InOrder]_vars
  BY <1>1, Elections, Ticks, PTL DEF Spec
<1> QED
  BY <1>2 DEF TicksInOrder, InOrder
=============================================================================
