------------------------------- MODULE Leader -------------------------------
(***************************************************************************)
(* Leader election of the scheduler replicas: backend/scheduler/leader.py  *)
(* and the loop of backend/scheduler/main.py around it.                    *)
(*                                                                         *)
(* The lock is PostgreSQL's session-level advisory lock: it belongs to a   *)
(* server session, not to a process or a transaction.  Sessions outlive    *)
(* the Connection objects of the code: Connection.close() gives the        *)
(* session back to the pool of backend/common/db.py, which hands idle      *)
(* sessions out again first in, first out, after a ping (pool_pre_ping).   *)
(* A disconnect that the client notices discards the whole pool; the       *)
(* server ends the sessions nobody refers to some time later.              *)
(***************************************************************************)
EXTENDS Naturals, Sequences

CONSTANTS
    Replica,        \* scheduler processes; one that ends is replaced at once
    Session,        \* bound: server sessions that may be in use at once
    NoSession,      \* not a session
    MaxStops,       \* bound: crashes and shutdowns of replicas
    MaxLosses       \* bound: sessions, checks and replies that get lost

ASSUME LeaderAssumption ==
    /\ NoSession \notin Session
    /\ MaxStops \in Nat
    /\ MaxLosses \in Nat

VARIABLES
    alive,          \* the sessions alive on the server
    lock,           \* the session that holds the advisory lock
    conn,           \* Leader._conn of each replica
    is_leader,      \* Leader.is_leader of each replica
    pool,           \* the idle sessions in each replica's pool
    ticking,        \* is the replica inside tick()?
    stops, losses   \* how many there have been

electionVars == <<alive, lock, conn, is_leader, pool, ticking, stops, losses>>

ElectionTypeOK ==
    /\ alive \in SUBSET Session
    /\ lock \in Session \union {NoSession}
    /\ conn \in [Replica -> Session \union {NoSession}]
    /\ is_leader \in [Replica -> BOOLEAN]
    /\ pool \in [Replica -> Seq(Session)]
    /\ ticking \in [Replica -> BOOLEAN]
    /\ stops \in 0..MaxStops
    /\ losses \in 0..MaxLosses

ElectionInit ==
    /\ alive = {}
    /\ lock = NoSession
    /\ conn = [p \in Replica |-> NoSession]
    /\ is_leader = [p \in Replica |-> FALSE]
    /\ pool = [p \in Replica |-> <<>>]
    /\ ticking = [p \in Replica |-> FALSE]
    /\ stops = 0
    /\ losses = 0

-----------------------------------------------------------------------------
(* Sessions and the pool.                                                  *)

Pooled(p) == {pool[p][i] : i \in 1..Len(pool[p])}
SessionsOf(p) == Pooled(p) \union ({conn[p]} \ {NoSession})
Referenced == UNION {SessionsOf(p) : p \in Replica}

(* engine.connect(): the session idle longest, or a new one if the pool is *)
(* empty or the ping fails.  The name of a new session does not matter.    *)
Reusable(p) == pool[p] # <<>> /\ Head(pool[p]) \in alive
Unused == Session \ (alive \union Referenced)
New == {s \in Unused : s = CHOOSE n \in Unused : TRUE}
Connectable(p) == IF Reusable(p) THEN {Head(pool[p])} ELSE New
Rest(p) == IF Reusable(p) THEN Tail(pool[p]) ELSE <<>>

(* Ending a session frees the lock it holds. *)
EndSessions(S) ==
    /\ alive' = alive \ S
    /\ lock' = IF lock \in S THEN NoSession ELSE lock

Stop == stops < MaxStops /\ stops' = stops + 1 /\ UNCHANGED losses
Loss == losses < MaxLosses /\ losses' = losses + 1 /\ UNCHANGED stops

-----------------------------------------------------------------------------
(* Leader.acquire, and tick() behind it.                                   *)

(* Mutant of Confirm: the connection is not checked. *)
Confirm_unchecked(p) ==
    /\ ~ticking[p] /\ is_leader[p]
    /\ ticking' = [ticking EXCEPT ![p] = TRUE]
    /\ UNCHANGED <<alive, lock, conn, is_leader, pool, stops, losses>>

(* acquire: "SELECT 1" works on the leader's connection; tick() starts. *)
Confirm(p) ==
    /\ ~ticking[p] /\ is_leader[p]
    /\ conn[p] \in alive
    /\ ticking' = [ticking EXCEPT ![p] = TRUE]
    /\ UNCHANGED <<alive, lock, conn, is_leader, pool, stops, losses>>

(* acquire: "SELECT 1" raises, _reset drops the connection.  A disconnect, *)
(* which a dead session always is and a network fault may be, discards it; *)
(* after any other error close() returns the session to the pool.          *)
CheckFails(p) ==
    /\ ~ticking[p] /\ is_leader[p]
    /\ \/ /\ conn[p] \notin alive
          /\ pool' = [pool EXCEPT ![p] = <<>>]
          /\ UNCHANGED <<stops, losses>>
       \/ /\ conn[p] \in alive
          /\ Loss
          /\ \E rest \in {<<>>, Append(pool[p], conn[p])} :
                pool' = [pool EXCEPT ![p] = rest]
    /\ conn' = [conn EXCEPT ![p] = NoSession]
    /\ is_leader' = [is_leader EXCEPT ![p] = FALSE]
    /\ UNCHANGED <<alive, lock, ticking>>

(* Mutant of LockGranted: the answer of pg_try_advisory_lock is ignored. *)
LockGranted_unchecked(p, s) ==
    /\ lock' = IF lock = NoSession THEN s ELSE lock
    /\ conn' = [conn EXCEPT ![p] = s]
    /\ is_leader' = [is_leader EXCEPT ![p] = TRUE]
    /\ ticking' = [ticking EXCEPT ![p] = TRUE]
    /\ pool' = [pool EXCEPT ![p] = Rest(p)]
    /\ UNCHANGED <<stops, losses>>

(* acquire: connect and pg_try_advisory_lock.  The lock is reentrant in a  *)
(* session.                                                                *)
LockGranted(p, s) ==
    /\ lock \in {NoSession, s}
    /\ lock' = s
    /\ conn' = [conn EXCEPT ![p] = s]
    /\ is_leader' = [is_leader EXCEPT ![p] = TRUE]
    /\ ticking' = [ticking EXCEPT ![p] = TRUE]
    /\ pool' = [pool EXCEPT ![p] = Rest(p)]
    /\ UNCHANGED <<stops, losses>>

LockDenied(p, s) ==
    /\ lock \notin {NoSession, s}
    /\ pool' = [pool EXCEPT ![p] = Append(Rest(p), s)]
    /\ UNCHANGED <<lock, conn, is_leader, ticking, stops, losses>>

(* The server grants the lock and the connection breaks before the answer. *)
GrantLost(p, s) ==
    /\ lock \in {NoSession, s}
    /\ Loss
    /\ lock' = s
    /\ pool' = [pool EXCEPT ![p] = <<>>]
    /\ UNCHANGED <<conn, is_leader, ticking>>

TryLock(p) ==
    /\ ~ticking[p] /\ ~is_leader[p]
    /\ \E s \in Connectable(p) :
        /\ alive' = alive \union {s}
        /\ LockGranted(p, s) \/ LockDenied(p, s) \/ GrantLost(p, s)

(* tick() works on a session of its own and returns. *)
EndTick(p) ==
    /\ ticking[p]
    /\ ticking' = [ticking EXCEPT ![p] = FALSE]
    /\ \E s \in Connectable(p) :
        /\ alive' = alive \union {s}
        /\ pool' = [pool EXCEPT ![p] = Append(Rest(p), s)]
    /\ UNCHANGED <<lock, conn, is_leader, stops, losses>>

(* A call of tick() raises; main() logs it and polls again. *)
TickRaises(p) ==
    /\ ticking[p]
    /\ Loss
    /\ ticking' = [ticking EXCEPT ![p] = FALSE]
    /\ UNCHANGED <<alive, lock, conn, is_leader, pool>>

-----------------------------------------------------------------------------
(* Ends of processes and of sessions.                                      *)

NewProcess(p) ==
    /\ conn' = [conn EXCEPT ![p] = NoSession]
    /\ is_leader' = [is_leader EXCEPT ![p] = FALSE]
    /\ pool' = [pool EXCEPT ![p] = <<>>]
    /\ ticking' = [ticking EXCEPT ![p] = FALSE]

(* SIGTERM: the loop ends, release() unlocks, and the exit closes the      *)
(* process's sessions.                                                     *)
release(p) ==
    /\ ~ticking[p]
    /\ Stop
    /\ EndSessions(SessionsOf(p))
    /\ NewProcess(p)

(* The process or its host dies; the server has yet to notice. *)
Crash(p) ==
    /\ SessionsOf(p) # {}
    /\ Stop
    /\ NewProcess(p)
    /\ UNCHANGED <<alive, lock>>

(* The server ends a session that a replica still uses (a restart, an      *)
(* idle timeout, a connection cut in between).                             *)
SessionLost(s) ==
    /\ s \in alive \intersect Referenced
    /\ Loss
    /\ EndSessions({s})
    /\ UNCHANGED <<conn, is_leader, pool, ticking>>

(* The server notices that nobody is at the other end of a session. *)
ServerDrops(s) ==
    /\ s \in alive \ Referenced
    /\ EndSessions({s})
    /\ UNCHANGED <<conn, is_leader, pool, ticking, stops, losses>>

-----------------------------------------------------------------------------
ReplicaStep(p) == Confirm(p) \/ CheckFails(p) \/ TryLock(p) \/ EndTick(p) \/ TickRaises(p)

ElectionNext ==
    \/ \E p \in Replica : ReplicaStep(p) \/ release(p) \/ Crash(p)
    \/ \E s \in Session : SessionLost(s) \/ ServerDrops(s)

ElectionSpec == ElectionInit /\ [][ElectionNext]_electionVars

-----------------------------------------------------------------------------
(* Properties.                                                             *)

(* Two replicas may both believe that they lead, but only one of them has  *)
(* a live session behind its belief: the other fails its next check.       *)
SoleLiveLeader ==
    \A p, q \in Replica :
        (/\ is_leader[p] /\ conn[p] \in alive
         /\ is_leader[q] /\ conn[q] \in alive) => p = q

(* The election implements LeaderLock: a replica holds the lock if its own *)
(* connection has it.  The lock passes on only by being free in between,   *)
(* and acquire() lets no replica into tick() that does not hold it then.   *)
holders == {p \in Replica : is_leader[p] /\ conn[p] = lock}
Lock == INSTANCE LeaderLock WITH holders <- holders, ticking <- ticking, Replica <- Replica
LockSpec == Lock!Spec

(* scheduler/main.py: "a Postgres advisory lock ensures a single active    *)
(* leader".  No two replicas are inside tick() at once, as long as no      *)
(* session was lost: the lock is checked before a tick, not during it.     *)
SingleActiveLeader ==
    losses = 0 => \A p, q \in Replica : ticking[p] /\ ticking[q] => p = q
=============================================================================
