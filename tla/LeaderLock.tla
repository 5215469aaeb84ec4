----------------------------- MODULE LeaderLock -----------------------------
(***************************************************************************)
(* What the leader election promises to the scheduler's loop: the lock has *)
(* one holder at most, passes from one replica to another only by being    *)
(* free in between, and a replica starts a tick only while it is the       *)
(* holder.  It does NOT promise that the holder keeps the lock while it    *)
(* ticks: a replica may lose it at any moment and go on.                   *)
(***************************************************************************)
CONSTANT Replica

VARIABLES
    holders,        \* the replicas that hold the lock
    ticking         \* is a replica inside tick()?

Init ==
    /\ holders = {}
    /\ ticking = [p \in Replica |-> FALSE]

Enter(p) == ~ticking[p] /\ ticking' = [ticking EXCEPT ![p] = TRUE]
Leave(p) == ticking' = [ticking EXCEPT ![p] = FALSE]

(* A replica gets the free lock and starts a tick. *)
Elected(p) == holders = {} /\ holders' = {p} /\ Enter(p)

StartTick(p) == p \in holders /\ UNCHANGED holders /\ Enter(p)

EndTick(p) == ticking[p] /\ UNCHANGED holders /\ Leave(p)

Lose(p) == holders = {p} /\ holders' = {} /\ UNCHANGED ticking

(* The process of a replica ends, in a tick or not. *)
End(p) == holders' = holders \ {p} /\ Leave(p)

Next ==
    \E p \in Replica : Elected(p) \/ StartTick(p) \/ EndTick(p) \/ Lose(p) \/ End(p)

Spec == Init /\ [][Next]_<<holders, ticking>>
=============================================================================
