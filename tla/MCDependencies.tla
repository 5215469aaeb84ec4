--------------------------- MODULE MCDependencies ---------------------------
(* Instances of Dependencies for model checking. *)
EXTENDS Dependencies, TLC

CONSTANTS left, right, report

(* left and right have the same part in Join. *)
Symmetry == Permutations(Task) \union Permutations(Request) \union Permutations({left, right})

NoRetry == [j \in Jobs |-> 0]

(* report needs left and right. *)
Join == (left :> {}) @@ (right :> {}) @@ (report :> {left, right})

(* So many triggers, and so many other disturbances, of each kind one at  *)
(* most.                                                                   *)
Users(trigger, disturbances) ==
    [k \in {"trigger", "schedule", "retry", "cancel", "update", "delete", "crash", "any"} |->
        CASE k = "trigger" -> trigger
          [] k = "any" -> disturbances
          [] OTHER -> 1]

OneDisturbance == Users(1, 1)
TwoTriggers == Users(2, 0)
=============================================================================
