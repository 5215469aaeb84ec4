----------------------------- MODULE MCDispatch -----------------------------
(* Constants of the TLC instances of Dispatch. *)
EXTENDS DispatchLifecycle, TLC

OneRetry == [j \in Jobs |-> 1]
NoRetry == [j \in Jobs |-> 0]
Symmetry == Permutations(Msg) \union Permutations(Task) \union Permutations(Worker)
=============================================================================
