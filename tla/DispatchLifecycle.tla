------------------------- MODULE DispatchLifecycle --------------------------
(***************************************************************************)
(* Dispatch as an implementation of RunLifecycle.  The refinement mapping  *)
(* is the identity on the table job_runs: what a run is promised does not  *)
(* speak of Redis, of tasks or of failures.                                *)
(***************************************************************************)
EXTENDS Dispatch

(* The dispatch path implements the promise of RunLifecycle: nothing comes *)
(* back to the queue, canceled is final, only a claimed run is finished.   *)
Lifecycle == INSTANCE RunLifecycle WITH runs <- runs, Jobs <- Jobs, max_retries <- max_retries
LifecycleSpec == Lifecycle!Spec
=============================================================================
