---------------------------- MODULE MCScheduler ----------------------------
(* Instances of Scheduler for model checking. *)
EXTENDS Scheduler, TLC

CONSTANT nightly

(* A cron job that fires at every unit of time. *)
CronOnly == nightly :> [type |-> "cron", seconds |-> 1]
CronCreatedAt == nightly :> 0
=============================================================================
