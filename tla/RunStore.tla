------------------------------ MODULE RunStore ------------------------------
(***************************************************************************)
(* The job_runs table in PostgreSQL and the transactions that write it     *)
(* (backend/common/models.py JobRun, backend/common/dispatch.py,           *)
(* backend/worker/store.py).  Each operator below is one committed         *)
(* transaction of the code, so one atomic step: PostgreSQL re-evaluates    *)
(* the WHERE clause of a conditional UPDATE on the row it locks.           *)
(*                                                                         *)
(* A row keeps its job, status and attempt.  Timestamps, worker_id, exit   *)
(* code, result and error text are left out: no guard of the dispatch      *)
(* path reads them.  retry_of is the run whose failure made the worker     *)
(* create this one (0 for every other row); the code writes that link into *)
(* the error text of the failed run.                                       *)
(***************************************************************************)
EXTENDS Naturals, Sequences

CONSTANTS
    Jobs,           \* the jobs of this instance
    max_retries,    \* Job.max_retries of each job
    MaxRuns         \* bound: rows the table may grow to

ASSUME RunStoreAssumption ==
    /\ max_retries \in [Jobs -> Nat]
    /\ MaxRuns \in Nat

VARIABLE runs       \* the table; a run id is a position in this sequence

ACTIVE == {"pending", "queued", "running"}
TERMINAL == {"succeeded", "failed", "timed_out", "canceled"}
RunStatus == ACTIVE \union TERMINAL

RunId == 1..MaxRuns

JobRun == [job : Jobs, status : RunStatus, attempt : Nat \ {0}, retry_of : RunId \union {0}]

RunStoreTypeOK ==
    /\ runs \in Seq(JobRun)
    /\ Len(runs) <= MaxRuns

Status(r) == runs[r].status

(* Mutant of create_run: attempts are counted from zero. *)
create_run_from_zero(j, n, parent) ==
    /\ Len(runs) < MaxRuns
    /\ runs' = Append(runs, [job |-> j, status |-> "queued", attempt |-> n - 1,
                             retry_of |-> parent])

(* INSERT of a queued row; the new id is Len(runs'). *)
create_run(j, n, parent) ==
    /\ Len(runs) < MaxRuns
    /\ runs' = Append(runs, [job |-> j, status |-> "queued", attempt |-> n, retry_of |-> parent])

(* Mutant of Claimable: allow_running is ignored. *)
Claimable_always(allow_running) == ACTIVE

(* The statuses from which claim_run may take a run. *)
Claimable(allow_running) ==
    IF allow_running THEN ACTIVE ELSE {"pending", "queued"}

(* UPDATE ... SET status = s WHERE id = r AND status IN from. *)
UpdateStatusFrom(r, from, s) ==
    runs' = IF Status(r) \in from THEN [runs EXCEPT ![r].status = s] ELSE runs

claim_run(r, allow_running) ==
    UpdateStatusFrom(r, Claimable(allow_running), "running")

cancel_run(r) ==
    UpdateStatusFrom(r, ACTIVE, "canceled")

(* Mutant of finish_run: the UPDATE does not ask for the status. *)
finish_run_unguarded(r, s) ==
    UpdateStatusFrom(r, RunStatus, s)

finish_run(r, s) ==
    UpdateStatusFrom(r, RunStatus \ {"canceled"}, s)

is_run_canceled(r) == Status(r) = "canceled"

should_retry(r) == runs[r].attempt <= max_retries[runs[r].job]
=============================================================================
