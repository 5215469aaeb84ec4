---------------------------- MODULE RunLifecycle ----------------------------
(***************************************************************************)
(* What the dispatch path promises about a run, whatever crashes, stalls,  *)
(* duplicate deliveries and failed calls occur, seen only in the table of  *)
(* runs:                                                                   *)
(*   - a row never disappears and keeps its job and attempt number;        *)
(*   - a run leaves the queue once, by being claimed or canceled, and      *)
(*     never returns to it;                                                *)
(*   - only a run that was claimed gets an outcome;                        *)
(*   - canceled is final;                                                  *)
(*   - a retry has the job of the run it retries and the next attempt      *)
(*     number, and that run has left the queue; one that the worker made   *)
(*     is within the job's max_retries.                                    *)
(* It does NOT promise that an outcome is final, nor that a run has one    *)
(* retry: a run executed twice may change its outcome and may retry twice. *)
(***************************************************************************)
EXTENDS Naturals, Sequences

CONSTANTS Jobs, max_retries

VARIABLE runs

New(j, n, parent) ==
    [job |-> j, status |-> "queued", attempt |-> n, retry_of |-> parent]

Outcome == {"succeeded", "failed", "timed_out"}

Init == runs = <<>>

Trigger == \E j \in Jobs : runs' = Append(runs, New(j, 1, 0))

(* A user may retry whatever the limit is; parent 0 marks those rows. *)
Retry(r) ==
    /\ runs[r].status # "queued"
    /\ \E parent \in {0, r} :
        /\ parent = r => runs[r].attempt <= max_retries[runs[r].job]
        /\ runs' = Append(runs, New(runs[r].job, runs[r].attempt + 1, parent))

Claim(r) ==
    /\ runs[r].status = "queued"
    /\ runs' = [runs EXCEPT ![r].status = "running"]

Cancel(r) ==
    /\ runs[r].status \in {"queued", "running"}
    /\ runs' = [runs EXCEPT ![r].status = "canceled"]

Finish(r) ==
    /\ runs[r].status \in {"running"} \union Outcome
    /\ \E s \in Outcome : runs' = [runs EXCEPT ![r].status = s]

Next ==
    \/ Trigger
    \/ \E r \in DOMAIN runs : Retry(r) \/ Claim(r) \/ Cancel(r) \/ Finish(r)

Spec == Init /\ [][Next]_runs
=============================================================================
