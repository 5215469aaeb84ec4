\* Two triggers, and two upstream runs that end together.
SPECIFICATION Spec
CONSTANTS
    left = left
    right = right
    report = report
    Jobs = {left, right, report}
    depends_on <- Join
    Enabled = {left, right, report}
    max_retries <- NoRetry
    Budget <- TwoTriggers
    Task = {t1, t2}
    Request = {a1}
    Outcomes = {"succeeded"}
    MaxRuns = 6
    NoJob = NoJob
INVARIANT OneDispatchedRun
CHECK_DEADLOCK FALSE
