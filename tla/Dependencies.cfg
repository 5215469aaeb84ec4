\* One trigger; and one scheduled run, retry, cancellation, change of the graph, deletion or crash.
SPECIFICATION Spec
CONSTANTS
    left = left
    right = right
    report = report
    Jobs = {left, right, report}
    depends_on <- Join
    Enabled = {left, right, report}
    max_retries <- NoRetry
    Budget <- OneDisturbance
    Task = {t1, t2}
    Request = {a1}
    Outcomes = {"succeeded", "failed"}
    MaxRuns = 5
    NoJob = NoJob
SYMMETRY Symmetry
INVARIANTS WalkIsPath OneRowPerJob RunsAfterDependencies NoLostWakeup
PROPERTY UpstreamFirst
CHECK_DEADLOCK FALSE
