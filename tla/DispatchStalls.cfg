\* Messages reclaimed from workers that stall, two triggers or a user's retry, cancels.
SPECIFICATION Spec
CONSTANTS
    Jobs = {j1}
    max_retries <- OneRetry
    Worker = {w1, w2}
    Task = {t1, t2}
    Msg = {m1, m2}
    NoMsg = NoMsg
    None = None
    Outcomes = {"succeeded", "failed"}
    Concurrency = 1
    Prompt = FALSE
    MaxRuns = 2
    MaxTriggers = 2
    MaxCancels = 2
    MaxCrashes = 0
    MaxFaults = 0
SYMMETRY Symmetry
INVARIANTS TypeOK FirstClaimOnce StreamIntegrity
PROPERTY LifecycleSpec
CHECK_DEADLOCK FALSE
