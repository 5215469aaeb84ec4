\* A run longer than claim_min_idle_ms, and no failure at all.
SPECIFICATION Spec
CONSTANTS
    Jobs = {j1}
    max_retries <- OneRetry
    Worker = {w1, w2}
    Task = {t1, t2}
    Msg = {m1, m2}
    NoMsg = NoMsg
    None = None
    Outcomes = {"succeeded", "failed"}
    Concurrency = 1
    Prompt = FALSE
    MaxRuns = 1
    MaxTriggers = 1
    MaxCancels = 0
    MaxCrashes = 0
    MaxFaults = 0
INVARIANT NoDoubleExecution
CHECK_DEADLOCK FALSE
