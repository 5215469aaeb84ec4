\* One worker that may crash once; a failed run is retried.
SPECIFICATION FairSpec
CONSTANTS
    Jobs = {j1}
    max_retries <- OneRetry
    Worker = {w1}
    Task = {t1, t2}
    Msg = {m1, m2}
    NoMsg = NoMsg
    None = None
    Outcomes = {"succeeded", "failed"}
    Concurrency = 1
    Prompt = TRUE
    MaxRuns = 3
    MaxTriggers = 1
    MaxCancels = 0
    MaxCrashes = 1
    MaxFaults = 0
PROPERTY EveryRunSettles
CHECK_DEADLOCK FALSE
