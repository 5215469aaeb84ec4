\* A database call raises and the message is acked all the same.
SPECIFICATION Spec
CONSTANTS
    Jobs = {j1}
    max_retries <- OneRetry
    Worker = {w1, w2}
    Task = {t1, t2}
    Msg = {m1, m2}
    NoMsg = NoMsg
    None = None
    Outcomes = {"succeeded", "failed"}
    Concurrency = 1
    Prompt = TRUE
    MaxRuns = 1
    MaxTriggers = 1
    MaxCancels = 0
    MaxCrashes = 0
    MaxFaults = 1
INVARIANT RunningIsRecoverable
CHECK_DEADLOCK FALSE
