\* A crash, a failing call and duplicate messages; messages are reclaimed in time.
SPECIFICATION Spec
CONSTANTS
    Jobs = {j1}
    max_retries <- OneRetry
    Worker = {w1, w2}
    Task = {t1, t2}
    Msg = {m1, m2}
    NoMsg = NoMsg
    None = None
    Outcomes = {"succeeded", "failed"}
    Concurrency = 1
    Prompt = TRUE
    MaxRuns = 3
    MaxTriggers = 1
    MaxCancels = 0
    MaxCrashes = 1
    MaxFaults = 1
SYMMETRY Symmetry
INVARIANTS RecoverableWithoutFaults OneExecution OneRetryPerRun
PROPERTIES OutcomeIsFinal
CHECK_DEADLOCK FALSE
