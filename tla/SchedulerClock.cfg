SPECIFICATION Spec
CONSTANTS
    Horizon = 7
    NoTick = NoTick
    Raises = Raises
    Periods = {2, 3}
    Created = {0, 1}
    Backoff = {1, 2}
    BackoffMax = 3
    MaxRetries = 2
    OrphanAfter = 1
    MaxClock = 6
    MaxFailures = 3
    MaxUpdates = 1
INVARIANTS CatchUpIsLatest TicksDoNotDrift
PROPERTIES RetryNotEarly BackoffDoubles TickEnds EveryRetryStarts
CHECK_DEADLOCK FALSE
