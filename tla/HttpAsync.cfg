SPECIFICATION HttpSpec
CONSTANTS
    MaxTimeout = 6
    MaxInterval = 4
    RequestCap = 2
    Phases = 2
    MaxErrors = 2
    MaxClock = 14
INVARIANTS OverrunBounded NoFalseTimeout
PROPERTY PollingEnds
CHECK_DEADLOCK FALSE
