SPECIFICATION Spec
CONSTANTS
    Background = TRUE
    FlushEvery = 2
    MaxLines = 4
    MaxFaults = 1
    MaxCancels = 2
INVARIANTS NoCommandLeft LinesKept
PROPERTIES ShellReturns CancelTerminates
CHECK_DEADLOCK FALSE
