CONSTANTS
    Concurrency = 2
    ReadBatch = 1
    Stale = {1}
    Fresh = {2, 3}
    Malformed = {2}
    MaxIdle = 1
    MaxCancels = 1
    MaxFaults = 1
SPECIFICATION Spec
INVARIANTS InflightBounded NoRunStranded GracefulStop CancelIsHeard
PROPERTIES DrainEnds ReadsGoOn
CHECK_DEADLOCK FALSE
