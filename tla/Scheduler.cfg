SPECIFICATION FairSpec
CONSTANTS
    NoSession = NoSession
    NoTick = NoTick
    Raises = Raises
    nightly = nightly
    Replica = {p1, p2}
    Horizon = 3
    Session = {s1, s2, s3, s4}
    Jobs = {nightly}
    schedule <- CronOnly
    created_at <- CronCreatedAt
    OrphanAfter = 0
    MaxClock = 2
    MaxStops = 1
    MaxLosses = 1
INVARIANTS LastHasRun SoleLiveLeader SingleActiveLeader
PROPERTIES TickRunsOnce TicksInOrder LockSpec EveryDueJobRuns
