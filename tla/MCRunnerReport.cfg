SPECIFICATION LoopSpec
CONSTANTS
    u1 = u1
    w1 = w1
    MaxRuns = 1
    Urls = {u1}
    Workers = {w1}
    MaxLeases = 2
    LeaseTicks = 1
    FreshTicks = 0
    MaxCandidates = 1
    MaxEvents = 1
    Reported <- MCReported
    MaxFaults = 2
    MaxSubmits = 1
    MaxBeats = 1
INVARIANT AlwaysReports
CHECK_DEADLOCK FALSE
