SPECIFICATION JobsSpec
CONSTANTS
    u1 = u1
    w1 = w1
    MaxRuns = 1
    Urls = {u1}
    Workers = {w1}
    MaxLeases = 2
    LeaseTicks = 1
    FreshTicks = 1
    MaxCandidates = 1
    MaxEvents = 1
    Reported <- MCReported
    MaxFaults = 2
    MaxSubmits = 1
    MaxBeats = 1
    NumEvents = 3
    Texts = {"a", "b"}
    Languages = {"en"}
    PendingLimit = 2
    BatchLimit = 1
    MaxAttempts = 1
    MaxChanges = 2
    MaxQueueFaults = 1
INVARIANTS NoOrphanWithoutLoss ShownIsCurrent
PROPERTIES SuccessIsWhole RunsFinish AbsenceShows OnlyOperatorsReplace QueueMoves
CHECK_DEADLOCK FALSE
