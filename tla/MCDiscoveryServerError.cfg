SPECIFICATION Spec
CONSTANTS
    u1 = u1
    u2 = u2
    w1 = w1
    w2 = w2
    MaxRuns = 1
    Urls = {u1}
    Workers = {w1, w2}
    MaxLeases = 1
    LeaseTicks = 1
    FreshTicks = 0
    MaxCandidates = 2
    MaxEvents = 1
    Reported <- MCReported
SYMMETRY Symmetry
INVARIANT NoServerError
CHECK_DEADLOCK FALSE
