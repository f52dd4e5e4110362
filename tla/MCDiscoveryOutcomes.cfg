SPECIFICATION OutcomesSpec
CONSTANTS
    u1 = u1
    u2 = u2
    w1 = w1
    w2 = w2
    MaxRuns = 1
    Urls = {u1, u2}
    Workers = {w1}
    MaxLeases = 2
    LeaseTicks = 2
    FreshTicks = 0
    MaxCandidates = 2
    MaxEvents = 1
    Reported <- MCReported
    c1 = c1
    c2 = c2
    h1 = h1
    h2 = h2
    NumSources = 2
    TypeOf <- MCTypeOf
    Page <- MCPage
    PageUrls = {c1, c2}
    Hosts = {h1, h2}
    HostOf <- MCHostOf
    Buttons = {b1, b2}
    Commands = {m1}
    MaxPerRun = 1
    FetchBudget = 1
    MaxRunning = 2
SYMMETRY AllSymmetry
INVARIANTS OutcomeMatchesRecords OneButtonRun ClaimedOnce StaffChoiceKept
PROPERTIES ImplementsLedger TokenNeverRevives
CHECK_DEADLOCK FALSE
