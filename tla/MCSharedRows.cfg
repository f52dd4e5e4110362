SPECIFICATION RowsSpec
CONSTANTS
    MaxRuns = 2
    Urls = {x1, x2}
    Workers = {y1, y2}
    MaxLeases = 2
    LeaseTicks = 1
    FreshTicks = 0
    MaxCandidates = 1
    MaxEvents = 1
    Reported = {0}
    Events = {x1, x2}
    Categories = {y1, y2}
    NumSlots = 1
    StaffRequests = {q1, q2}
    Prints = {q1, q2, q3}
    Writers = {w1, w2}
    Limit = 1
    Quota = 2
    Pages = {g1}
    MaxPerPage = 2
    MaxReports = 4
SYMMETRY Symmetry
INVARIANTS
    WithinCaps AtMostOneActive DraftsCreditedOnce
    PaletteSafe RecordsSurvive GroupsSafe
PROPERTIES FinishedIsFinal SlotsKept
CHECK_DEADLOCK FALSE
