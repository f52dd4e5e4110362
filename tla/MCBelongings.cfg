SPECIFICATION SidesSpec
CONSTANTS
    Files = {f1, f2}
    MaxPhotos = 2
    MaxLosses = 2
    MaxOthers = 1
    e1 = e1
    e2 = e2
    r1 = r1
    r2 = r2
    Events <- MCEvents
    Records <- MCRecords
    EventOf <- VisitOf
    Changes <- MCChanges
    Patches = {p1, p2}
    MaxQuantity = 1
    MaxImages = 2
    MaxPatches = 2
    MaxItemSends = 2
    Urls = {u1, u2}
    Reports = {a1, a2}
    Edits = {d1}
    MaxBorn = 2
    MaxReports = 2
    MaxEdits = 1
    MaxSends = 2
    o1 = o1
    o2 = o2
    s1 = s1
    s2 = s2
    Accounts = {o1, o2}
    Sessions = {s1, s2}
    OwnerOf <- SameOwner
    Broken = {o2}
    Admins = {m1, m2}
    Flagged = {o1}
INVARIANTS PhotosSafe ItemSafe EntrySafe ToldIsKept SurvivorsAreLate LogTellsFlags
PROPERTIES UploadsEnd DueIsPurged
\* Every page may be done and every request answered.
CHECK_DEADLOCK FALSE
