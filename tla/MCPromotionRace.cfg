SPECIFICATION Spec
CONSTANTS
    Urls = {u1, u2}
    Reports = {a1}
    Edits = {d1}
    MaxBorn = 1
    MaxReports = 2
    MaxEdits = 1
    MaxSends = 1
INVARIANT EntryReportedOnce
CHECK_DEADLOCK FALSE
