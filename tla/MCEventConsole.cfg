SPECIFICATION Spec
CONSTANTS
    Events = {e1, e2}
    Urls = {u1, u2}
    Requests = {q1, q2}
    Forms = {g1, g2}
    MaxMade = 5
SYMMETRY Symmetry
INVARIANTS LogTellsEvent ListSafe
CHECK_DEADLOCK FALSE
