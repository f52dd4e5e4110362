SPECIFICATION Spec
CONSTANTS
    s1 = s1
    k1 = k1
    q1 = q1
    VisitSubjects = {s1}
    Tokens = {k1}
    Requests = {q1}
    Operations = {"complete", "erase"}
    MaxRequests = 4
SYMMETRY Symmetry
INVARIANT ResendsAreAnswered
CHECK_DEADLOCK FALSE
