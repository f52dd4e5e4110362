SPECIFICATION Spec
CONSTANTS
    s1 = s1
    k1 = k1
    q1 = q1
    q2 = q2
    VisitSubjects = {s1}
    Tokens = {k1}
    Requests = {q1, q2}
    Operations = {"complete", "create", "patch"}
    MaxRequests = 4
SYMMETRY Symmetry
INVARIANT RecordsNeverContradicted
CHECK_DEADLOCK FALSE
