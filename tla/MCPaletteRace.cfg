SPECIFICATION SteadySpec
CONSTANTS
    e1 = e1
    e2 = e2
    a = a
    b = b
    q1 = q1
    q2 = q2
    Events = {e1, e2}
    Categories = {a, b}
    NumSlots = 1
    StaffRequests = {q1, q2}
SYMMETRY Symmetry
INVARIANT IdleNeverKeepsSlot
CHECK_DEADLOCK FALSE
