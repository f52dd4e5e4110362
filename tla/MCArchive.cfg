SPECIFICATION PartsSpec
CONSTANTS
    VisitSubjects = {x1, x2}
    Tokens = {k1, k2}
    Requests = {q1, q2, q3}
    Operations = {"complete", "create", "patch", "remove", "erase"}
    MaxRequests = 4
    e1 = e1
    p1 = p1
    Events = {e1}
    Places = {p1}
    EventShapes <- Shapes
    ItemShapes <- ItemsSent
    LastDay = 2
    MaxVisits = 2
    MaxItems = 2
    MaxEntries = 3
    ClosingDays = 0
    LabelOf <- Labels
    PlaceLabel <- Labelled
    Works = {"w1", "w2"}
    InkCount = 12
    MonthLength = 2
SYMMETRY Symmetry
INVARIANTS CompletionsSucceed ActivityTellsHistory PagesAgree CalendarAgrees
PROPERTY RecordMeansVisited
\* Requests, days, ids and the log come to an end.
CHECK_DEADLOCK FALSE
