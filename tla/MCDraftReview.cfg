SPECIFICATION Spec
CONSTANTS
    NumDrafts = 2
    NumRequests = 2
    Contents <- ContentValues
    MaxRequests = 2
INVARIANTS
    LogTellsStatus
    PageTellsTruth
PROPERTIES
    ApprovalPublishes
    RequestsEnd
