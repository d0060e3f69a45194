SPECIFICATION FairSerialSpec
CONSTANTS
    Worker = {w1, w2}
    Request = {r1, r2}
    None = None
    Duration = {0, 1, 2}
    MaxDuration = 2
    Opening = 2
    Accrual = 1
    MaxCredits = 1
    MaxAborts = 0
    MaxCalls = 5
CHECK_DEADLOCK FALSE
PROPERTIES
    KeepsLedger
    ApprovedIsDebited
