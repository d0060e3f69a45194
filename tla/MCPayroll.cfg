SPECIFICATION FairSpec
CONSTANTS
    Caller = {c1, c2}
    Executor = {x1, x2}
    Employee = {e1, e2}
    Pay = {1}
    Wired = {TRUE, FALSE}
    MaxTriggers = 2
    MaxStalls = 1
    MaxEvictions = 1
    MaxThrows = 1
CHECK_DEADLOCK FALSE
INVARIANTS
    SingleFlight
    TotalsMatchRegister
    ProcessingIsAlive
PROPERTIES
    ApprovedIsFinal
    QueuedIsDecided
    PayslipsFollow
