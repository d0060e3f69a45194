SPECIFICATION Spec
CONSTANTS
    Worker = {w1, w2}
    Replica = {c1, c2}
    Request = {q1}
    None = None
    SlotsPerDay = 2
    LastDay = 1
    MaxCalls = 4
    MaxAborts = 1
SYMMETRY Symmetry
CHECK_DEADLOCK FALSE
INVARIANTS
    ClockedInIsPresent
    
    HoursMatchTimes
    ApprovedShows
PROPERTIES
    DecisionIsFinal
