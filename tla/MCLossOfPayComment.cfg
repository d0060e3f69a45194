SPECIFICATION Spec
CONSTANTS
    LastDay = 4
    MaxLeaves = 2
CHECK_DEADLOCK FALSE
INVARIANTS
    LopIsUncoveredAbsence
