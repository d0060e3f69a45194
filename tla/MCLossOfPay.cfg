SPECIFICATION Spec
CONSTANTS
    LastDay = 4
    MaxLeaves = 2
    Weekend = {4}
    Basics = {300000, 800000, 1400000, 4000000}
CHECK_DEADLOCK FALSE
INVARIANTS
    ExactForSingleDays
    
PROPERTIES
    PayIsMonotone
