SPECIFICATION FairSpec
CONSTANTS
    Caller = {c1, c2}
    Executor = {x1, x2}
    Employee = {e1, e2}
    Pay = {1}
    Wired = {FALSE}
    MaxTriggers = 2
    MaxStalls = 0
    MaxEvictions = 0
    MaxThrows = 0
CHECK_DEADLOCK FALSE
PROPERTIES
    TriggeredIsProcessed
