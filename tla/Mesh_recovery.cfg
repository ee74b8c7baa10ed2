SPECIFICATION Spec
CONSTANTS
    MaxPcs = 4
    SlowFetch = FALSE
    Leavers = {}
    MaxJoins = 2
    MaxMedia = 1
    MaxLost = 1
    MaxFails = 1
    MaxEarly = 0
INVARIANTS
    
    SameHistory
PROPERTIES
    Converges
CHECK_DEADLOCK FALSE
