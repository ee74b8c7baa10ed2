SPECIFICATION Spec
CONSTANTS
    MaxPcs = 4
    SlowFetch = FALSE
    Leavers = {"hi"}
    MaxJoins = 3
    MaxMedia = 0
    MaxLost = 0
    MaxFails = 0
    MaxEarly = 0
PROPERTIES
    Converges
    CallKept
CHECK_DEADLOCK FALSE
