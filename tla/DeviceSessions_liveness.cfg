SPECIFICATION Spec
CONSTANTS
    laptop = laptop
    phone = phone
    tablet = tablet
    alice = alice
    bob = bob
    s1 = s1
    s2 = s2
    NoStamp = NoStamp
    Devices = {laptop, phone}
    Owner <- OneOwner
    Shareable <- NoShares
    ShareCaps = {"view", "control"}
    MaxConn = 3
    MaxPanics = 1
    SessionIds = {s1}
    MaxSockets = 10
    MaxPerUser = 4
    MaxPerHost = 1
    PendingTTL = 1
    IdleTTL = 1
    DetachGrace = 1
    ReprieveMax = 1
    Parallel = FALSE
PROPERTIES
    DetachResolves
    QuietSessionsEnd
CHECK_DEADLOCK FALSE
