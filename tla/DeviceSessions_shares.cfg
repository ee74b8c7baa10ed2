SPECIFICATION Spec
CONSTANTS
    laptop = laptop
    phone = phone
    tablet = tablet
    alice = alice
    bob = bob
    s1 = s1
    s2 = s2
    NoStamp = NoStamp
    Devices = {laptop, phone}
    Owner <- TwoOwners
    Shareable <- LaptopToBob
    ShareCaps = {"view"}
    MaxConn = 3
    MaxPanics = 0
    SessionIds = {s1, s2}
    MaxSockets = 1
    MaxPerUser = 4
    MaxPerHost = 1
    PendingTTL = 1
    IdleTTL = 1
    DetachGrace = 1
    ReprieveMax = 1
    Parallel = TRUE
PROPERTIES
    SlotHeldUnlessOvertaken
    EndsTold
VIEW StateView
SYMMETRY IdSymmetry
CHECK_DEADLOCK FALSE
