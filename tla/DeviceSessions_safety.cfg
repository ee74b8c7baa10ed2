SPECIFICATION Spec
CONSTANTS
    laptop = laptop
    phone = phone
    tablet = tablet
    alice = alice
    bob = bob
    s1 = s1
    s2 = s2
    NoStamp = NoStamp
    Devices = {laptop, phone}
    Owner <- OneOwner
    Shareable <- NoShares
    ShareCaps = {"view", "control"}
    MaxConn = 3
    MaxPanics = 0
    SessionIds = {s1, s2}
    MaxSockets = 10
    MaxPerUser = 4
    MaxPerHost = 1
    PendingTTL = 1
    IdleTTL = 1
    DetachGrace = 1
    ReprieveMax = 1
    Parallel = TRUE
INVARIANTS
    TypeOK
    AttachedIsServed
    RoutedToOwnDevices
PROPERTIES
    GraceHonoured
    ImplementsLifecycle
VIEW StateView
SYMMETRY Symmetry
CHECK_DEADLOCK FALSE
