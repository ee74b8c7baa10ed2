SPECIFICATION Spec
CONSTANTS
    c1 = c1
    c2 = c2
    alice = alice
    k1 = k1
    k2 = k2
    NoQueue = NoQueue
    Conns = {c1, c2}
    UserOf <- OneUser
    Changes = {k1, k2}
    MaxRetries = 1
    MaxJoins = 1
    MaxFaults = 1
    MaxPanics = 1
INVARIANTS
    TypeOK
    DeniedIsOut
    RetriesKept
    RoomAgrees
PROPERTIES
    ChangesAnswered
CHECK_DEADLOCK FALSE
