SPECIFICATION Spec
CONSTANTS
    a = a
    b = b
    pc = pc
    phone = phone
    alice = alice
    None = None
    MaxEvents = 3
    Rooms = {a, b}
    Sid <- TwoDevices
    Account <- OneAccount
INVARIANTS
    TypeOK
    NoGhosts
    ExclusiveUnlessRaced
PROPERTIES
    VoiceOutlivesItsSocket
    EvictedAreTold
VIEW StateView
SYMMETRY RoomSymmetry
CHECK_DEADLOCK FALSE
