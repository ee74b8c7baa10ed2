SPECIFICATION Spec
CONSTANTS
    pc = pc
    phone = phone
    tablet = tablet
    alice = alice
    bob = bob
    NoDevice = NoDevice
    Devices = {pc, phone, tablet}
    Offerer = pc
    Users = {alice, bob}
    Cases <- AllCases
    MaxBreaks = 1
    MaxConn = 3
INVARIANTS
    TypeOK
    SenderHears
    OneReceiver
    NoEcho
    HiddenLooksOffline
SYMMETRY PeerSymmetry
CHECK_DEADLOCK FALSE
