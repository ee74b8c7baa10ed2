SPECIFICATION Spec
CONSTANTS
    ann = ann
    bob = bob
    pc = pc
    laptop = laptop
    c1 = c1
    c2 = c2
    c3 = c3
    OldKey = OldKey
    Users = {ann, bob}
    Pages = {pc, laptop}
    Account <- Owner
    Calls = {c1, c2, c3}
    PageOf <- Caller
    Floors <- Restored
    MaxChanges = 1
    MaxEvents = 1
INVARIANTS
    TypeOK
    CurrentEpochFits
    ShutOutLacksKey
PROPERTIES
    NeverBack
SYMMETRY CallSymmetry
CHECK_DEADLOCK FALSE
