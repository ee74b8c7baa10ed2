SPECIFICATION Spec
CONSTANTS
    ann = ann
    bob = bob
    pc = pc
    laptop = laptop
    c1 = c1
    c2 = c2
    c3 = c3
    OldKey = OldKey
    Users = {ann, bob}
    Pages = {pc, laptop}
    Account <- Owner
    Calls = {c1, c2, c3}
    PageOf <- Caller
    Floors <- Fresh
    MaxChanges = 0
    MaxEvents = 0
INVARIANTS
    NoSplit
CHECK_DEADLOCK FALSE
