SPECIFICATION Spec
CONSTANTS
    Tabs = {t1}
    t1 = t1
    NoTab = NoTab
    Kinds = {"create", "text"}
    MaxActs = 2
    MaxFaults = 1
    MaxOutages = 1
    MaxLate = 0
    MaxCloses = 0
    MaxForeign = 2
    MaxForgets = 1
    MaxAttempts = 1
INVARIANTS
    NothingLost
    CopyOnlyForOthers
PROPERTIES
    TheirTextStands
CHECK_DEADLOCK FALSE
