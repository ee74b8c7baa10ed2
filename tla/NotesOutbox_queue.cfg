SPECIFICATION Spec
CONSTANTS
    Tabs = {t1, t2}
    t1 = t1
    t2 = t2
    NoTab = NoTab
    Kinds = {"create", "edit"}
    MaxActs = 2
    MaxFaults = 1
    MaxOutages = 0
    MaxLate = 1
    MaxCloses = 1
    MaxForeign = 0
    MaxForgets = 1
    MaxAttempts = 1
INVARIANTS
    TypeOK
    CreatedOnce
    LastEditStands
PROPERTIES
    QueueDrains
CHECK_DEADLOCK FALSE
