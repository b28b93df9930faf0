CONSTANTS
    Task = {t1}
    Slot = {s1, s2}
    NoTask = NoTask
    NoSlot = NoSlot
    MaxRetries = 1
    MaxFault = 1
    MaxTimeout = 1
SPECIFICATION Spec
INVARIANTS UnfinishedWorkIsOwned

CHECK_DEADLOCK FALSE
