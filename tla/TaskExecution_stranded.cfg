CONSTANTS
    Task = {t1}
    Slot = {s1}
    NoTask = NoTask
    NoSlot = NoSlot
    MaxRetries = 1
    MaxFault = 1
    MaxTimeout = 0
SPECIFICATION Spec
INVARIANTS ReapingIsOwned

CHECK_DEADLOCK FALSE
