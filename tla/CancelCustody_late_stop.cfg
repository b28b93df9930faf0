CONSTANTS
    Task = {t1, t2}
    Slot = {s1, s2}
    NoTask = NoTask
    NoSlot = NoSlot
    MaxRetries = 1
    MaxFault = 0
    MaxTimeout = 1
    MaxStop = 1
SPECIFICATION CustodySpec
INVARIANTS CancelledAfterDeath
SYMMETRY Pool
CHECK_DEADLOCK FALSE
