CONSTANTS
    Task = {t1, t2}
    Slot = {s1, s2}
    NoTask = NoTask
    NoSlot = NoSlot
    MaxRetries = 1
    MaxFault = 2
    MaxTimeout = 1
    MaxStop = 1
SPECIFICATION CustodySpec
INVARIANTS CustodyTypeOK CapturedSlotIsReserved UnstampedFollowsWithdrawal IdleSlotIsIdle
PROPERTIES StopClosesOverTheEnd FinishedWorkIsNotReplayed
SYMMETRY Pool
CHECK_DEADLOCK FALSE
