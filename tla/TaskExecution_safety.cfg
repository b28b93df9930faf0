CONSTANTS
    Task = {t1, t2}
    Slot = {s1, s2}
    NoTask = NoTask
    NoSlot = NoSlot
    MaxRetries = 1
    MaxFault = 3
    MaxTimeout = 1
SPECIFICATION Spec
INVARIANTS ExecTypeOK NoDoubleExecution VerdictAfterDeath VerdictFollowsWithdrawal
SYMMETRY Pool
CHECK_DEADLOCK FALSE
