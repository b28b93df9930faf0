CONSTANTS
    Task = {t1, t2}
    Slot = {s1, s2}
    NoTask = NoTask
    NoSlot = NoSlot
    MaxRetries = 1
    MaxFault = 1
    MaxTimeout = 0
    MaxStop = 1
SPECIFICATION FairCustodySpec
INVARIANTS CancelledAfterDeath OtherWorkStaysOwned
PROPERTIES EveryStopCloses OtherTasksResolve
CHECK_DEADLOCK FALSE
