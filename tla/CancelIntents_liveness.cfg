CONSTANTS
    tRoot = tRoot
    tLeaf = tLeaf
    tOther = tOther
    Task <- TreeTask
    RetryLeaf <- Lineage
    Custodian = {c1}
    Stamp = {1}
    NoIntent = NoIntent
    NoClaim = NoClaim
    NotDrained = NotDrained
    Nobody = Nobody
    ProbeMayFail = FALSE
    PidRecycles = FALSE
    MaxRequest = 2
    MaxGeneration = 2
    MaxOutage = 0
    MaxBoot = 2
SPECIFICATION FairSpec
PROPERTIES EveryRequestCloses ImplementsStopRequests
CHECK_DEADLOCK FALSE
