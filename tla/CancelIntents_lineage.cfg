CONSTANTS
    tRoot = tRoot
    tLeaf = tLeaf
    tOther = tOther
    Task <- LineageTask
    RetryLeaf <- Lineage
    Custodian = {c1, c2}
    Stamp = {}
    NoIntent = NoIntent
    NoClaim = NoClaim
    NotDrained = NotDrained
    Nobody = Nobody
    ProbeMayFail = TRUE
    PidRecycles = TRUE
    MaxRequest = 2
    MaxGeneration = 2
    MaxOutage = 1
    MaxBoot = 2
SPECIFICATION Spec
SYMMETRY Threads
INVARIANTS TypeOK ClaimExclusion SingleAuthorityPerLineage
PROPERTIES StaleAttemptIsInert LiveClaimNotStolen RequestNeverWeakens CascadeClosedByPostcondition
CHECK_DEADLOCK FALSE
