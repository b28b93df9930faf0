SPECIFICATION FairSpec
CONSTANTS
    n = n
    c = c
    s = s
    Message = {n, s}
    Notice = {n}
    Stop = {s}
    Carries <- MCNothing
    PendingCap = 1
    MaxReplays = 1
    MaxCopies = 0
    MaxFault = 2
PROPERTIES
    GivenUpUnsent
    NoMessageStaysOwed
    SendIsRecorded
CHECK_DEADLOCK FALSE
