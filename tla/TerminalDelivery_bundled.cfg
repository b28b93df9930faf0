SPECIFICATION Spec
CONSTANTS
    n = n
    c = c
    s = s
    Message = {n, c}
    Notice = {n}
    Stop = {}
    Carries <- MCCarries
    PendingCap = 2
    MaxReplays = 1
    MaxCopies = 1
    MaxFault = 1
INVARIANT BundledFactWasSent
CHECK_DEADLOCK FALSE
