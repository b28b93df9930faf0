SPECIFICATION Spec
CONSTANTS
    n = n
    c = c
    s = s
    Message = {n, c, s}
    Notice = {n}
    Stop = {s}
    Carries <- MCCarries
    PendingCap = 2
    MaxReplays = 1
    MaxFault = 1
    MaxCopies = 1
CHECK_DEADLOCK FALSE
INVARIANTS
    DeliveryTypeOK
    OneDisposition
    OutboxBounded
    SentOnce
    RecordedWasSent
    ReplacedNoticeLeavesItsFact
PROPERTIES
    ImplementsOwedMessages
