SPECIFICATION FairSpec
CONSTANTS
    MaxOccurrence = 2
    MaxEdit = 1
    MaxStop = 1
    MaxFault = 2
INVARIANTS
    ScheduleTypeOK
    StartedOnce
    OnePointOneRoot
    AcceptedIsOwned
    OnlyOverdueRunsOverlap
PROPERTIES
    EndedIsFinal
    AcceptedIsSettled
CHECK_DEADLOCK FALSE
