SPECIFICATION FairSpec
CONSTANTS
    MaxDevices = 1
    MaxPlugs = 2
    MaxUrbs = 2
    MaxRequeues = 1
    MaxParked = 1
    MaxClients = 2
    MaxSessions = 2
    ForeignDetach = FALSE
INVARIANTS
    AnswerFindsEntry
    SubmittedOnce
    PendingListSound
PROPERTY
    UrbFetched
CHECK_DEADLOCK FALSE
