SPECIFICATION FairSpec
CONSTANTS
    MaxDevices = 2
    MaxClients = 2
    MaxSessions = 2
    MaxCreates = 2
    MaxUrbs = 3
    MaxOwnUrbs = 2
    SharedRemoteIds = TRUE
INVARIANTS
    TypeOK
    ArrayHoldsLiveClients
    OneOwner
    PendingListSound
PROPERTY
    StopTerminates
    ImplementsUrbQueue
CHECK_DEADLOCK FALSE
