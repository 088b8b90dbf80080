SPECIFICATION FairSpec
CONSTANTS
    MaxDevices = 2
    MaxPlugs = 3
    MaxClients = 2
    MaxSessions = 3
    ForeignDetach = TRUE
INVARIANTS
    TypeOK
    ArrayHoldsLiveClients
    OneOwner
PROPERTY
    DisconnectReleases
CHECK_DEADLOCK FALSE
