SPECIFICATION Spec
CONSTANTS
    MaxDevices = 1
    MaxPlugs = 1
    MaxUrbs = 2
    MaxRequeues = 1
    MaxParked = 1
    MaxClients = 2
    MaxSessions = 1
    ForeignDetach = FALSE
INVARIANT
    CompletedWasAnswered
CHECK_DEADLOCK FALSE
