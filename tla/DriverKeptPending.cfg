SPECIFICATION Spec
CONSTANTS
    MaxDevices = 1
    MaxPlugs = 2
    MaxUrbs = 2
    MaxRequeues = 1
    MaxParked = 1
INVARIANT
    FetchedKeptPending
CHECK_DEADLOCK FALSE
