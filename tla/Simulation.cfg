SPECIFICATION Spec
CONSTANTS
    MaxDevices = 2
    MaxThreads = 2
    MaxPlugs = 3
    MaxLists = 1
INVARIANTS
    UniqueUnlessClash
    ActiveIsClaimed
    ListComplete
CHECK_DEADLOCK FALSE
