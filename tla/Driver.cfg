SPECIFICATION Spec
CONSTANTS
    MaxDevices = 2
    MaxPlugs = 3
    MaxUrbs = 2
    MaxRequeues = 1
    MaxParked = 1
INVARIANTS
    TypeOK
    CountMatchesSlots
    CountMatchesList
    EntryInOnePlace
    StatisticsAgree
PROPERTY
    CompletesOnce
    ImplementsUrbQueue
CHECK_DEADLOCK FALSE
