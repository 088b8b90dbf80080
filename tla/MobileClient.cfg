SPECIFICATION FairSpec
CONSTANTS
    MaxStarts = 2
    MaxRequests = 3
    Device = {d1}
INVARIANTS
    TypeOK
    TornDownOnce
    SocketsClosed
    PollerCanBeStopped
PROPERTIES
    DisconnectEnds
    LossNoticed
CHECK_DEADLOCK FALSE
