SPECIFICATION Spec
CONSTANTS
    Real = {r1, r2}
    Configs <- MCConfigs
    MaxSlots = 2
    MaxInterfaces = 2
    MaxEndpoints = 2
    MaxCommands = 3
    MaxBusEvents = 2
INVARIANTS
    TypeOK
    OneSlotPerDevice
    ParsedAsConfigured
    AttachCarriesDescriptors
    AnsweredFromStore
SYMMETRY RealSymmetry
CHECK_DEADLOCK FALSE
