SPECIFICATION SessionFairSpec
CONSTANTS
    MaxLocals = 1
    MaxLines = 2
    MaxUrbs = 2
INVARIANTS
    AnsweredOnce
PROPERTY
    LossEndsClient
CHECK_DEADLOCK FALSE
