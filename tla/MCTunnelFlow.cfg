SPECIFICATION FairSpec
CONSTANTS
    kChunkSize = 3
    kWindowSize = 4
    kWindowLowWater = 2
    kMaxPending = 4
    kReadBufferSize = 8
    MaxBytes = 7
INVARIANTS
    NoPendingOverflow
    AckWithinCredit
    FlowInv
PROPERTIES
    NoStall
    PipeSpec
CHECK_DEADLOCK FALSE
