CONSTANTS
    Request = {"r1", "r2", "r3"}
    OwnerOf <- MCOwnerOf
    TypeOf <- MCTypesApart
    Type = {"share", "trans"}
    kRpcRetryCount = 1
    MaxDrops = 1
    None = None
SPECIFICATION FairSpec
INVARIANTS
    TypeOK
    HandledBySending
    DoneIsReleased
    
PROPERTIES
    RequestEnds
CHECK_DEADLOCK FALSE
