CONSTANTS
    Service = {"transfer"}
    Exposed = {"transfer"}
    Id = {1}
    IdsOf <- MCOneId
    FreshIds = FALSE
    kDialAttempts = 0
    kMaxForwards = 1
    MaxOpens = 2
    MaxLosses = 1
    MaxStops = 1
    None = None
SPECIFICATION FairSpec
INVARIANTS
    ReadyWasOpened
    NoPeerNoTunnel
    AcceptedHasForward
PROPERTIES
    LossEndsStreams
CHECK_DEADLOCK FALSE
