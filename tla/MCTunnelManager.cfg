CONSTANTS
    Service = {"transfer"}
    Exposed = {}
    Id = {1, 2}
    IdsOf <- MCIdsOf
    FreshIds = TRUE
    kDialAttempts = 1
    kMaxForwards = 1
    MaxOpens = 2
    MaxLosses = 0
    MaxStops = 0
    None = None
SPECIFICATION FairSpec
INVARIANTS
    TypeOK
    NoDataWhileDialing
    NoOrphan
PROPERTIES
    OpenResolves
CHECK_DEADLOCK FALSE
