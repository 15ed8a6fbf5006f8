CONSTANTS
    Host = {"x", "y"}
    Addr = {"r", "y"}
    AddrsOf <- MCAddrsOf
    SharedAddr = FALSE
    MaxSessions = 4
    None = None
SPECIFICATION Spec
INVARIANTS
    TypeOK
    MapsConsistent
    ReportedIffConnected
    RouteReachesHost
    
    HeartbeatRuns
CHECK_DEADLOCK FALSE
