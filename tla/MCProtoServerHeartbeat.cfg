CONSTANTS
    Host = {"x", "y"}
    Addr = {"r", "y"}
    AddrsOf <- MCAddrsOf
    SharedAddr = FALSE
    MaxSessions = 1
    None = None
SPECIFICATION FairSpec
PROPERTIES
    VanishedIsReported
CHECK_DEADLOCK FALSE
