SPECIFICATION FairSpec
CONSTANTS
    a = "a"
    b = "b"
    c = "c"
    Dev = {"a", "b"}
    Initiators = {"a"}
    Old = {}
    MaxApplies = 2
    MaxToggles = 2
    MaxQuits = 2
    MaxFaults = 1
    None = None
INVARIANTS TypeOK 
  
CHECK_DEADLOCK FALSE
