SPECIFICATION Spec
CONSTANTS
    a = a
    b = b
    c = c
    Dev <- Three
    Initiators <- Applicants
    Old = {}
    MaxApplies = 1
    MaxToggles = 1
    MaxQuits = 2
    MaxFaults = 0
    None = None
SYMMETRY Symmetry
 
PROPERTIES SessionKept
CHECK_DEADLOCK FALSE
