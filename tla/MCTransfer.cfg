SPECIFICATION Spec
CONSTANTS
    Dev = {a, b}
    None = None
    Elsewhere = Elsewhere
    Names = 2
    MaxJobs = 2
    MaxFaults = 1
    MaxEvents = 3
    Senders = {a}
    Patient = TRUE
INVARIANTS TypeOK   NoStandstill NothingLeft  UndisturbedCompletes
CHECK_DEADLOCK FALSE
