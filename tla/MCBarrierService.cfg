SPECIFICATION FairSpec
CONSTANTS
    MaxCalls = 4
    MaxCrashes = 3
    MaxFailures = 1
INVARIANTS TypeOK OneProcess
PROPERTIES CrashIsRevived
CHECK_DEADLOCK FALSE
