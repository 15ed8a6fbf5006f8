SPECIFICATION Spec
CONSTANTS
    MaxCalls = 2
    MaxCrashes = 1
    MaxFailures = 0
PROPERTIES RestartOnlyIfExpected
CHECK_DEADLOCK FALSE
