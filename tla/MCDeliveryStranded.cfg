SPECIFICATION FairSpec
CONSTANTS
    None = None
    d1 = d1
    d2 = d2
    Dispatcher = {d1, d2}
    MaxAttempts = 2
    MaxReplays = 0
    MaxFaults = 0
    MaxLapses = 1
PROPERTIES FailureRetriedOrDeadLettered
