SPECIFICATION FairSpec
CONSTANTS
    Backend = {"memory", "postgres"}
    Msg = {m1, m2}
    Worker = {w1, w2}
    None = None
    LeaseFor = 1
    RetryIn = 1
    Grace = 1
    MaxGen = 6
    MaxEpoch = 6
    MaxFaults = 2
CHECK_DEADLOCK FALSE
INVARIANTS
    StatusTellsHead
PROPERTIES
    AllResolved
