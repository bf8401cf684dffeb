SPECIFICATION FairSpec
CONSTANTS
    Message = {m1, m2}
    Invalid = {m2}
    Drainer = {d1, d2}
    MaxSends = 1
    Count = 2
    MaxFaults = 2
    CacheFor = 2
    Nothing = Nothing
CHECK_DEADLOCK FALSE
INVARIANTS
    AcknowledgedIsDurable
PROPERTIES
    DisabledStaysOut
    StreamDrains
