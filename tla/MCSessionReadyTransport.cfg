SPECIFICATION TransportSpec
CONSTANTS
    w1 = w1
    Msg = {m1}
    Slot = {s1}
    Worker = {w1}
    OwnerOf <- MCOwnerOf
    None = None
    MaxTurnAttempts = 2
    MaxDeliveries = 1
    MaxFaults = 1
    Relay = {r1, r2}
    MaxEntries = 2
    MaxLosses = 1
INVARIANTS
    NoLostWakeup
PROPERTIES
    EveryMessageResolved
    EventuallyQuiet
