SPECIFICATION Spec
CONSTANTS
    MaxTurn = 2
    MaxEpoch = 3
    MaxAttempts = 2
    MaxFaults = 2
CHECK_DEADLOCK FALSE
INVARIANTS
    DerivedFromCommitted
PROPERTIES
    WorkIsFenced
    NoMissedHistory
    LateFailureIsHarmless
