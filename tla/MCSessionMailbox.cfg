SPECIFICATION Spec
CONSTANTS
    m1 = m1
    m2 = m2
    s1 = s1
    s2 = s2
    s3 = s3
    w1 = w1
    w2 = w2
    Msg = {m1, m2}
    Slot = {s1, s2, s3}
    Worker = {w1, w2}
    OwnerOf <- MCOwnerOf
    None = None
    MaxTurnAttempts = 2
    MaxDeliveries = 2
    MaxFaults = 2
SYMMETRY MCSymmetry
INVARIANTS
    NoForgottenWork
    SingleExecution
    NoLostUpdate
    OrderedExactlyOnce
PROPERTIES
    NoRegression
    ImplementsInbox
