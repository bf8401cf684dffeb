CONSTANTS
    Nobody = Nobody
    Mailbox = Mailbox
    Consumer = {c1, c2}
    c1 = c1
    c2 = c2
    Slots = 1
    N = 4
    Old = 1
    MaxMishaps = 1
SPECIFICATION LegacyFairSpec
CHECK_DEADLOCK FALSE
INVARIANTS
    CommitsInOrder
    NothingLost
PROPERTIES
    Drains
