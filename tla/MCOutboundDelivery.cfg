SPECIFICATION FairSpec
CONSTANTS
    None = None
    d1 = d1
    d2 = d2
    Dispatcher = {d1, d2}
    MaxAttempts = 2
    MaxReplays = 1
    MaxFaults = 2
    MaxLapses = 2
INVARIANTS
    NoDuplicateReply
    NoSilentLoss
    CallsWithinBudget
PROPERTIES
    LateAnswerFenced
    EveryReplySettled
