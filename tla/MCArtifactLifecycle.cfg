SPECIFICATION FairSpec
CONSTANTS
    Exec = {x1, x2, x3}
    Collector = Collector
    Target = Target
    None = None
    MaxFaults = 2
INVARIANTS
    CommitFindsObject
    CommittedObjectKept
PROPERTIES
    CommittedIsFinal
    Collected
