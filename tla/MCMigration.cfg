CONSTANTS
    Nothing = Nothing
    Proc = {p1, p2}
    p1 = p1
    p2 = p2
    N = 2
    MaxEvents = 2
    Asked = {"backfill", "shadow-read"}
    Modes = {"production", "single", "acceptance"}
SPECIFICATION Spec
SYMMETRY Symmetry
CHECK_DEADLOCK FALSE
INVARIANTS
    PointerTracked
    BarrierCoversTarget
    ComparedHolds
PROPERTIES
    PassIsComplete
