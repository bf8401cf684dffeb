CONSTANTS
    Nothing = Nothing
    Client = {c1, c2}
    Key = {k1, k2, k3}
    Message = {m1}
    c1 = c1
    c2 = c2
    k1 = k1
    k2 = k2
    k3 = k3
    m1 = m1
    MaxRev = 2
    MaxLost = 1
    Ops = {"create_config", "activate_config", "rollback_config", "put_binding", "replay_outbound"}
SPECIFICATION ControlSpec
SYMMETRY Symmetry
CHECK_DEADLOCK FALSE
INVARIANTS
    AppliedOnce
PROPERTIES
    NoLostUpdate
