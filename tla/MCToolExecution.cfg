SPECIFICATION Spec
CONSTANTS
    None = None
    lookup = lookup
    pay = pay
    t1 = t1
    t2 = t2
    t3 = t3
    k1 = k1
    Call = {lookup, pay}
    Idempotent = {lookup}
    Confirmed = {lookup}
    Token = {k1}
    Task = {t1, t2, t3}
    Limit = 2
    MaxEpoch = 2
SYMMETRY Symmetry
CHECK_DEADLOCK FALSE
INVARIANTS
    AtMostOneEffect
    SuccessIsReal
    EffectsAuthorised
PROPERTIES
    LedgerFenced
