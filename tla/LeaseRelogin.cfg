CONSTANTS
    Leases = {l1}
    Reqs = {r1, r2}
    None = None
    CapTtl = 1
    IdleTtl = 1
    AbsoluteTtl = 1
    KeyTtl = 1
    Horizon = 1
SPECIFICATION Spec
INVARIANT
    BearerUnlocks
CHECK_DEADLOCK FALSE
