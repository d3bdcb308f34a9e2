CONSTANTS
    Leases = {l1}
    Reqs = {r1, r2}
    None = None
    CapTtl = 1
    IdleTtl = 0
    AbsoluteTtl = 1
    KeyTtl = 0
    Horizon = 2
SPECIFICATION FairSpec
INVARIANTS
    RevokedCapsExpire
PROPERTIES
    RevocationIsFinal
    RevokedIsForgotten
CHECK_DEADLOCK FALSE
