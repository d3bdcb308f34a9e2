CONSTANTS
    Tenants = {t1}
    Unknown = Unknown
    Files = {p1, p2}
    NoFile = NoFile
    Invites = {i1, i2}
    Regs = {r1, r2}
    Handshakes = {h1}
    Finishes = {f1, f2}
    None = None
    InviteTtl = 1
    PendingTtl = 1
SPECIFICATION FairSpec
INVARIANTS
    CreatedIsStored
    InviteAdmitsOne
    LeaseIsAuthenticated
PROPERTIES
    PendingIsForgotten
CHECK_DEADLOCK FALSE
