CONSTANTS
    Tenants = {t1, t2}
    Workspaces = {w1}
    Plugins = {p1}
    Names = {a, A}
    Fold <- MCFold
    Routable = {a}
    Manifest = a
    Requests = {r1, r2}
    Boots = {b1}
    Sessions = {s1}
    Seed = Seed
    None = None
SPECIFICATION Spec
SYMMETRY Symmetry
INVARIANTS
    TokenGuardsUpdate
    CaseFoldedUnique
    GateClearsRecords
CHECK_DEADLOCK FALSE
