CONSTANTS
    Requests = {r1, r2}
    Ids = {a}
    None = None
    MaxStreams = 2
    MaxInFlight = 1
    MaxNacks = 1
    MaxHangups = 1
    MaxRestarts = 0
SPECIFICATION Spec
SYMMETRY Symmetry
INVARIANTS
    TypeOK
    AckGate
    AnnouncedIsEnforced
    RemovedIsNotEnforced
CHECK_DEADLOCK FALSE
