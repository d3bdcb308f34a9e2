CONSTANTS
    Requests = {r1, r2}
    Commands = {c1}
    Keys = {k1, k2}
    None = None
SPECIFICATION FairSpec
INVARIANTS
    AckedWritesSurvive
    RequestsSerialise
PROPERTIES
    OperationsEnd
CHECK_DEADLOCK FALSE
