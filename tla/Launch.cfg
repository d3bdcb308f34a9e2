CONSTANTS
    Agents = {a1, a2}
    None = None
    Binds = {b1, b2, b3}
    Teardowns = {t1, t2}
    MaxCrashes = 1
    MaxKills = 1
SPECIFICATION Spec
SYMMETRY Symmetry
INVARIANTS
    RunningHasSecrets
    RecordedAgentIsVisible
PROPERTIES
    TeardownIsComplete
CHECK_DEADLOCK FALSE
