CONSTANTS
    Tasks = {s1, s2}
    Listener = Listener
    Timers = {t1, t2}
    Arcs = {a1, a2}
    None = None
    MaxRequests = 1
    MaxFaults = 1
    DbFaults = TRUE
    AgentsBind = TRUE
SPECIFICATION Spec
SYMMETRY Symmetry
VIEW View
INVARIANTS
    TypeOK
    ArmedOnlyWhenIdle
    ReapedMeansTornDown
CHECK_DEADLOCK FALSE
