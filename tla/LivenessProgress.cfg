CONSTANTS
    Tasks = {s1, s2}
    Listener = Listener
    Timers = {t1}
    Arcs = {a1}
    None = None
    MaxRequests = 2
    MaxFaults = 0
    DbFaults = FALSE
    AgentsBind = FALSE
SPECIFICATION FairSpec
PROPERTIES
    GoneIsForgotten
    DeletesFinish
CHECK_DEADLOCK FALSE
