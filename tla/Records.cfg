CONSTANTS
    Containers = {c1}
    Agents = {a1, a2}
    NoAgent = NoAgent
    Faults = TRUE
    MaxBrokerCrashes = 2
    MaxCpRestarts = 1
SPECIFICATION Spec
SYMMETRY Symmetry
INVARIANTS
    TypeOK
    AnnouncedBeforeTraffic
    ReapedStaysUnrouted
    RoutedIsRegistered
CHECK_DEADLOCK FALSE
