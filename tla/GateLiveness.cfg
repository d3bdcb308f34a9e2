CONSTANTS
    Requests = {r1}
    Ids = {a}
    None = None
    MaxStreams = 2
    MaxInFlight = 2
    MaxNacks = 0
    MaxHangups = 1
    MaxRestarts = 0
SPECIFICATION FairSpec
PROPERTIES
    HandlersAnswer
    Converges
CHECK_DEADLOCK FALSE
