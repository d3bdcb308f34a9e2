CONSTANTS
    Keys = {k1, k2}
    Token = 2
    Rate = 1
    Burst = 6
    StaleTtl = 3
    MaxLate = 2
    NoBucket = NoBucket
SPECIFICATION LimiterSpec
PROPERTIES
    ImplementsTokenBucket
CHECK_DEADLOCK FALSE
