CONSTANTS
    Instances = {i1, i2}
    Buckets = {b1, b2}
    None = None
    Window = 2
    FlushInterval = 1
    MaxRequests = 1
    MaxArrivals = 3
    MaxTime = 4
SPECIFICATION Spec
SYMMETRY LimiterSymmetry
INVARIANTS
    TypeOK
    CountedOnce
    LocalCountKept
    LimitHolds
CHECK_DEADLOCK FALSE
