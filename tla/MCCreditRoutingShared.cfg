CONSTANTS
    Instances = {i1, i2}
    Pools = {p1}
    Attempts = {a1}
    Amount = 1
    MaxReading = 1
    MaxActual = 1
    Cooldown = 1
    MaxTime = 0
    MaxLosses = 1
    Fresh = Fresh
    Answered = Answered
    NoKey = NoKey
SPECIFICATION Spec
SYMMETRY RoutingSymmetry
INVARIANTS
    TypeOK
PROPERTIES
    ImplementsLedger
CHECK_DEADLOCK FALSE
