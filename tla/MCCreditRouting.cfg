CONSTANTS
    Instances = {i1}
    Pools = {p1}
    Attempts = {a1, a2}
    Amount = 1
    MaxReading = 2
    MaxActual = 1
    Cooldown = 1
    MaxTime = 0
    MaxLosses = 0
    Fresh = Fresh
    Answered = Answered
    NoKey = NoKey
SPECIFICATION Spec
SYMMETRY RoutingSymmetry
INVARIANTS
    LedgerWithinProvider
    LedgerUsedOnce
CHECK_DEADLOCK FALSE
