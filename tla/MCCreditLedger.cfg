CONSTANTS
    Pools = {p1, p2}
    Reservations = {r1, r2}
    Refreshes = {f1, f2}
    Amount = 1
    MaxReading = 2
    MaxActual = 2
    Cooldown = 1
    MaxTime = 1
    MaxLosses = 1
    Fresh = Fresh
    Answered = Answered
SPECIFICATION Spec
SYMMETRY LedgerSymmetry
INVARIANTS
    TypeOK
    IndexSound
    ReservedMatchesIndex
    FenceSound
PROPERTIES
    NewerReservationsKept
    CooldownNeverShortened
    ImplementsBudget
CHECK_DEADLOCK FALSE
