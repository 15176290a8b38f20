CONSTANTS
    Pools = {p1}
    Reservations = {r1, r2}
    Refreshes = {f1}
    Amount = 1
    MaxReading = 1
    MaxActual = 1
    Cooldown = 1
    MaxTime = 0
    MaxLosses = 0
    Fresh = Fresh
    Answered = Answered
SPECIFICATION FairSpec
PROPERTIES
    LeakedReservationsReturn
CHECK_DEADLOCK FALSE
