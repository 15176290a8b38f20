CONSTANTS
    Instances = {i1, i2}
    Keys = {k1}
    Requests = {r1, r2}
    None = None
    Ttl = 1
    Debounce = 2
    Days = 2
    QueryDelay = 1
    MaxTime = 4
SPECIFICATION Spec
SYMMETRY AccessSymmetry
INVARIANTS
    TypeOK
    RevokedHereAtOnce
    RevokedSoonEverywhere
PROPERTIES
    UsedKeysStay
CHECK_DEADLOCK FALSE
