CONSTANTS
    Keys = {k1, k2, k3}
    NoKey = NoKey
SPECIFICATION FairSpec
INVARIANTS
    TypeOK
    RouteModeKept
    QuotaFallbackExact
    EachBackendOnce
    AttemptsSettledOnce
    StreamsUnderTimer
PROPERTIES
    RequestEnds
CHECK_DEADLOCK FALSE
