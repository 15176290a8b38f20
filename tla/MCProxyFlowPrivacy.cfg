CONSTANTS
    Keys = {k1, k2}
    NoKey = NoKey
SPECIFICATION Spec
INVARIANTS
    PrivacyDisablesFallback
CHECK_DEADLOCK FALSE
