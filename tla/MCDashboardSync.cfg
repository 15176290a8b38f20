CONSTANTS
    Limit = 2
    Top = 3
    MaxRemovals = 2
SPECIFICATION FairSpec
INVARIANTS TypeOK NoResurrection
PROPERTY Converges
CHECK_DEADLOCK FALSE
