CONSTANTS
    Instances = {i1, i2}
    Gets = {g1, g2, g3}
    Writes = {w1, w2}
    None = None
SPECIFICATION Spec
SYMMETRY CacheSymmetry
INVARIANTS
    TypeOK
    NeverGoesBack
CHECK_DEADLOCK FALSE
