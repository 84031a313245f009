SPECIFICATION Spec
CONSTANTS
    Keys = {k1}
    Timestamps = {t1, t2}
    MaxBlocks = 2
    MaxRestarts = 0
    MaxLevel = 1
INVARIANT CommitsFormHashChain
CHECK_DEADLOCK FALSE
