SPECIFICATION Spec
CONSTANTS
    Keys = {k1, k2}
    Timestamps = {t1, t2}
    MaxBlocks = 2
    MaxRestarts = 1
    MaxLevel = 1
PROPERTY StoredNodesImmutable
CHECK_DEADLOCK FALSE
