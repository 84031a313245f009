SPECIFICATION FairSpec
CONSTANTS
    Keys = {k1}
    Timestamps = {t1, t2, t3}
    MaxBlocks = 2
    MaxRestarts = 1
    MaxLevel = 1
PROPERTIES BlocksReachDigest
CHECK_DEADLOCK FALSE
