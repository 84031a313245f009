SPECIFICATION Spec
CONSTANTS
    x = x
    y = y
    sx = sx
    sy = sy
    Clients = {c1}
    Shards = {sx, sy}
    Keys = {x, y}
    ShardOf <- OneKeyPerShard
    Workload <- WriteBoth
    StoredProcedure = TRUE
    MaxTxns = 2
    COMMIT_RETRIES = 2
    MaxTimeouts = 1
    MaxLosses = 1
    MaxDups = 1
INVARIANTS CommitFindsPrepared CallbackFindsBlockingBegin NoZombiePrepare
PROPERTIES ImplementsAtomicTxn
CHECK_DEADLOCK FALSE
