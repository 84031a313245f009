SPECIFICATION FairSpec
CONSTANTS
    x = x
    y = y
    sx = sx
    sy = sy
    Clients = {c1}
    Shards = {sx, sy}
    Keys = {x, y}
    ShardOf <- OneKeyPerShard
    Workload <- Bank
    StoredProcedure = FALSE
    MaxTxns = 2
    COMMIT_RETRIES = 2
    MaxTimeouts = 1
    MaxLosses = 1
    MaxDups = 0
PROPERTIES CommitTerminates PreparedIsReleased
CHECK_DEADLOCK FALSE
