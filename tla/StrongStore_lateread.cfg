SPECIFICATION Spec
CONSTANTS
    x = x
    y = y
    sx = sx
    sy = sy
    Clients = {c1}
    Shards = {sx, sy}
    Keys = {x, y}
    ShardOf <- OneKeyPerShard
    Workload <- Bank
    StoredProcedure = FALSE
    MaxTxns = 2
    COMMIT_RETRIES = 1
    MaxTimeouts = 1
    MaxLosses = 0
    MaxDups = 0
INVARIANTS CommitHasEveryVote
CHECK_DEADLOCK FALSE
