SPECIFICATION Spec
CONSTANTS
    x = x
    y = y
    sx = sx
    sy = sy
    Clients = {c1, c2}
    Shards = {sx, sy}
    Keys = {x, y}
    ShardOf <- OneKeyPerShard
    Workload <- ReadModifyWrite
    StoredProcedure = FALSE
    MaxTxns = 1
    COMMIT_RETRIES = 1
    MaxTimeouts = 0
    MaxLosses = 0
    MaxDups = 0
SYMMETRY Symmetry
INVARIANTS NoLostUpdate
CHECK_DEADLOCK FALSE
