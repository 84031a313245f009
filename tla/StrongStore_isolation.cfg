SPECIFICATION Spec
CONSTANTS
    x = x
    y = y
    sx = sx
    sy = sy
    Clients = {c1, c2}
    Shards = {sx, sy}
    Keys = {x, y}
    ShardOf <- OneKeyPerShard
    Workload <- AllTxns
    StoredProcedure = TRUE
    MaxTxns = 1
    COMMIT_RETRIES = 1
    MaxTimeouts = 0
    MaxLosses = 1
    MaxDups = 0
CONSTRAINT LossesUnderConflict
SYMMETRY Symmetry
INVARIANTS PreparedCompatible StrictlySerializable AllOrNothing
CHECK_DEADLOCK FALSE
