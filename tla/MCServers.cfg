SPECIFICATION Spec
CONSTANTS
    MaxLevel = 4
    MaxBlocks = 9
    MaxBatch = 5
    TrieKeys <- TrieKeySet
    TrieValues = {"a", "b"}
    MaxTrieBatch = 2
    MaxTrieOps = 3
    Stamps = {1, 2, 3, 4}
    MaxTower = 3
    MaxInserts = 4
    BKeys = {1, 2, 3, 4, 5, 6, 7, 8}
    BValues = {"a"}
    Fanout = 2
    LeafFanout = 2
    MaxSet = 2
    QKeys = {1, 2}
    MaxQSets = 4
    MaxCrashes = 1
    F = 1
    MaxView = 1
    MaxRequests = 1
    MaxFaults = 3
INVARIANTS
    CommitsProveBlocks TrieMatchesContent  
    ChainVerifies  HistoryMatchesChain
     
CHECK_DEADLOCK FALSE
