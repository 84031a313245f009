SPECIFICATION Spec
CONSTANTS
    WriteSets = {{1}, {1, 2}}
    MaxSets = 3
    MaxInvoke = 2
    MaxBreaks = 2
    MaxEarly = 2
    TClients = {1, 2}
    MaxPrepares = 2
    MaxMishaps = 2
    VKeys = {1, 2}
    VTxns <- Txns
    VRanges <- Ranges
    MaxTxns = 3
    MaxRounds = 2
    MaxTimeouts = 1
INVARIANTS
     ReplyProofsVerify LogRangesFollowBlocks AuditFindsChainOnly
    FramesIntact  TimersMatchRequests
    TimestampsOrdered
    KeysAccountedFor ProofFindsBlock
PROPERTIES BufferedIsSealed  PrepareGetsTimestamp VerifyRoundEnds
CHECK_DEADLOCK FALSE
