SPECIFICATION VRSpec
CONSTANTS
    F = 1
    MaxView = 1
    MaxRequests = 1
    MaxFaults = 3
INVARIANT StateTransferWithinLog
CHECK_DEADLOCK FALSE
