SPECIFICATION Spec
CONSTANTS
    Pages <- TwoPages
    CheckpointAt = 2
    MaxFrames = 3
    MaxTxns = 3
    MaxFaults = 0
    MaxLosses = 1
INVARIANTS
    LeftoversIgnored
CHECK_DEADLOCK FALSE
