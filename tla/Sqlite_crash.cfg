SPECIFICATION Spec
CONSTANTS
    Pages <- TwoPages
    CheckpointAt = 2
    MaxFrames = 3
    MaxTxns = 3
    MaxFaults = 1
    MaxLosses = 1
INVARIANTS
    SnapshotRead
PROPERTIES
    ImplementsStore
CHECK_DEADLOCK FALSE
