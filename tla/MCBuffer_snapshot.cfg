CONSTANTS
    EncoderIds = {1, 2, 3, 4, 5}
    BlockSize = 2
    Timestamps = {0, 1, 2, 3}
    Values = {1, 2}
    BufferPast = 2
    BufferFuture = 1
    OutOfOrderWritesEnabled = FALSE
    BootstrapBlocks = {}
    MaxNow = 3
    MaxWrites = 4
    StreamFaults = FALSE
    NoValue = NoValue
SPECIFICATION Spec
INVARIANT SnapshotGuardHolds
