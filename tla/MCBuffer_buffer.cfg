CONSTANTS
    EncoderIds = {1, 2, 3, 4, 5}
    BlockSize = 2
    Timestamps = {0, 1, 2, 3}
    Values = {1, 2}
    BufferPast = 2
    BufferFuture = 1
    OutOfOrderWritesEnabled = FALSE
    BootstrapBlocks <- MCBootstrapBlocks
    MaxNow = 3
    MaxWrites = 3
    StreamFaults = FALSE
    NoValue = NoValue
SPECIFICATION Spec
INVARIANT TypeOK
INVARIANT ReadKeepsEveryTimestamp
INVARIANT NoEncoderLeak
PROPERTY TickCollapsesEncoders
