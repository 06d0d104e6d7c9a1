\* Series: SeriesLastWriteWins, expected to be violated.
CONSTANTS
    EncoderIds = {}
    Timestamps = {0, 1, 2, 3}
    Values = {1, 2}
    NoValue = NoValue
    BlockSize = 2
    BufferPast = 1
    BufferFuture = 2
    RetentionPeriod = 3
    ShortExpiry = FALSE
    ShortExpiryPeriod = 0
    BootstrapInputs <- MCBootstrapInputs
    NilBlocks = NilBlocks
    Ids = {i1}
    NoId = NoId
    MaxNow = 5
    MaxWrites = 3
    MaxCloses = 1
SPECIFICATION Spec
\* Past MaxNow with the bounds spent, every method is a no-op: the series is
\* quiescent, not stuck.
CHECK_DEADLOCK FALSE
INVARIANT SeriesLastWriteWins
