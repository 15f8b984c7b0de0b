SPECIFICATION FairIndexerSpec
CONSTANTS
    a = a
    b = b
    Salt = {a, b}
    MaxHeight = 3
    MaxReorgs = 1
    MaxDepth = 2
    MayShrink = FALSE
    HasWS = TRUE
    OutCap = 1
    MaxFaults = 0
    MaxBlocks = 2
    Word = 64
    LogCount = 2
    Malformed = {1}
    MaxOpFaults = 0
    MaxCrashes = 0
INVARIANT IndexerTypeOK
INVARIANT CaughtUpInSync
INVARIANT NoGap
PROPERTY EventuallyInSync
CHECK_DEADLOCK FALSE
