SPECIFICATION IndexerSpec
CONSTANTS
    a = a
    b = b
    Salt = {a, b}
    MaxHeight = 4
    MaxReorgs = 1
    MaxDepth = 4
    MayShrink = TRUE
    HasWS = FALSE
    OutCap = 1
    MaxFaults = 1
    MaxBlocks = 2
    Word = 64
    LogCount = 0
    Malformed = {}
    MaxOpFaults = 1
    MaxCrashes = 0
SYMMETRY SaltSymmetry
INVARIANT NoGap
INVARIANT DetectorLinked
INVARIANT StoredLinked
INVARIANT RecordedBlockKept
CHECK_DEADLOCK FALSE
