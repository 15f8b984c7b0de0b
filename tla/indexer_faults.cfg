SPECIFICATION IndexerSpec
CONSTANTS
    a = a
    b = b
    Salt = {a, b}
    MaxHeight = 2
    MaxReorgs = 1
    MaxDepth = 2
    MayShrink = FALSE
    HasWS = TRUE
    OutCap = 2
    MaxFaults = 1
    MaxBlocks = 2
    Word = 64
    LogCount = 1
    Malformed = {}
    MaxOpFaults = 1
    MaxCrashes = 2
SYMMETRY SaltSymmetry
INVARIANT EventsHaveBlocks
INVARIANT BlocksCovered
PROPERTY ImplementsEventStore
CHECK_DEADLOCK FALSE
