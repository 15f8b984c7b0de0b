SPECIFICATION LiquidationSpec
CONSTANTS
    b1 = b1
    b2 = b2
    Borrower = {b1, b2}
    NoBorrower = NoBorrower
    DebtLists <- OneEntry
    CollLists <- FullEntry
    MaxScans = 2
    MaxFaults = 1
    MaxRestarts = 1
SYMMETRY BorrowerSymmetry
INVARIANT TrackedAccepted
INVARIANT NonceGapFree
INVARIANT OncePerTick
CHECK_DEADLOCK FALSE
