SPECIFICATION ScannerSpec
CONSTANTS
    u1 = u1
    u2 = u2
    u3 = u3
    u4 = u4
    u5 = u5
    u6 = u6
    User = {u1, u2, u3, u4, u5, u6}
    HF = {0, 1, 2}
    NilHF = NilHF
SYMMETRY UserSymmetry
INVARIANT MostDangerousIsMinimal
INVARIANT IndexConsistent
