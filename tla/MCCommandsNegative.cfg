SPECIFICATION Spec
CONSTANTS
    Reg = {r1, r2}
    r1 = r1
    r2 = r2
    s1 = s1
    s2 = s2
    s3 = s3
    Val <- MCVal
    NoVal = NoVal
    NoReg = NoReg
    ByteMod = 2
    LongMax = 12
    DoubleExact = 8
    DoubleMax = 20
    RegSize = 2
    MemSize = 2
    SymAddr <- MCSymAddr
    RegArgs <- MCRegArgs
    AddrArgs <- MCAddrArgs
    StoreArgs <- MCNegArgs
    TypeArgs = {"i16"}
CHECK_DEADLOCK FALSE
INVARIANT NegativesStored
