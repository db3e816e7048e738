CONSTANTS
    HexBase = 2
    RegBytes = 2
    NumRegs = 2
    RegSizes <- MCRegSizes
    FixedRegs = {1}
    MemSize = 3
    ReadOnly = {1}
    XAddrMod = 2
    BufSizes = {4, 5, 12}
    HeaderLen = 3
    ByteVals = {0, 3}
    RegVals = {1}
    MaxLen = 2
    ArgLocs <- MCArgLocs
SPECIFICATION Spec
CHECK_DEADLOCK TRUE
INVARIANTS
    TypeOK
    BeliefTrue
    WholeBytes
    ReadWhole
    PathWhole
