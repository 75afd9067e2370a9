SPECIFICATION Spec
CONSTANTS
    U64_MAX = 31
    Views <- AllImages
    Offsets = {0, 1, 5, 9, 20}
    Amounts <- MCAmounts
    Rooms = {0, 2, 4, 8}
    BUF = 4
    LINE = 1
    WBUF = 2
CHECK_DEADLOCK FALSE
INVARIANTS
    TypeOK
    NoWrongCell
    DumpComplete
PROPERTY DumpEnds
