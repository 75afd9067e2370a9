SPECIFICATION Spec
CONSTANTS
    Threads = {t1, t2}
    None = None
    Disks <- MCDisks
    Offsets = {0, 1, 4}
    BufLens = {0, 2, 5}
    MaxCalls = 2
    MayFail = TRUE
    MayPanic = TRUE
CHECK_DEADLOCK FALSE
INVARIANTS
    TypeOK
    CursorIsMine
PROPERTIES
    ImplementsImageSource
    CallsReturn
