SPECIFICATION Spec
CONSTANTS
    U64_MAX = 127
    SECTOR_SIZE = 2
    MAX_CHAIN_DEPTH = 3
    NO_PARENT = 0
    Scenarios <- AllChains
    Lengths = {0, 1, 3, 8}
    SeekStarts = {0, 5, 100}
    SeekDeltas <- MCSeekDeltas
    MayFail = TRUE
CHECK_DEADLOCK FALSE
INVARIANT TypeOK
PROPERTIES
    ImplementsDisk
    OpenEnds
