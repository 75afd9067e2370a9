SPECIFICATION Spec
CONSTANTS
    SECTOR_SIZE = 2
    U64_MAX = 255
    HEADROOM = 1
    Zlib <- MCZlib
    SE_GRAIN_SECTORS = 2
    SE_GT_SECTORS = 1
    MAX_SE_GD = 4
    SE_GD_SPAN = 8
    SE_HI_SPAN = 2
    SE_LO_SPAN = 8
    Sources <- MCSources
    Lengths = {0, 1, 3, 9}
    SeekStarts = {0, 3, 8, 200}
    SeekDeltas <- MCSeekDeltas
CHECK_DEADLOCK FALSE
INVARIANTS
    SurvivorsAreRead
    LookupsAgree
PROPERTY ImplementsDisk
