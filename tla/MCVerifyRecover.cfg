SPECIFICATION Spec
CONSTANTS
    SECTOR_SIZE = 2
    U64_MAX = 255
    HEADROOM = 1
    Zlib <- MCZlib
    MIN_GRAIN_SIZE = 1
    MAX_GRAIN_SIZE_SECTORS = 8
    MAX_NUM_GTES_PER_GT = 2
    MAX_GD = 4
    MAX_DESCRIPTOR = 8
    COWD_GD_SECTOR = 1
    COWD_GTES_PER_GT = 2
    SE_GRAIN_SECTORS = 2
    SE_GT_SECTORS = 1
    MAX_SE_GD = 4
    SE_GD_SPAN = 8
    SE_HI_SPAN = 2
    SE_LO_SPAN = 8
    Sources <- MCSources
    Args <- MCArgs
    HASH_BUF = 4
CHECK_DEADLOCK FALSE
INVARIANT RecoverPassIsReadable
