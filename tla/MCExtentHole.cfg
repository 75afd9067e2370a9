SPECIFICATION Spec
CONSTANTS
    SECTOR_SIZE = 2
    U64_MAX = 127
    HEADROOM = 1
    Zlib <- MCZlib
    Scenarios <- HoleInSparse
    MIN_GRAIN_SIZE = 1
    MAX_GRAIN_SIZE_SECTORS = 8
    MAX_NUM_GTES_PER_GT = 2
    MAX_GD = 4
    COWD_GD_SECTOR = 1
    COWD_GTES_PER_GT = 2
    Lengths = {0, 1, 3, 8}
    SeekStarts = {0, 5, 7, 100}
    SeekDeltas <- MCSeekDeltas
INVARIANT ReadsAsMeant
