SPECIFICATION Spec
CONSTANTS
    SECTOR_SIZE = 2
    U64_MAX = 127
    HEADROOM = 1
    Zlib <- MCZlib
    Sources <- ReadSources
    MIN_GRAIN_SIZE = 1
    MAX_GRAIN_SIZE_SECTORS = 8
    MAX_NUM_GTES_PER_GT = 2
    MAX_GD = 4
    MAX_DESCRIPTOR = 8
    COWD_GD_SECTOR = 1
    COWD_GTES_PER_GT = 2
    Lengths = {0, 1, 3}
    HASH_BUF = 4
    SeekStarts = {0, 3, 100}
    SeekDeltas <- MCSeekDeltas
    MaxRecoveries = 2
CHECK_DEADLOCK FALSE
INVARIANTS
    TypeOK
    CacheCoherent
    DirectoryCoversDisk
    ReadsAreStored
    SurvivorsAreRead
    ListingAgrees
    AllocationAgrees
PROPERTIES
    RecoveryKeepsData
    ImplementsDisk
    HashReturns
