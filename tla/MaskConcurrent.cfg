CONSTANTS
    a = a
    b = b
    c = c
    Paths <- ThreePaths
    Wanted <- MixedWanted
    KeysPerBatch = 2
    MasksPerKey = 2
    MaxBatch = 3
    ApiMayFail = TRUE
    ShelfMayFail = TRUE
SPECIFICATION FairSpec
CHECK_DEADLOCK FALSE
INVARIANTS
    TypeOK
    PoolNeverEmpty
    UndisturbedMasksAreFresh
PROPERTIES
    OldKeysAreReplaced
