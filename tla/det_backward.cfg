CONSTANTS
    TileM = 2
    TileN = 2
    Calls <- Sound
SPECIFICATION Spec
INVARIANTS
    TypeOK
    EveryTileOnce
    OneWriter
    NoGradientLost
PROPERTIES
    ImplementsOrderedSums
    KernelEnds
CHECK_DEADLOCK FALSE
