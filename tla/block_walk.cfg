CONSTANTS
    MBlock = 2
    NBlock = 2
    Calls <- ShortTiles
SPECIFICATION Spec
INVARIANTS
    TypeOK
    SameBlocks
    EachKeyOnce
PROPERTY
    EveryTileEnds
CHECK_DEADLOCK FALSE
