CONSTANTS
    Blocks <- ShortLong
    KvStages = 2
    Decoupled = FALSE
    SharedSfk = FALSE
    QuantQK = TRUE
    QuantPV = FALSE
    CorrStoresO = FALSE
    OverlapSOSQ = FALSE
    PvBeforeNextP = FALSE
SPECIFICATION Spec
INVARIANTS
    TypeOK
    NoPhaseLost
    POperandStable
    CorrectionOwnsO
    OutputBufferOwned
    LoadsIntoFreeBuffer
PROPERTIES
    UsesRing
    ImplementsAttention
