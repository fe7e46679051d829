CONSTANTS
    Blocks <- OneTile
    KvStages = 4
    Decoupled = TRUE
    SharedSfk = FALSE
    QuantQK = TRUE
    QuantPV = TRUE
    CorrStoresO = FALSE
    OverlapSOSQ = FALSE
    PvBeforeNextP = FALSE
SPECIFICATION Spec
INVARIANTS
    POperandStable
CHECK_DEADLOCK FALSE
