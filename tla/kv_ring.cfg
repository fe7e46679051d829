CONSTANTS
    Stages = 3
    Parts <- OperandAndScales
    Laps = 4
SPECIFICATION Spec
INVARIANTS
    TypeOK
    HeldItem
    ParityExact
    RingInv
PROPERTIES
    NoOverrun
    AllConsumed
CHECK_DEADLOCK FALSE
