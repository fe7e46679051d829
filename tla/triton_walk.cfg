CONSTANTS
    Block <- SmallBlock
    Calls <- SmallCalls
    Compiled <- CompiledTable
SPECIFICATION Spec
CHECK_DEADLOCK FALSE
INVARIANTS
    TypeOK
    EveryPairOnce
