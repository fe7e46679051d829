CONSTANTS
    p1 = p1
    p2 = p2
    p3 = p3
    kernel = kernel
    Procs <- ThreeProcs
    Keys <- OneKernel
    MaxCrashes = 1
    MaxFailures = 1
    MaxClears = 1
SPECIFICATION Spec
INVARIANTS
    TypeOK
    NoTornRead
    CompiledOnce
PROPERTIES
    StaysWhole
    EveryoneServed
CHECK_DEADLOCK FALSE
