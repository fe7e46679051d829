CONSTANTS
    Considered <- MlaLseLaunches
    Kernels <- KernelTable
SPECIFICATION Spec
INVARIANT OutputExact
