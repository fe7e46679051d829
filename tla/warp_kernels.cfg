CONSTANTS
    Considered <- SmallLaunches
    Kernels <- KernelTable
SPECIFICATION Spec
INVARIANTS TypeOK OutputExact NoPhaseLost NobodyStuck
