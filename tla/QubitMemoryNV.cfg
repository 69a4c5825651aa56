SPECIFICATION Spec
CONSTANTS
    Apps = {a1, a2}
    NumQubits = 3
    NV = TRUE
    ClearMemory = TRUE
    Compiled = FALSE
    MaxOpen = 2
    MaxPairs = 2
    MaxFreed = 1
SYMMETRY AppSymmetry
CHECK_DEADLOCK FALSE
INVARIANTS
    TypeOK
    NoSharing
    HeldIsAllocated
    IInv
