SPECIFICATION Spec
CONSTANTS
    Apps = {a1, a2}
    NumQubits = 3
    NV = TRUE
    ClearMemory = TRUE
    Compiled = TRUE
    MaxOpen = 1
    MaxPairs = 2
    MaxFreed = 2
SYMMETRY AppSymmetry
CHECK_DEADLOCK FALSE
INVARIANTS
    NoLeak
    NoMissedWakeup
