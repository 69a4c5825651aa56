SPECIFICATION FairSpec
CONSTANTS
    A = A
    B = B
    C = C
    Nodes = {A, B, C}
    NumComm = 1
    Programs <- MCPrograms
CHECK_DEADLOCK FALSE
INVARIANTS
    ResultAwaited
PROPERTIES
    Implements
    Completion
