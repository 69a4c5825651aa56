SPECIFICATION FairSpec
CONSTANTS
    Nodes <- MCNodes
    Programs <- MCPrograms
    NumEpr = 3
    NumTest = 1
CHECK_DEADLOCK FALSE
INVARIANTS
    Corrected
    KeysAgree
PROPERTIES
    Completion
