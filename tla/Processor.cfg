SPECIFICATION FairSpec
CONSTANTS
    Programs <- MCPrograms
    None = None
    PairLen = 2
    MaxPairs = 2
    Outcomes = {0, 1}
CHECK_DEADLOCK FALSE
INVARIANTS
    Computes
PROPERTIES
    Implements
    Completion
