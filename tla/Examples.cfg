SPECIFICATION FairSpec
CONSTANTS
    Apps <- MCApps
    Code <- Program
CHECK_DEADLOCK FALSE
INVARIANTS
    BlindComputation
    Transferred
    SameOutcomes
    SquareWon
PROPERTY
    Completion
