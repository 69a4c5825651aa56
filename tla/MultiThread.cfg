SPECIFICATION FairSpec
CONSTANTS
    Nodes <- MCNodes
    Apps <- MCApps
    NodeOf <- MCNodeOf
    Programs <- MCPrograms
    Code <- MCCode
    MaxWaiting = 2
INVARIANTS
    DistinctTasksDone
    PairsReachTheirSocket
    InOrder
    ResultsNamed
PROPERTY
    Completion
CHECK_DEADLOCK FALSE
