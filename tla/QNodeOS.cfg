SPECIFICATION FairSpec
CONSTANTS
    NumTimes = 3
    NumSockets = 2
    NumSubrts = 2
    ClearMemory = TRUE
CHECK_DEADLOCK FALSE
INVARIANTS
    AnswersMatch
    ReadyToExecute
PROPERTIES
    NoneAfterStop
    AllRunsEnd
    AllCleaned
