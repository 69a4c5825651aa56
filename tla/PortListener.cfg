SPECIFICATION Spec
CONSTANT MaxMsgs = 6
CHECK_DEADLOCK FALSE
INVARIANTS
    CountIsRight
    Noticed
    NothingLost
    FailsOnlyWhenCrowded
