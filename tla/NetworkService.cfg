SPECIFICATION Spec
CONSTANTS
    Nodes <- MCNodes
    Talks <- MCTalks
    MaxMsgs = 2
PROPERTY Implements
CHECK_DEADLOCK FALSE
