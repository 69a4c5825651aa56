SPECIFICATION FairSpec
CONSTANTS
    Nodes <- MCNodes
    Peer <- MCPeer
    Sockets <- MCSockets
    Subroutines <- MCSubroutines
    Programs <- MCPrograms
INVARIANTS
    Answered
    SocketsReady
    OwnRound
    CrowdedFaults
PROPERTY
    Completion
CHECK_DEADLOCK FALSE
