CONSTANTS
    NConns <- MCNConns
    NReq <- MCNReq
    P <- MCP
    Cap <- MCCap
    FailPoints <- MCFailPoints
    Deadline = TRUE
    ServerMayClose = TRUE
SPECIFICATION FairSpec
INVARIANT TypeOK
INVARIANT EveryRequestAnswered
INVARIANT SocketsClosedOnce
PROPERTY ClientTerminatesIfServerStaysUp
CHECK_DEADLOCK FALSE
