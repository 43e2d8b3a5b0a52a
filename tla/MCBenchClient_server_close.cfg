CONSTANTS
    NConns <- MCNConns
    NReq <- MCNReq
    P <- MCP
    Cap <- MCCap
    FailPoints <- MCFailPoints
    Deadline = TRUE
    ServerMayClose = TRUE
SPECIFICATION FairSpec
PROPERTY ClientCompletes
CHECK_DEADLOCK FALSE
