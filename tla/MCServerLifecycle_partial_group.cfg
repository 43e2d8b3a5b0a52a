\* Two threads per group; only thread creation may fail.
CONSTANTS
    NThreads = 2
    FailPoints = {"thread"}
    NSessions = 1
    NPeers = 1
SPECIFICATION Spec
CHECK_DEADLOCK FALSE
INVARIANT NoThreadOutlivesCtx
