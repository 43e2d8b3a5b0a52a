\* The default configuration (one thread per group) with every failure
\* point of create_server and of the accept stage enabled; one session
\* for two peers, so the accept stage meets an empty pool and has to wait
\* for a release.  Every path ends with the process
\* gone (exit, crash or exit(1) on a second SIGINT), so terminal states
\* are not deadlocks.
CONSTANTS
    NThreads = 1
    FailPoints = {"ctx", "bind", "epoll", "queue", "prealloc", "thread",
                  "accept_epoll", "accept4", "conn_epoll"}
    NSessions = 1
    NPeers = 2
SPECIFICATION FairSpec
CHECK_DEADLOCK FALSE
INVARIANT TypeOK
INVARIANT NoThreadOutlivesCtx
PROPERTY ShutdownCompletes
PROPERTY AcceptResumes
