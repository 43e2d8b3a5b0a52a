\* Two accept threads (threads.accept = 2), no failures, two sessions and
\* one peer: the peer's connect wakes both threads' epoll instances.
CONSTANTS
    NThreads = 2
    FailPoints = {}
    NSessions = 2
    NPeers = 1
SPECIFICATION FairSpec
CHECK_DEADLOCK FALSE
PROPERTY ConnReturns
