\* One peer that may reset while a response is attached, two connections,
\* under the threads' fairness.
CONSTANTS
    Conns = {c1, c2}
    Buffers = {b1, b2}
    Clients = {k1}
    NReq = 2
    Readahead = 1
    PeerMayAbort = TRUE
    NULL = NULL
SPECIFICATION FairSpec
PROPERTY ClosedConnRecycled
