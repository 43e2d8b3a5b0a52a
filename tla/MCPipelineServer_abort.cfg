\* Aborting peers: two peers, each on its own pre-allocated connection (the
\* pools are FIFO, so no connection is reused), two buffers, two pipelined
\* requests per peer, readahead 1. A peer may hang up or reset at any time
\* before it has all its responses, so every failure path of the IO thread
\* and the closed-connection path of the submitter are taken.  Each
\* connection may hold two buffers, so the pool runs empty while the other
\* peer is still reading.
CONSTANTS
    Conns = {c1, c2}
    Buffers = {b1, b2}
    Clients = {k1, k2}
    NReq = 2
    Readahead = 1
    PeerMayAbort = TRUE
    NULL = NULL
SPECIFICATION FairSpec
INVARIANT ConnAccounting
INVARIANT OutArmedWhilePending
PROPERTY RecycleOnlyWhenQuiescent
PROPERTY ServedDespiteAborts
