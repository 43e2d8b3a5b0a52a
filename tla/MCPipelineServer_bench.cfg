\* Benchmark peers: two peers share one pre-allocated connection (so the
\* second is served by a recycled connection), three buffers, three
\* pipelined requests per peer (spec section 8, scenario A), readahead 1.
CONSTANTS
    Conns = {c1}
    Buffers = {b1, b2, b3}
    Clients = {k1, k2}
    NReq = 3
    Readahead = 1
    PeerMayAbort = FALSE
    NULL = NULL
SPECIFICATION FairSpec
INVARIANT TypeOK
INVARIANT BufferOwnedOnce
INVARIANT ConnAccounting
INVARIANT ResponsesAreOwnRequests
 
PROPERTY EveryPeerServed
PROPERTY ClosedConnRecycled
