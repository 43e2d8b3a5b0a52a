\* Two peers share one connection (the second is served by the recycled
\* connection); the first may hang up or reset mid-response.
CONSTANTS
    Conns = {c1}
    Buffers = {b1, b2}
    Clients = {k1, k2}
    NReq = 2
    Readahead = 1
    PeerMayAbort = TRUE
    NULL = NULL
SPECIFICATION Spec
INVARIANT ResponsesAreOwnRequests
