\* One peer that may hang up or reset, on one connection, two buffers:
\* a failed send followed by a failed receive on the same epoll event.
CONSTANTS
    Conns = {c1}
    Buffers = {b1, b2}
    Clients = {k1}
    NReq = 2
    Readahead = 1
    PeerMayAbort = TRUE
    NULL = NULL
SPECIFICATION Spec
INVARIANT BufferOwnedOnce
