\* Scenario A with readahead 2: one peer sending three requests back to
\* back on one connection, three buffers.  Two responses can then wait in
\* the submitter inbox while the IO thread holds the connection lock to
\* count the third request.
CONSTANTS
    Conns = {c1}
    Buffers = {b1, b2, b3}
    Clients = {k1}
    NReq = 3
    Readahead = 2
    PeerMayAbort = FALSE
    NULL = NULL
SPECIFICATION Spec
INVARIANT ResponsesInOrder
