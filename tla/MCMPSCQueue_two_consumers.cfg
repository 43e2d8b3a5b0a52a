\* Two producers putting two items each, two consumers: the use made of
\* empty_buffers with two IO threads, or empty_connections with two accept
\* threads.  With one consumer the refinement's empty rule is the strict
\* one, and those behaviours are the ones here in which c2 has not yet
\* called queue_get.
CONSTANTS
    Producers = {p1, p2}
    Consumers = {c1, c2}
    NItems = 2
    DIV = DIV
    NULL = NULL
    POISON = POISON
    NONE = NONE
SPECIFICATION FairSpec
INVARIANT TypeOK
PROPERTY QueueRefinement
PROPERTY Drained
