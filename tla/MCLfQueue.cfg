\* Two threads on one queue of three nodes (the first sentinel and one node
\* per thread).  p1 enqueues, dequeues, enqueues the node it got back and
\* dequeues; p2 dequeues first (so it can meet a lagging tail), enqueues and
\* dequeues.  Every node is reused while the other thread may hold a stale
\* pointer to it.
CONSTANTS
    p1 = p1
    p2 = p2
    Procs = {p1, p2}
    NumNodes = 3
    NoObj = NoObj
    Script <- MCScript
    FirstPool <- MCFirstPool
SPECIFICATION Spec
INVARIANTS
    TypeOK
    NodesExclusive
    EmptyJustified
PROPERTIES
    Linearizable
    AllComplete
