SPECIFICATION FairSpec
CONSTANTS
    Threads = {t1, t2, t3}
    LOCK_NODE = lock_node
    NULL = null
INVARIANTS
    MutualExclusion
    NodesNotShared
PROPERTIES
    ServedInOrder
    NoStarvation
