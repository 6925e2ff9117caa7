SPECIFICATION FairSpec
CONSTANTS
    N = 3
    MAX_NODES = 4
    PENDING_LOOPS = 1
INVARIANTS
    TypeOK
    MutualExclusion
    WordMatchesThreads
PROPERTIES
    ServedInOrder
    NoStarvation
