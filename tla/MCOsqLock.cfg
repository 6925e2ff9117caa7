SPECIFICATION FairSpec
CONSTANTS
    N = 3
    MAX_UNQUEUES = 1
INVARIANTS
    TypeOK
    OneOwner
    QueueIntact
PROPERTIES
    NoStarvation
