SPECIFICATION FairSpec
CONSTANTS
    Threads = {0, 1, 2}
    TICKETS = 4
    DEPTH_UNIT = 1
INVARIANTS
    TypeOK
    MutualExclusion
    TicketsOutstanding
    DepthBoundsWait
PROPERTIES
    ServedInOrder
    NoStarvation
