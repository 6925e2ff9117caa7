SPECIFICATION FairSpec
CONSTANTS
    Threads <- MCThreads
    BYTE = 8
    NODES = 1
    Builds <- MCBuilds
INVARIANTS
    TypeOK
    TicketWindow
PROPERTIES
    TicketsInOrder
    NoStarvation
