SPECIFICATION Spec
CONSTANTS
    Threads = {1, 2}
    LAPS = 3
    MAX_SPINS = 2
    LLSC = FALSE
INVARIANTS
    TypeOK
    MutualExclusion
    NoThreadLeftAsleep
CHECK_DEADLOCK FALSE
