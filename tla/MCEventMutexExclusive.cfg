SPECIFICATION Spec
CONSTANTS
    Threads = {1, 2}
    LAPS = 1
    MAX_SPINS = 1
    LLSC = TRUE
INVARIANT
    NoThreadLeftAsleep
CHECK_DEADLOCK FALSE
