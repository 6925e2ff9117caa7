SPECIFICATION Spec
CONSTANTS
    Threads = {1, 2, 3}
    LAPS = 2
    MAX_SPINS = 1
    LLSC = FALSE
INVARIANT
    NoThreadLeftAsleep
CHECK_DEADLOCK FALSE
