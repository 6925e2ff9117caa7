SPECIFICATION Spec
CONSTANTS
    N = 2
    BARRIERS = 3
    EXPERIMENTS = 2
    ACQUIRES = 2
    INNER = 2
    TIMEOUT = TRUE
    NONE = NONE
INVARIANTS TypeOK BarrierHolds SyncWordComplete ReportedAcquires
PROPERTY EndsUnlessEarly
CHECK_DEADLOCK FALSE
