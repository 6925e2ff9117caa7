SPECIFICATION Spec
CONSTANTS
    Thread = {t1, t2, t3}
    NO_THREAD = NO_THREAD
SYMMETRY Symmetry
INVARIANTS
    TypeOK
    MutualExclusion
    WaitersOnOneList
    EnterIAssertions
    SuccessorIsTrying
    NoWaiterForgottenUnlessReinit
