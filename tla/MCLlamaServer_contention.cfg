SPECIFICATION Spec
CONSTANTS
    t1 = t1
    t2 = t2
    Threads = {t1, t2}
    Closers = {}
    MaxTasks = 2
    NSlots = 1
    NBatch = 2
    Requests <- StreamsAndRefused
    DecodeCodes <- DecodesOrFails
    CtxShift = FALSE
    ContBatching = FALSE
    MaxDecoded = 2
CHECK_DEADLOCK FALSE
SYMMETRY ThreadSymmetry
INVARIANTS
    ResultsAwaited
    IdsAreCleanedUp
    OneHome
PROPERTIES
    ImplementsService
