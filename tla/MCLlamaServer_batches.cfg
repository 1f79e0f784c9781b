SPECIFICATION FairSpec
CONSTANTS
    t1 = t1
    t2 = t2
    Threads = {t1, t2}
    Closers = {t1}
    MaxTasks = 3
    NSlots = 2
    NBatch = 4
    Requests <- RanksAndTexts
    DecodeCodes <- DecodesOrHalves
    CtxShift = FALSE
    ContBatching = TRUE
    MaxDecoded = 1
CHECK_DEADLOCK FALSE
INVARIANTS
    TypeOK
    OwnLogits
    RoundsAreComplete
    NoSleepWhileProcessing
    DeferredIsServed
PROPERTIES
    ImplementsService
    CallsReturn
    TerminateEndsWorker
