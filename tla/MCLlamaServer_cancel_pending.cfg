SPECIFICATION Spec
CONSTANTS
    t1 = t1
    t2 = t2
    Threads = {t1, t2}
    Closers = {}
    MaxTasks = 2
    NSlots = 1
    NBatch = 2
    Requests <- Streams
    DecodeCodes <- DecodesOnly
    CtxShift = TRUE
    ContBatching = TRUE
    MaxDecoded = 1
INVARIANTS
    CancelledIsNotPending
