SPECIFICATION SlotsSpec
CONSTANTS
    m1 = m1
    m2 = m2
    Models <- TwoModels
    Drafted <- OneOfThem
    NParallel = 2
    Served <- TheOther
    BOS = "BOS"
    EOS = "EOS"
    SEP = "SEP"
    Opening <- OnlyBOS
    Closing <- NoTokens
    Supplementary <- Wide
    High = "high"
    Low = "low"
    Sampled = "sampled"
    Tokens <- Vocabulary
    Calls <- SomeCalls
    MaxCalls = 2
    MaxClock = 2
    MaxCached = 4
    NCacheReuse = 1
    Similarity <- Half
    Adapters <- Base
    Modes <- AllModes
    ViewSizes <- Sizes
CONSTRAINT OthersWait
CHECK_DEADLOCK FALSE
INVARIANTS
    LifeTypeOK
    WorkersHaveServers
    SlotsTypeOK
    DeferredIsServable
    CacheIsOfAdapters
    PromptsAreWhole
    AnswersAreOwn
PROPERTIES
    ChoosesBest
