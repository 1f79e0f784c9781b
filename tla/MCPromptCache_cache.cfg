SPECIFICATION Spec
CONSTANTS
    Tokens <- TwoTokens
    Prompts <- ShortAndLong
    Keeps <- KeepSome
    NCtx = 6
    NBatch = 3
    NCacheReuse = 1
    AddBos = 1
    NDraftMin = 1
    NDraftMax = 2
    Options <- Exact
INVARIANTS
    CacheTypeOK
    ContextIsExact
    PromptFits
    LogitsAreComputed
