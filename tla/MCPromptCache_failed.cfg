SPECIFICATION Spec
CONSTANTS
    Tokens <- TwoTokens
    Prompts <- Short
    Keeps <- KeepNone
    NCtx = 6
    NBatch = 3
    NCacheReuse = 0
    AddBos = 1
    NDraftMin = 1
    NDraftMax = 2
    Options <- CachedFailing
INVARIANTS
    ReusedIsComputed
