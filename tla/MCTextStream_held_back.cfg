SPECIFICATION Spec
CONSTANTS
    Tokens <- Pieces
    StopSets <- StopWords
    MaxDecoded = 3
INVARIANTS
    StreamIsComplete
