SPECIFICATION Spec
CONSTANTS
    Tokens <- Pieces
    StopSets <- StopWords
    MaxDecoded = 4
INVARIANTS
    TextTypeOK
    OutputsAreWhole
    StopsBeforeStopWord
