SPECIFICATION Spec
CONSTANTS
    Inputs <- AnyJson
    MaxInputs = 4
    NCtx = 6
    NTrain = 5
    NVocab = 3
    NLora = 2
    EOG = {0, 2}
    EOS = 0
    TokenOf <- Words1
    NPredicts <- NoneOrTwo
    NPrompts = {1, 5}
    HasDraft = TRUE
CHECK_DEADLOCK FALSE
INVARIANTS
    AcceptedIsSane
    LimitsHold
