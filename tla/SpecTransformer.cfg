SPECIFICATION FairSpec
CONSTANTS
    Width = 6
    VarSort <- MCVarSort
    FieldsOf <- MCFieldsOf
    Codecs <- MCCodecs
    Defs <- MCDefs
    FieldSort <- MCFieldSort
    FieldOrder <- MCFieldOrder
    KeySpace = {0, 1, 2, 3}
    QuantSpace = {0, 1}
    Envs <- MCEnvs
    OptOnRely = FALSE
    OptOnArith = TRUE
    OptOnMatch = TRUE
    Inputs <- MCInputs
    Fixpoints <- MCFixpoints
    Blocked <- MCBlocked
    Located <- MCLocated
    SkipList <- MCSkip
    LoopUnroll <- MCLoopUnroll
    ForcesSimpl <- MCBlocked
INVARIANTS TypeOK MeaningPreserved NoFreeNames
PROPERTIES Terminates
