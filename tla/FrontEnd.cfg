SPECIFICATION FairFeSpec
CONSTANTS
    Functions <- MCFunctions
    Oracles <- MCOracles
    Jumps <- collect_continue_break
    Redirect <- modify_continue_break
    update_scc <- Searched
    ArgValues <- MCArgValues
    Rank <- MCRank
    Voids <- MCVoids
    PostEnsure <- MCPost
    StackVars <- MCStack
    Width = 8
    VarSort <- MCFields
    FieldsOf <- MCFields
    Codecs <- MCFields
    Defs <- MCFields
    FieldSort <- MCFields
    KeySpace = {0}
    QuantSpace = {0}
INVARIANTS TypeOK BackwardsConsistent MeaningPreserved Converts SpecMeansCode Closed
PROPERTIES ConversionEnds
CHECK_DEADLOCK FALSE
