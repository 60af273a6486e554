SPECIFICATION FairSpec
CONSTANTS
    Width = 4
    IntLimit = 16
    VarSort <- MCVarSort
    FieldsOf <- MCFieldsOf
    FieldType <- MCFieldType
    FieldSort <- MCFieldSort
    Codecs <- NoCodecs
    Defs <- MCDefs
    KeySpace = {0, 1, 2, 3, 4}
    QuantSpace = {0, 1}
    Projects <- MCProjects
    Builtins <- Constructed
    ResolvedType <- visitType
    IsExpr <- IsExprNode
    IsStruct <- IsStructType
    TypeOf <- get_type
    TypedDefinition <- InferDefinition
    TypedInvariant <- infer_invariant
    Dependencies <- calc_dependencies
    RenamedCalls <- replace_spec_name
    Unfoldings <- MetUnfolding
    UnfoldedBody <- UnfoldCalls
    Assuming <- Rely
    FieldAncestors <- collect_field_ancestors
    Values <- MCValues
INVARIANTS TypeOK DependenciesBelow SpecsTyped TypesSound HighCallsHigh RegionsDisjoint AncestorsNest
PROPERTY Finishes
