CONSTANTS
    prim = prim
    helper = helper
    loop = loop
    ghost = ghost
    NoFunc = NoFunc
    States <- MCStates
    Names <- MCNames
    Programs <- MCTailPrograms
    RunDepth = 8
SPECIFICATION Spec
INVARIANT PrePostChecked
