CONSTANTS
    prim = prim
    helper = helper
    loop = loop
    ghost = ghost
    NoFunc = NoFunc
    States <- MCStates
    Names <- MCNames
    Programs <- MCPrograms
    RunDepth = 8
SPECIFICATION Spec
INVARIANT VerifiedMeansProved
