CONSTANTS
    Width = 8
    VarSort <- MCVarSort
    FieldsOf <- MCFieldsOf
    Codecs <- NoCodecs
    Defs <- MCDefs
    FieldSort <- MCFieldSort
    KeySpace = {0}
    QuantSpace = {0}
    FieldAncestor <- MCFieldAncestor
    Whitelist = {}
    Blacklist = {}
    Loops <- MCLoops
    PreCond <- MCPreCond
    PostCond <- MCPostCond
    LoopInvs <- MCLoopInvs
    PreserveInv <- MCPreserveInv
    Returned <- MCReturned
    Tasks <- MCTasks
    Valuations <- MCValuations
SPECIFICATION FairSpec
INVARIANT TypeOK
INVARIANT ConeKeepsGoal
INVARIANT ProvedHolds
INVARIANT DeterminedAgree
INVARIANT SimulationHolds
INVARIANT CalleesRecorded
PROPERTY ChecksEnd
CHECK_DEADLOCK FALSE
