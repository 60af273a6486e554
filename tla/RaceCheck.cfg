CONSTANTS
    Truths <- MCTruths
    MaxRaces = 3
    MaxSaved = 2
    ProcLimit = 3
    PipesMayFail = TRUE
SPECIFICATION Spec
INVARIANTS
    TypeOK
    VerdictSound
    AnswerNotLost
    Descriptors
    NoneLeftRunning
PROPERTY ImplementsOracle
