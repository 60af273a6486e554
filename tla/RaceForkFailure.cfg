CONSTANTS
    Truths <- MCTruths
    MaxRaces = 3
    MaxSaved = 2
    ProcLimit = 3
    PipesMayFail = FALSE
SPECIFICATION Spec
INVARIANT KillsOnlySolvers
