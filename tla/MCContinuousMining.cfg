SPECIFICATION Spec
CONSTANTS
    a = a
    a_later = a_later
    b = b
    d1 = d1
    d2 = d2
    NoJob = NoJob
    Contexts <- MCContexts
    EffectOf <- MCEffectOf
    Plans <- MCPlans
    MaxNetworkTime = 1
    Difficulties = {d1, d2}
    MaxMessages = 2
    MaxSessions = 2
    MaxSearches = 3
INVARIANTS
    JobsAccounted
    ResultAccepted
    SharesGoThroughOwnSession
    NewestJobMined
    StopBoundsWork
    StopReportedTruthfully
PROPERTIES
    VariantLeftOnlyWhenCovered
SYMMETRY DifficultySymmetry
