SPECIFICATION Spec
CONSTANTS
    a = a
    a_later = a_later
    b = b
    d1 = d1
    d2 = d2
    NoJob = NoJob
    Contexts <- MCContexts
    EffectOf <- MCEffectOf
    Plans <- MCPlans
    MaxNetworkTime = 1
    Difficulties = {d1}
    MaxMessages = 1
    MaxSessions = 2
    MaxSearches = 2
INVARIANTS
    RuntimeExpiryNotMislabeled
