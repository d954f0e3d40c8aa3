SPECIFICATION Spec
CONSTANTS
    t1 = t1
    t2 = t2
    Templates <- MCTemplates
    TemplateOf <- MCTemplateOf
    Plans <- MCPlans
    Ranges = 2
    MaxExtraNonce = 1
    MaxTime = 2
    MaxChanges = 2
    MaxSearches = 13
INVARIANTS
    SubmitsFreshest
    VariantsValid
    CandidatesAccounted
    StopBoundsSession
