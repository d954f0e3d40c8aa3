CONSTANTS
    Workers = 2
    HashValues <- MCHashValues
    Target = 0
    MaxFaults = 2
    MaxInterrupts = 2
    Plans <- MCPlans
    NonceLimit = 5
    d1 = d1
    d2 = d2
    Difficulties = {d1, d2}
    Notify = Notify
    MaxNotifications = 4
SPECIFICATION Spec
SYMMETRY DifficultySymmetry
INVARIANTS
    NoWorkAfterReturn
    ContextsReleasedAfterJoin
    LowestMatchReported
    BackendReleased
    RangesRight
