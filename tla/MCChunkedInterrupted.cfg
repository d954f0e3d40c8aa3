CONSTANTS
    Workers = 2
    HashValues <- MCHashValues
    Target = 0
    MaxFaults = 2
    MaxInterrupts = 1
    Plans <- MCPlans
    NonceLimit = 5
    d1 = d1
    d2 = d2
    Difficulties = {d1, d2}
    Notify = Notify
    MaxNotifications = 2
SPECIFICATION Spec
INVARIANT
    ContextsReleasedIdle
