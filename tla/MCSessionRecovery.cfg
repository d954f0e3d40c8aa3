CONSTANTS
    Policies <- MCPolicies
    MaxLosses = 2
    MaxMessages = 3
SPECIFICATION FairSpec
INVARIANTS
    InstalledSessionSound
    ConnectionsAccounted
PROPERTIES
    StopReturns
    LifecycleSpec
\* The owner stops for good once it was closed.
CHECK_DEADLOCK FALSE
