SPECIFICATION Spec
CONSTANTS
    PollTimeouts = {1}
    MaxConnections = 2
    MaxPushes = 2
    MaxRequests = 4
INVARIANTS
    SessionConsistent
    NotificationsInOrder
    ShareGetsOwnVerdict
CHECK_DEADLOCK FALSE
