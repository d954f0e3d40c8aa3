SPECIFICATION Spec
CONSTANTS
    LineBytes = 2
    ChunkBytes = 3
    DefaultTimeout = 3
    Timeouts = {0, 2}
    MaxLines = 3
    MaxConnections = 2
INVARIANTS
    TimeoutsHonoured
PROPERTIES
    ChannelSpec
CHECK_DEADLOCK FALSE
