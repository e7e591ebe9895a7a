SPECIFICATION Spec
CONSTANTS
    Tabs = {a}
    Size = 3
    ChunkLen = 1
    RetryLimit = 1
    Detach = TRUE
    MaxSessions = 1
    MaxSends = 1
    MaxCrashes = 0
    MaxLost = 2
INVARIANT Serialized
CHECK_DEADLOCK FALSE
