SPECIFICATION Spec
CONSTANTS
    Tabs = {a, b}
    Size = 3
    ChunkLen = 2
    RetryLimit = 1
    Detach = FALSE
    MaxSessions = 1
    MaxSends = 2
    MaxCrashes = 1
    MaxLost = 1
INVARIANTS TypeOK BytesAreTheFile DoneHasObject
PROPERTY SendsEnd
CHECK_DEADLOCK FALSE
