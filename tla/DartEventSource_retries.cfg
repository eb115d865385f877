SPECIFICATION Spec
CONSTANTS
    Slot = {s1, s2, s3, s4}
    NoSlot = NoSlot
    i1 = i1
    i2 = i2
    EventId <- MCNoIds
    NoId = NoId
    Chunks <- MCPlainChunks
    NoLimit = NoLimit
    MaxRetryCount = 2
    RetryCap = 4
    OverlapCap = 3
    HeartbeatHeaders <- MCBoolean
    StreamMayError = TRUE
    HeadersMayThrow = TRUE
    AppReconnects = FALSE
    LateBytes = TRUE
INVARIANTS
    SingleConnection
    RetryBudget
CHECK_DEADLOCK FALSE
