SPECIFICATION Spec
CONSTANTS
    Slot = {s1, s2}
    NoSlot = NoSlot
    i1 = i1
    i2 = i2
    EventId = {i1, i2}
    NoId = NoId
    Chunks <- MCChunks
    NoLimit = NoLimit
    MaxRetryCount = 1
    RetryCap = 2
    OverlapCap = 0
    HeartbeatHeaders <- MCBoolean
    StreamMayError = TRUE
    HeadersMayThrow = FALSE
    AppReconnects = TRUE
    LateBytes = TRUE
INVARIANTS
    TypeOK
    NeverStranded
    ResumesFromLatest
PROPERTY
    ClosedComesToRest
    KeepsReconnecting
CHECK_DEADLOCK FALSE
