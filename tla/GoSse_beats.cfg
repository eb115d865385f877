SPECIFICATION Spec
CONSTANTS
    m1 = m1
    m2 = m2
    m3 = m3
    Message <- MCOneMessage
    Unencodable <- MCNever
    MaxCalls = 2
    BufferCells = 3
    HeartbeatChoices <- MCNever
    Ticking = TRUE
    Recorded <- MCEndings
INVARIANTS
    ErrorResponseIsPure
PROPERTY
    HeartbeatGoroutineEnds
CHECK_DEADLOCK FALSE
