SPECIFICATION Spec
CONSTANTS
    m1 = m1
    m2 = m2
    m3 = m3
    Message <- MCMessage
    Unencodable <- MCUnencodable
    MaxCalls = 4
    BufferCells = 4
    HeartbeatChoices <- MCBoolean
    Ticking = FALSE
    Recorded <- MCFrames
PROPERTY
    KeepsThePromise
CHECK_DEADLOCK FALSE
