SPECIFICATION Spec
CONSTANTS
    good = good
    other = other
    bad = bad
    Item <- MCItem
    Valid <- MCValid
    Batch <- MCBatch
    MaxPushes = 2
    MaxBeats = 2
    SendHeartbeat = TRUE
    DropsFrom = "handler"
INVARIANTS
    WireWellFormed
    PushesAreHonest
    HeartbeatStops
    ClosedCallbacksFire
PROPERTY
    AnsweredComesToRest
CHECK_DEADLOCK FALSE
