SPECIFICATION Spec
CONSTANTS
    Sources <- MCSources
INVARIANTS
    FreshAtRest
    ClientFollows
PROPERTY
    ComesToRest
\* the developer stops saving
CHECK_DEADLOCK FALSE
