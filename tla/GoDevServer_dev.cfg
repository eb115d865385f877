SPECIFICATION Spec
CONSTANTS
    Definition <- MCDefinition
    Sources <- MCSources
    Broken = "broken"
    MaxCrashes = 1
INVARIANTS
    NoHandlerForgotten
    NoOrphan
    FreshAtRest
PROPERTY
    ComesToRest
CHECK_DEADLOCK FALSE
