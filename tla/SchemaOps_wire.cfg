SPECIFICATION Spec
CONSTANTS
  DepthLimit = 3
  Bottomless = 100
  Named <- MCNamed
  Schemas <- MCSchemas
  Inputs <- MCInputs
INVARIANTS
  CompiledAgrees
  RoundTrip
\* a message ends when it was read or refused
CHECK_DEADLOCK FALSE
