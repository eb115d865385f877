SPECIFICATION Spec
CONSTANTS
  Functions <- MCFunctions
  Models <- MCModels
  Objects <- MCObjects
  Proc <- MCProc
  Services <- MCServices
  Names <- MCNames
  Routes <- MCRoutes
  Requests <- MCRequests
  MaxCalls = 2
INVARIANTS
  ListedIsServed
  OneAnswer
\* registering a path twice panics
CHECK_DEADLOCK FALSE
