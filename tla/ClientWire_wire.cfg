SPECIFICATION Spec
CONSTANTS
  DepthLimit = 500
  Langs = {"ts", "dart", "rust", "swift", "kotlin"}
  Named <- MCNamed
  Schemas <- MCSchemas
  Documents <- MCDocuments
INVARIANTS
  ReadsAnyAnswer
  ModelIsTaken
  BodyKeeps
  QueryKeeps
\* a value ends when it was refused or could not be written
CHECK_DEADLOCK FALSE
