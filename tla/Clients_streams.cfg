SPECIFICATION MCSpec
CONSTANTS
  Clients = {"rust", "swift", "kotlin"}
  Chunks <- MCChunks
  Parsers = {"dart", "kotlin", "rust", "swift"}
  Streams <- MCStreams
  MaxChunks = 3
  MaxRetry = 4
  Patience = 2
  MaxLevel = 3
  MaxIds = 2
  MaxCalls = 5
INVARIANTS StopsAtOnce  GoesBackNoFurther FindsWhatWasSent KeepsAPart
PROPERTIES ComesToAnEnd
\* a user stops a source, and a stream has an end
CHECK_DEADLOCK FALSE
