SPECIFICATION Spec
CONSTANTS
  DepthLimit = 500
  Structs <- MCStructs
  Named <- MCNamed
  Types <- MCTypes
  Documents <- MCDocuments
  Queries <- MCQueries
  Handed <- MCHanded
  MaxDepth = 6
  DepthSpan = 32
INVARIANTS
  PeersRead
  ReadersAgree
  GoRoundTrip
\* a message ends when it was refused
CHECK_DEADLOCK FALSE
