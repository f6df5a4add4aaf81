SPECIFICATION Spec
CONSTANTS
  None = None
  NoNode = None
  Node <- MCNode
  Queries <- DistinctQueries
INVARIANT
  DistinctResult
