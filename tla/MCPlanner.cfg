SPECIFICATION Spec
CONSTANTS
  None = None
  NoNode = None
  Node <- MCNode
  Queries <- MCQueries
INVARIANTS
  TypeOK
  Topological
  ReadOnce
  OneSink
  RootIsResult
  FailsClosed
  CoversQuery
PROPERTIES
  ImplementsDag
  Terminates
