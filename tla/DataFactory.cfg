CONSTANTS
  Connections = {c1, c2, c3}
  NoConnection = NoConnection
  Params = {p1, p2}
  NoParams = NoParams
  MaxCount = 4
  DataFactories = {d1, d2, d3}
SPECIFICATION Spec
SYMMETRY Symmetry
INVARIANTS TypeOK CountMatchesHolders NoDanglingConnection OneOpenConnection TornDownWhenReleased
PROPERTIES ClosedOnlyOnRequest ImplementsLease
CHECK_DEADLOCK FALSE
