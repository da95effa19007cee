SPECIFICATION Spec
CONSTANTS
  Clients = {c1, c2}
  NoClient = NoClient
  Keys = {1, 2}
  Texts = {"", "a", "b"}
  Empty = ""
  NullCell = NullCell
  Referenced = {}
  CallersSerialize = FALSE
  Inserts <- MCInserts
  Updates <- MCUpdates
  Removes <- MCRemoves
  TableQueries <- MCTableQueries
  Modifiers = {c1, c2}
  Queriers = {}
INVARIANT
  ProcessErrorAlwaysThrows
