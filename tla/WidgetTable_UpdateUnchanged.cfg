SPECIFICATION Spec
CONSTANTS
  Clients = {c1}
  NoClient = NoClient
  Keys = {1, 2}
  Texts = {"", "a", "b"}
  Empty = ""
  NullCell = NullCell
  Referenced = {}
  CallersSerialize = TRUE
  Inserts <- MCInserts
  Updates <- MCRepeatedUpdates
  Removes <- MCRemoves
  TableQueries <- MCTableQueries
  Modifiers = {c1}
  Queriers = {}
INVARIANT
  NotFoundMeansAbsent
