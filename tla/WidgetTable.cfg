SPECIFICATION FairSpec
CONSTANTS
  Clients = {c1, c2}
  NoClient = NoClient
  Keys = {1, 2}
  Texts = {"", "a", "b"}
  Empty = ""
  NullCell = NullCell
  Referenced = {2}
  CallersSerialize = TRUE
  Inserts <- MCInserts
  Updates <- MCUpdates
  Removes <- MCRemoves
  TableQueries <- MCTableQueries
  Modifiers = {c1, c2}
  Queriers = {c2}
INVARIANTS
  TableTypeOK
  OwnOutcome
  WireExclusive
  AutocommitFollowsFlag
  CompleteAtEnd
PROPERTIES
  NothingDurableUntilCommit
  QueryMutexReleased
