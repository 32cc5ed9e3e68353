SPECIFICATION FairSpec
CONSTANTS
  Ids = {2, 5, 8}
  r = r
  Routes = {r}
  NoRoute = NoRoute
  ChannelSize = 1
  HandleCap = 1
  PerFile = 9
  Ordered = TRUE
  Commands <- UsualCommands
  Histories <- One
  OwnIds = {8}
  SendCap = 1
  MayRefuse = TRUE
  FetchErrors = TRUE
  ConnFails = TRUE
INVARIANTS HandOver
PROPERTIES  Delivered NoCircularWait
CHECK_DEADLOCK FALSE
