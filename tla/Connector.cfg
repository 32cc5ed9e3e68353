SPECIFICATION Spec
CONSTANTS
  w1 = w1
  Ids = {2, 5, 8}
  Routes <- MCRoutes
  NoRoute = 0
  ChannelSize = 0
  HandleCap = 1
  PerFile = 9
  Ordered = TRUE
  MayRefuse = TRUE
  MaxObjects = 2
  MaxRoutes = 3
  Workers <- OneWorker
  FirstID = 2
  Pushes <- AllPushes
  MaxRequests = 2
  MaxFailures = 1
  RouterStops = TRUE
INVARIANTS   Listening StopAndCancelEnd
CHECK_DEADLOCK FALSE
