SPECIFICATION FairSpec
CONSTANTS
  Ids = {2, 5, 8}
  Routes <- MCRoutes
  NoRoute = 0
  ChannelSize = 1
  HandleCap = 1
  PerFile = 9
  Ordered = TRUE
  MayRefuse = TRUE
  MaxRuns = 2
  FirstID = 2
  Responses <- AllResponses
  MaxFailures = 1
  MaxCrashes = 1
INVARIANTS OnlyHandOverLoses
PROPERTIES FetchCaughtUp TakenIsHandled
CHECK_DEADLOCK FALSE
