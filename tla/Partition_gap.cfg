SPECIFICATION Spec
CONSTANTS
  Ids = {1, 2, 4, 5}
  Requests <- ForwardRequests
  messagesPerFile = 2
  InOrder = TRUE
  IOErrors = FALSE
  MaxCrashes = 0
CHECK_DEADLOCK FALSE
INVARIANT FetchReachesAll
