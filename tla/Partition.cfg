SPECIFICATION Spec
CONSTANTS
  Ids = {1, 2, 3, 4, 5}
  Requests <- ForwardRequests
  messagesPerFile = 2
  InOrder = TRUE
  IOErrors = TRUE
  MaxCrashes = 1
CHECK_DEADLOCK FALSE
INVARIANTS MemoryMatchesDisk FetchListExact FetchedIsStored FetchSeesAcked
PROPERTY ImplementsLog
