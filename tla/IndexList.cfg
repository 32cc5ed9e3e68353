SPECIFICATION Spec
CONSTANTS
  IdSet = {1, 3, 5, 6, 9}
  Entries <- MCEntries
  Requests <- MCRequests
  MaxLen = 5
INVARIANTS
  Sorted
  SearchFindsClosest
  ExtractTakesRun
