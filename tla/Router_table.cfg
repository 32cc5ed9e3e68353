SPECIFICATION Spec
CONSTANTS
  r1 = r1
  r2 = r2
  r3 = r3
  m1 = m1
  m2 = m2
  m3 = m3
  Routes = {r1, r2, r3}
  Paths <- MCPaths
  RoutePath <- EqualPath
  Params <- EqualParams
  Messages = {m1, m2, m3}
  MsgPath <- MsgPaths3
  Denied = {}
  Fetching = {}
  ChannelSize = 1
  HandleCap = 1
  SubCap = 1
INVARIANTS
  NoDoubleSubscription
  OpenStaysSubscribed
  GaugesMatchTable
  
  
CHECK_DEADLOCK FALSE
SYMMETRY MessageSymmetry
