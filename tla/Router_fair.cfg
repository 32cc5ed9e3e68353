SPECIFICATION FairSpec
CONSTANTS
  r1 = r1
  r2 = r2
  r3 = r3
  m1 = m1
  m2 = m2
  m3 = m3
  Routes = {r1, r2}
  Paths <- MCPaths
  RoutePath <- PairPath
  Params <- PairParams
  Messages = {m1, m2}
  MsgPath <- MsgPathsAB
  Denied = {}
  Fetching = {r2}
  ChannelSize = 1
  HandleCap = 1
  SubCap = 1
PROPERTIES QueuedIsServed StopTerminates
CHECK_DEADLOCK FALSE
