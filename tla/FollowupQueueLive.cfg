\* Reply runs, which may throw, and drains; the drop policy may change.
CONSTANTS
  m1 = m1
  m2 = m2
  m3 = m3
  m4 = m4
  a = a
  b = b
  None = None
  Unkeyed = Unkeyed
  Unroutable = Unroutable
  Msg <- FourMsgs
  Id = {1, 2, 3}
  IdOf <- MCIdOf
  Route = {a, b}
  RouteOf <- MixedRoutes
  Settings <- Reconsidering
  Disturb = {"throw"}
  MaxExternal = 0
SPECIFICATION FairSpec
CHECK_DEADLOCK FALSE
PROPERTIES
  FollowupsReachAgent
  SummariesReported
