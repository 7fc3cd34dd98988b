\* A stop meets a drain in progress.
CONSTANTS
  m1 = m1
  m2 = m2
  m3 = m3
  m4 = m4
  a = a
  b = b
  None = None
  Unkeyed = Unkeyed
  Unroutable = Unroutable
  Msg <- ThreeMsgs
  Id = {1, 2, 3}
  IdOf <- MCIdOf
  Route = {a, b}
  RouteOf <- OneRoute
  Settings <- Summarizing
  Disturb = {"stop"}
  MaxExternal = 0
SPECIFICATION FairSpec
CHECK_DEADLOCK FALSE
PROPERTIES
  FollowupsReachAgent
