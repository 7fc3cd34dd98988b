\* Messages of two destinations, one of them dropped.
CONSTANTS
  m1 = m1
  m2 = m2
  m3 = m3
  m4 = m4
  a = a
  b = b
  None = None
  Unkeyed = Unkeyed
  Unroutable = Unroutable
  Msg <- FourMsgs
  Id = {1, 2, 3}
  IdOf <- MCIdOf
  Route = {a, b}
  RouteOf <- MixedRoutes
  Settings <- Summarizing
  Disturb = {}
  MaxExternal = 0
SPECIFICATION Spec
CHECK_DEADLOCK FALSE
INVARIANTS
  SummaryKeepsRouting
