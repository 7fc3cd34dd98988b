\* Changing settings, all disturbances, messages without a key or a route.
CONSTANTS
  m1 = m1
  m2 = m2
  m3 = m3
  m4 = m4
  a = a
  b = b
  None = None
  Unkeyed = Unkeyed
  Unroutable = Unroutable
  Msg <- FourMsgs
  Id = {1, 2, 3}
  IdOf <- OddIdOf
  Route = {a, b}
  RouteOf <- OddRoutes
  Settings <- ChangingSettings
  Disturb = {"external", "stop", "stale", "interrupt", "throw"}
  MaxExternal = 1
SPECIFICATION Spec
CHECK_DEADLOCK FALSE
INVARIANTS
  QueuedExactlyOnce
  OneDrainPerObject
  CollectKeepsRouting
PROPERTIES
  NoOvertaking
