\* Two tracked subagents, no disturbance, a limit of one.
CONSTANTS
  r1 = r1
  r2 = r2
  r3 = r3
  Absent = Absent
  Run = {r1, r2}
  Tracked = {r1, r2}
  Route <- Routes
  RouteOf <- Routing
  Settings <- AllSettings
  Limit = 1
  MaxCrashes = 0
  Disturb = {}
SPECIFICATION Spec
CHECK_DEADLOCK FALSE
INVARIANT SpawnLimitIsRunning
