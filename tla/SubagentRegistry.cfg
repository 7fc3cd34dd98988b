\* Three subagents of two routes; every setting, ends before the last, failing saves, one crash.
CONSTANTS
  r1 = r1
  r2 = r2
  r3 = r3
  Absent = Absent
  Run = {r1, r2, r3}
  Tracked = {r1}
  Route <- Routes
  RouteOf <- Routing
  Settings <- AllSettings
  Limit = 10
  MaxCrashes = 1
  Disturb = {"stop", "archive", "retry", "fail", "disk"}
SPECIFICATION FairSpec
CHECK_DEADLOCK FALSE
INVARIANTS
  AnnouncementsKept
  ClaimHasFlow
  CompletedIsAnnounced
  HeardOnce
PROPERTIES
  ResultsAnnounced
