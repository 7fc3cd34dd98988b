\* A reload that enables cron.
CONSTANTS
  Job = {j1}
  Schedule <- OneShots
  MaxTime = 4
  MaxCalls = 3
  MaxTimeout = 2
  BackoffBase = 1
  BackoffMax = 2
  MaxErrors = 2
  Disturb = {"reload"}
SPECIFICATION Spec
CHECK_DEADLOCK FALSE
INVARIANTS
  TimerCoversJobs
