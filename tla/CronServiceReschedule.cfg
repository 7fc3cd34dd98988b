\* A one-shot job gets a new time.
CONSTANTS
  Job = {j1}
  Schedule <- OneShots
  MaxTime = 4
  MaxCalls = 3
  MaxTimeout = 2
  BackoffBase = 1
  BackoffMax = 2
  MaxErrors = 2
  Disturb = {}
SPECIFICATION Spec
CHECK_DEADLOCK FALSE
INVARIANTS
  EnabledJobsScheduled
