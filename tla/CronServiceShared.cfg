\* Two services on one store, rejected patches, a full disk, crashes.
CONSTANTS
  Job = {j1, j2}
  Schedule <- WithRejected
  MaxTime = 4
  MaxCalls = 2
  MaxTimeout = 2
  BackoffBase = 1
  BackoffMax = 2
  MaxErrors = 2
  Disturb = {"crash", "reload", "reject", "disk"}
SPECIFICATION Spec
SYMMETRY Alike
CHECK_DEADLOCK FALSE
INVARIANTS
  MarkedJobsRun
  DueJobsStay
PROPERTIES
  SlotsServedOnce
