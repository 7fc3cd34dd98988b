\* A crash between the end of a run and its save.
CONSTANTS
  Job = {j1}
  Schedule <- OneShots
  MaxTime = 3
  MaxCalls = 2
  MaxTimeout = 2
  BackoffBase = 1
  BackoffMax = 2
  MaxErrors = 2
  Disturb = {"crash"}
SPECIFICATION Spec
CHECK_DEADLOCK FALSE
PROPERTIES
  NothingRunsTwice
