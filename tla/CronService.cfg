\* One service, crashes and failing jobs; the clock may stop anywhere.
CONSTANTS
  Job = {j1, j2}
  Schedule <- Mixed
  MaxTime = 3
  MaxCalls = 3
  MaxTimeout = 2
  BackoffBase = 1
  BackoffMax = 2
  MaxErrors = 2
  Disturb = {"crash"}
SPECIFICATION FairSpec
CHECK_DEADLOCK FALSE
INVARIANTS
  AnsweredIsSaved
  TimerCoversJobs
PROPERTIES
  DueJobsRun
