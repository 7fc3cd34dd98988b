\* Reentrant enqueues, runs nested as runEmbeddedPiAgent nests them, reloads and clears.
CONSTANTS
  session = session
  global = global
  Lane <- MCLane
  Task = {t1, t2, t3}
  NoTask = NoTask
  Setting = {0, 1, 2}
  Clearable = {session}
  Nests <- ApiNests
SPECIFICATION FairSpec
INVARIANTS
  ActiveCounts
  NoLostWakeup
PROPERTIES
  EveryTaskSettles
  ImplementsExecutor
