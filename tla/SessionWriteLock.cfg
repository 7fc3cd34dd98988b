\* Three processes and everything that may happen to them.
CONSTANTS
  p1 = p1
  p2 = p2
  p3 = p3
  c1 = c1
  c2 = c2
  c3 = c3
  c4 = c4
  None = None
  Proc = {p1, p2, p3}
  Caller <- FourCallers
  ProcOf <- ThreeProcs
  Disturb = {"overlap", "outlive", "signal", "crash", "timeout", "full"}
SPECIFICATION FairSpec
CHECK_DEADLOCK FALSE
INVARIANTS
  SingleWriterIfClean
  CountsHolders
  NoFileLeft
PROPERTIES
  EveryCallerHolds
