\* Two processes ask for the lock at the same time.
CONSTANTS
  p1 = p1
  p2 = p2
  p3 = p3
  c1 = c1
  c2 = c2
  c3 = c3
  c4 = c4
  None = None
  Proc = {p1, p2}
  Caller <- TwoCallers
  ProcOf <- TwoProcs
  Disturb = {"overlap"}
SPECIFICATION Spec
CHECK_DEADLOCK FALSE
INVARIANTS
  SingleWriter
