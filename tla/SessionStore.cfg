\* Two writers of the gateway and one of a command, with every trouble.
CONSTANTS
  None = None
  gateway = gateway
  cli = cli
  e = e
  s = s
  x = x
  Writer = {e, s, x}
  Process = {gateway, cli}
  ProcOf <- Procs
  KindOf <- Kinds
  Disturb = {"slow", "torn", "unread", "fail", "crash"}
  MaxCauses = 1
SPECIFICATION FairSpec
CHECK_DEADLOCK FALSE
INVARIANTS
  LoadsCurrent
PROPERTIES
  LockedKeepsOthers
  ImplementsAtomicStore
  CallsAnswered
