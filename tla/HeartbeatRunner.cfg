\* Two agents, reloads, remote commands, the switch and restarts.
CONSTANTS
  None = None
  Reason <- Reasons
  Agent = {a1, a2}
  EmptyFile = {a1}
  Disturb = {"reload", "toggle", "exec", "stop"}
SPECIFICATION BeatFairSpec
CHECK_DEADLOCK FALSE
INVARIANTS
  NoWakeLost
  OneCallAtATime
  ChainUnbroken
PROPERTIES
  DueAgentsBeat
