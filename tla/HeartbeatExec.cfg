\* Remote commands of an agent with an empty HEARTBEAT.md.
CONSTANTS
  None = None
  Reason <- Reasons
  Agent = {a1}
  EmptyFile = {a1}
  Disturb = {"exec"}
SPECIFICATION BeatFairSpec
CHECK_DEADLOCK FALSE
PROPERTIES
  ExecEventsHandled
