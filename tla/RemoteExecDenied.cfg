\* The agent is told of a denial, and the command runs.
CONSTANTS
  None = None
  n = n
  q = q
  d = d
  Node = {n}
  Conn = {1, 2}
  Request = {q}
  NodeOf <- OneNode
  TargetOf <- ThatNode
  Asked = {q}
  Forwarded = {q}
SPECIFICATION Spec
CHECK_DEADLOCK FALSE
INVARIANT
  DeniedNeverRan
