\* A node connects again before its old socket is closed.
CONSTANTS
  None = None
  n = n
  q = q
  d = d
  Node = {n}
  Conn = {1, 2}
  Request = {q}
  NodeOf <- OneNode
  TargetOf <- ThatNode
  Asked = {q}
  Forwarded = {q}
SPECIFICATION Spec
CHECK_DEADLOCK FALSE
INVARIANT
  SessionsFollowSockets
