\* A command that is asked for and forwarded, one that is not, and a node that may
\* connect twice.
CONSTANTS
  None = None
  n = n
  q = q
  d = d
  Node = {n}
  Conn = {1, 2}
  Request = {q, d}
  NodeOf <- OneNode
  TargetOf <- ThatNode
  Asked = {q}
  Forwarded = {q}
SPECIFICATION FairSpec
CHECK_DEADLOCK FALSE
INVARIANTS
  OnlyApprovedRuns
  SuccessIsReported
  SessionsMatchSockets
PROPERTIES
  EveryExecReported
