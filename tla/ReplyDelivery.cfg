\* Five blocks, of which one is media and one a repetition.
CONSTANTS
  a = a
  b = b
  c = c
  d = d
  Key = {a, b, c, d}
  KeyOf <- Repeating
  Media = {3}
  Caller = {1, 2, 3, 4, 5}
SPECIFICATION FairSpec
CHECK_DEADLOCK FALSE
INVARIANTS
  EverythingArrives
  BlocksInOrder
PROPERTIES
  RepliesEnd
