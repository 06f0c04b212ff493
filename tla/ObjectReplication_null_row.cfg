CONSTANTS
  n1 = n1
  n2 = n2
  None = None
  Node = {n1, n2}
  Put = {1, 2}
  Recrypt = {}
  Delete = {3}
  Lock = {}
  Quorum = 2
  Overlap = FALSE
  SameInstant = FALSE
  Pulling = {n1, n2}
  MaxRestarts = 0
SPECIFICATION Spec
INVARIANT CaughtUpAgree
PROPERTY AckedPutIsDurable
CHECK_DEADLOCK FALSE
