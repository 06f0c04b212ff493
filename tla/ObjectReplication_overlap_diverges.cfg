CONSTANTS
  n1 = n1
  n2 = n2
  None = None
  Node = {n1, n2}
  Put = {1, 2}
  Recrypt = {}
  Delete = {}
  Lock = {}
  Quorum = 2
  Overlap = TRUE
  SameInstant = FALSE
  Pulling = {n1, n2}
  MaxRestarts = 0
SPECIFICATION Spec
INVARIANT CaughtUpAgree
CHECK_DEADLOCK FALSE
