CONSTANTS
  n1 = n1
  n2 = n2
  None = None
  Node = {n1, n2}
  Put = {1}
  Recrypt = {}
  Delete = {2}
  Lock = {3}
  Quorum = 2
  Overlap = FALSE
  SameInstant = FALSE
  Pulling = {}
  MaxRestarts = 0
SPECIFICATION Spec
PROPERTY HeldIsNotDeleted
CHECK_DEADLOCK FALSE
