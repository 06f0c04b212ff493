CONSTANTS
  n1 = n1
  n2 = n2
  None = None
  Node = {n1, n2}
  Put = {2}
  Recrypt = {1}
  Delete = {}
  Lock = {4}
  Quorum = 2
  Overlap = FALSE
  SameInstant = FALSE
  Pulling = {n1, n2}
  MaxRestarts = 1
SPECIFICATION Spec
INVARIANT TypeOK
PROPERTIES RegistersAdvance
CHECK_DEADLOCK FALSE
