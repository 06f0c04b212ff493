CONSTANTS
  Node = {1, 2}
  Clustered = TRUE
  Quorum = 2
  Initial = "suspended"
  Lag = {}
  Skew <- InStep
  Overlap = FALSE
  MaxOps = 3
  MaxChanges = 0
SPECIFICATION Spec
INVARIANT AnsweredDeleteHeld
CHECK_DEADLOCK FALSE
