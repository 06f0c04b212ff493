CONSTANTS
  Node = {1, 2}
  Clustered = TRUE
  Quorum = 2
  Initial = "unversioned"
  Lag = {"enabled", "suspended"}
  Skew <- InStep
  Overlap = FALSE
  MaxOps = 2
  MaxChanges = 3
  u = u
  Nil = Nil
  Partial = Partial
SPECIFICATION Sides
INVARIANTS
  LatestIsNewest
  CaughtUpAgree
  VersionsKept
  TypesOK
  
  JobsKeepData
  PgRowsConsistent
PROPERTIES
  StepsAreWhole
CHECK_DEADLOCK FALSE
