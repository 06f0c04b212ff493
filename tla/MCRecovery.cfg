CONSTANTS
  Write = {u, v, w}
  MaxGroup = 2
  MaxFaults = 1
  uA = uA
  Nil = Nil
  Partial = Partial
SPECIFICATION Sides
INVARIANTS
  InSubmissionOrder
PROPERTIES
  AtomicSpec
  AllWorkEnds
CHECK_DEADLOCK FALSE
