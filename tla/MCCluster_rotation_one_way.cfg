CONSTANTS
  Node = {1, 2, 3, 4}
  NoNode = NoNode
  Endpoint = {10, 20, 30, 40}
  Kind <- LastIsRogue
  Address <- OneAddress
  Quorum = 2
  Size = 3
  DeadAfter = 2
  PruneAfter = 0
  Late = {2}
  Reconciling = {}
  MaxTime = 1
  MaxFaults = 1
  n1 = n1
  n2 = n2
SPECIFICATION Sides
INVARIANT BothDirections
CHECK_DEADLOCK FALSE
