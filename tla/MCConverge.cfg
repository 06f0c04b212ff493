CONSTANTS
  n1 = n1
  n2 = n2
  Nil = Nil
  NoNode = NoNode
SPECIFICATION Sides
PROPERTIES
  EventuallyConverged
  EventuallyInService
CHECK_DEADLOCK FALSE
