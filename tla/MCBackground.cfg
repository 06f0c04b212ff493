CONSTANTS
  Key = {a, b}
  Batch = 1
  SkipAfter = 2
  Broken = {a}
  CanRestore = TRUE
  MaxWrites = 2
  MaxErrors = 1
  d1 = d1
  Nil = Nil
SPECIFICATION Sides
INVARIANTS
  CursorCoversRows
  TypesOK
  
PROPERTIES
  FirstPassIsFull
  
  EventuallyPulled
  RewindNoticed
  
CHECK_DEADLOCK FALSE
