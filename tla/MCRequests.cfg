CONSTANTS
  User = {root, u}
  Root = root
  Key = {k0, k2}
  RootKey = {k0}
  Team = {t}
  Grant = {g}
  Admin = {1}
  Request = {1}
  NoKey = Nil
  MaxWrites = 1
  Overlap = FALSE
  Nil = Nil
  k0 = k0
  k1 = k1
  k2 = k2
SPECIFICATION Sides
INVARIANTS
  CacheCoherent
  RevokedIsRefused
  
  TypesOK
  
  
  
  

  
CHECK_DEADLOCK FALSE
