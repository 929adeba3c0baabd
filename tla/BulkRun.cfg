CONSTANTS
  N = 3
  Limit = 2
  Removals <- MCRemovals
  MaxSends = 2
  MaxOutside = 1
SPECIFICATION Spec
INVARIANTS
  OkIsTrue
  
  

  
CHECK_DEADLOCK FALSE
