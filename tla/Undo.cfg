CONSTANTS
  p = p
  q = q
  r1 = r1
  r2 = r2
  Pairs <- MCPairs
  Requests <- TwoRequests
  TokenIds <- OneToken
  MaxEntries = 6
  MaxOutside = 1
  Mishaps <- AllMishaps
  Watched = {TRUE, FALSE}
SPECIFICATION Spec
SYMMETRY Interchangeable
ACTION_CONSTRAINT TwoKinds

  
PROPERTIES
  MarkedOnlyAfterFullUndo
CHECK_DEADLOCK FALSE
