CONSTANTS
  N = 6
  Limit = 3
SPECIFICATION MBSpec
INVARIANTS
  NothingLost
  NothingOutlives
PROPERTIES
  AlwaysEnds
CHECK_DEADLOCK FALSE
