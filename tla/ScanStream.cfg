CONSTANTS
  Initial = 3
  MaxChanges = 2
  PageSize = 2
  Clamps <- MCClamps
  NoLimit = NoLimit
  Limits <- MCLimits
SPECIFICATION Spec
INVARIANTS
  TicksDelivered
  VerdictTrue
PROPERTIES
  IterationEnds
CHECK_DEADLOCK FALSE
