CONSTANTS
  bulk = bulk
  isolate = isolate
  Tasks <- MCTasks
  PlanTtl = 1
  ReadonlyTtl = 2
  MaxPlans = 2
  MaxRows = 3
  RowCounts <- MCRowCounts
  MaxIssued = 3
  MaxTime = 3
SPECIFICATION Spec
INVARIANTS
  SingleUse
  BoundedStore
PROPERTIES
  LossesJustified
  ImplementsTokens
