CONSTANTS
  MaxInverse = 2
  InverseSizes <- MCInverseSizes
  MaxRecords = 4
  MaxTears = 2
SPECIFICATION RJ_Spec
INVARIANTS
  UndoneStaysUndone
  DamageBounded
  ButtonIsHonest
CHECK_DEADLOCK FALSE
