CONSTANTS
  Target = t
  Others = {o}
  Types = {a, b}
  Default = d
  MaxRuns = 3
  SI_Target = t
  SI_Others = {o}
  LevelNames = {l1, l2}
  SI_MaxRuns = 4
SPECIFICATION MCSpec
SYMMETRY Symmetry
CONSTRAINT ThreeMishaps
INVARIANTS
  OthersKeepWorkflows
  OutcomeTrue
  LevelsKept
  NoOrphan
CHECK_DEADLOCK FALSE
