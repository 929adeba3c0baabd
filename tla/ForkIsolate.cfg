CONSTANTS
  t = t
  o = o
  Target = t
  Others <- MCOthers
  Types <- MCTypes
  Default = "default"
SPECIFICATION Spec
CONSTRAINT OtherMapsTwo
INVARIANTS
  OthersUntouched
  NoDangling
  OutcomeTrue
CHECK_DEADLOCK FALSE
