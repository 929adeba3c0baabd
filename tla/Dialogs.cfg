CONSTANTS
  Names = {n1}
  Projects = {p1}
  IssueTypes = {t1, t2}
  Defaults = {none, d1}
  NoDefault = none
  TypesPage = 1
  Values = {v1, v2}
  OptionsAtFirst = 2
  MaxNew = 2
  MaxSends = 2
  MaxIds = 3
  MaxEntries = 4
  MaxRequests = 2
  MaxOutside = 1
  Keys = {k1}
  Runs = {r1, r2}
  SC_MaxSends = 2
  SC_MaxRuns = 5
  SC_MaxOutside = 1
SPECIFICATION MCSpec
SYMMETRY Symmetry
CONSTRAINT OneThing
INVARIANTS
  
  SuccessIsAsAsked
  
  OptionsAsAsked
  
CHECK_DEADLOCK FALSE
