SPECIFICATION MCSpec
CONSTANTS
  t = t  o = o  o2 = o2  i0 = i0  i1 = i1  s0 = s0  s1 = s1  c0 = c0  c1 = c1  w0 = w0  w1 = w1  a = a  b = b
  Target = t
  Others = {o}
  Itsses = {i0, i1}
  Schemes = {s0, s1}
  Screens = {c0, c1}
  Workflows = {w0, w1}
  Watched = c0
  Caps = {2}
  Modes = {"conservative", "attributed", "no workflows"}
  MaxAudits = 2
  MaxGaps = 1
  MaxChanges = 1
  CA_Target = t
  CA_Others = {o, o2}
  CA_Schemes = {s0, s1}
  Named = {w0, w1}
  ChunkSize = 2
  CA_MaxGaps = 2
  Terms <- MCTerms
  Direct = direct
  OtherGroup = other
  Products = {"A", "B"}
  LastDay = 2
  Length = 3
  EL_PageSize = 2
  MaxRead = 1
  MaxScan = 2
  MaxTotal = 5
  BatchSize = 2
  MaxArrivals = 1
ACTION_CONSTRAINT MCStep
INVARIANT UnknownIsCloned
CHECK_DEADLOCK FALSE
