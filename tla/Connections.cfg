CONSTANTS
  TTL = 1
  MaxSessions = 1
  MaxMade = 3
  MaxTime = 3
  Slots = {i1}
  MaxEvents = 2
SPECIFICATION Spec
INVARIANTS
  
  RestartConnectsAlike
  FramesFaithful
PROPERTIES
  SweptWithReason
  GoneIsNoticed
CHECK_DEADLOCK FALSE
