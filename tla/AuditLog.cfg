SPECIFICATION FairSpec
CONSTANTS
  a1 = a1  a2 = a2  a3 = a3  s1 = s1  e1 = e1  e2 = e2  e3 = e3  b1 = b1  b2 = b2
  Appends = {a1, a2, a3}
  Scopes = {s1}
  Ids = {e1, e2, e3}
  Bodies = {b1, b2}
  MaxAppendAttempts = 2
  None = None
INVARIANTS TypeOK LinearHistory TamperIsDetected
PROPERTIES TrailSpec AppendsEndHonestly
CHECK_DEADLOCK FALSE
