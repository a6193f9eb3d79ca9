SPECIFICATION Spec
CONSTANTS
  c1 = c1  c2 = c2  c3 = c3  f1 = f1  f2 = f2  t1 = t1  t2 = t2  None = None
  Calls = {c1, c2, c3}
  Flows = {f1, f2}
  Tenants = {t1, t2}
  TokenIds = {1, 2, 3}
  StateTtl = 1
  ClockSkew = 1
  TokenTtl = 1
  RefreshWindow = 1
  AttemptTimeout = 1
  MaxWrites = 6
  Scenarios <- MCScenarios
SYMMETRY MCSymmetry
INVARIANTS TypeOK RefreshTokenIsUsedOnce CredentialIsKept FlowIsBoundOrSwept
PROPERTIES TokensRotateAtomically
CHECK_DEADLOCK FALSE
