SPECIFICATION Spec
CONSTANTS
  h1 = h1  h2 = h2  h3 = h3  t1 = t1  t2 = t2  k1 = k1  p1 = p1  p2 = p2  None = None
  Handlers = {h1, h2, h3}
  Tenants = {t1, t2}
  Keys = {k1}
  Proposals = {p1, p2}
  Unavailable = {p2}
  ApiDecisions = TRUE
  ActorRoles = {"owner", "tenant-admin", "manager", "operator"}
  RequiredRoles = {"owner", "tenant-admin", "manager"}
  Retention = 1
  MaxClock = 1
SYMMETRY MCSymmetry
INVARIANTS TypeOK DecisionIsSound AnswersAreHonest
CHECK_DEADLOCK FALSE
