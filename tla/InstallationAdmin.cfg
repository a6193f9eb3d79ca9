SPECIFICATION Spec
CONSTANTS
  q1 = q1  q2 = q2  q3 = q3  i1 = i1  t1 = t1  t2 = t2  k1 = k1  v1 = v1  v2 = v2  w1 = w1
  None = None
  Requests = {q1, q2, q3}
  Installations = {i1}
  Tenants = {t1, t2}
  Keys = {k1}
  Priorities = {1, 2}
  Versions = {v1, v2, w1}
  PluginOf <- MCPluginOf
  OwnerOf <- MCOwnerOf
  FirstVersion <- MCFirstVersion
  FirstPriority = 1
  MaxRevision = 1
  MaxClock = 1
  Retention = 1
SYMMETRY MCSymmetry
INVARIANTS TypeOK RevisionNamesState AuditIsHistory CallersAreServedHonestly
CHECK_DEADLOCK FALSE
