SPECIFICATION FairGuardSpec
CONSTANTS
  x1 = x1  x2 = x2  x3 = x3  Absent = Absent
  Executions = {x1, x2, x3}
  FailureThreshold = 2
  TimeoutThreshold = 2
  OtherWriters = TRUE
  MaxRevision = 3
INVARIANTS GuardTypeOK QuarantineIsSound
PROPERTIES QuarantineLifecycle
CHECK_DEADLOCK FALSE
