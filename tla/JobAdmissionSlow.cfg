\* The system may stop: once every request has been answered.
CHECK_DEADLOCK FALSE
SPECIFICATION AdmissionSpec
CONSTANTS
  NoToken = NoToken
  Requests = {r1, r2, r3}
  r1 = r1
  r2 = r2
  r3 = r3
  p1 = p1
  Procs = {p1}
  Kinds = {"create", "trigger", "tick"}
  MaxJobsPerDay = 2
  MaxConcurrent = 1
  OtherZone = TRUE
  MaxTime = 2
  Faults = {"redis", "slow", "crash", "restart"}
SYMMETRY PermutableRequests
INVARIANTS
  TypeOK
  OwnersKeepTheirKey
  ProtectedWithinQuota
  DailyQuota
