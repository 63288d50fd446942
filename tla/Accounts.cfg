\* The system may stop: passwords, logins, mails and jobs are bounded.
CHECK_DEADLOCK FALSE
SPECIFICATION AccountsSpec
CONSTANTS
  p1 = p1
  Requests = {h1, h2}
  Procs = {p1}
  Loads <- AccountLoads
  MaxTime = 3
  MaxPasswords = 2
  MaxLogins = 2
  AccessLife = 2
  RefreshLife = 2
  MarkLife = 2
  u1 = u1
  u2 = u2
  u3 = u3
  h1 = h1
  h2 = h2
  n1 = n1
  n2 = n2
  Users = {u1, u2, u3}
  Handlers = {h1, h2}
  Nodes = {n1, n2}
  Cases <- RoleCases
  h3 = h3
  Callers = {h1, h2, h3}
  MaxRows = 2
  MaxMails = 2
  Admins = {h1, h2}
  Creators = {h3}
  Limits = {1, 2}
  QuotaTime = 2
  QuotaDay = 2
  QuotaMonth = 4
  QuotaLoads <- SomeQuotaLoads
SYMMETRY Permutable
INVARIANTS
  AccountsTypeOK
  RevokedAreRefused
  OldSessionsEnd
  SessionsEndOnce
  CacheIsCurrent
  VerifiedStay
  QuotasAgree
PROPERTIES
  SuperAdminsAreSafe
  AdminsAreMarked
