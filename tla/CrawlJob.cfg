\* The system may stop: a finished and deleted job has nothing left to do.
CHECK_DEADLOCK FALSE
SPECIFICATION Spec
CONSTANTS
  Modes = {"SCRAPE", "CRAWL"}
  MaxPages = 1
  MaxAttempts = 2
  MaxStalled = 0
  PollEvery = 2
  Clients = {c1}
  c1 = c1
  ClientOps = {"view", "list", "cancel", "delete"}
  Faults = {"timeout", "enqueue", "lockLoss"}
INVARIANTS
  TypeOK
  CancelHeard
  NoOrphanedRow
  NothingBeforeStart
PROPERTIES
  CancelIsFinal
  ImplementsLifecycle
