\* The system may stop: a finished and deleted job has nothing left to do.
CHECK_DEADLOCK FALSE
SPECIFICATION ProviderFairSpec
CONSTANTS
  Modes = {"SCRAPE", "URL_LIST"}
  MaxPages = 1
  MaxAttempts = 2
  MaxStalled = 1
  PollEvery = 2
  Clients = {c1}
  c1 = c1
  ClientOps = {"list", "cancel", "delete"}
  Faults = {"crash", "unheard"}
INVARIANTS
  OutcomeIsAnnounced
PROPERTIES
  JobsSettle
