\* The system may stop: a finished and deleted job has nothing left to do.
CHECK_DEADLOCK FALSE
SPECIFICATION ProviderFairSpec
CONSTANTS
  Modes = {"CRAWL"}
  MaxPages = 1
  MaxAttempts = 1
  MaxStalled = 0
  PollEvery = 2
  Clients = {c1}
  c1 = c1
  ClientOps = {"view"}
  Faults = {"timeout"}
PROPERTIES
  TimedOutJobsSettle
