\* The system may stop: a finished job and a settled delivery have nothing left to do.
CHECK_DEADLOCK FALSE
SPECIFICATION SettlesSpec
CONSTANTS
  Modes = {"CRAWL"}
  MaxPages = 1
  MaxAttempts = 1
  MaxStalled = 1
  PollEvery = 1
  Clients = {c1}
  c1 = c1
  ClientOps = {}
  Faults = {"timeout", "lockLoss"}
  dispatcher = dispatcher
  r1 = r1
  r2 = r2
  Callers = {dispatcher, c1}
  First = dispatcher
  Workers = {r1, r2}
  Attempts = 2
  DeliveryFaults = {"lock"}
PROPERTIES
  QueueDrains
  DeliverySettles
