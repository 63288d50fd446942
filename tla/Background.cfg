\* The system may stop: deliveries are settled, jobs deleted and streams over;
\* requests to switch a periodic job go on for ever.
CHECK_DEADLOCK FALSE
SPECIFICATION BackgroundSpec
CONSTANTS
  dispatcher = dispatcher
  c1 = c1
  r1 = r1
  r2 = r2
  Callers = {dispatcher, c1}
  First = dispatcher
  Runs = {r1, r2}
  Attempts = 2
  MaxStalled = 1
  Faults = {"crash", "lock", "queue", "database"}
  DiffJobs = {1, 2, 3}
  Subject = 2
  DiffLoads <- SomeDiffLoads
  Askers = {"c"}
  Streams = {s1, s2, s3}
  s1 = s1
  s2 = s2
  s3 = s3
  StreamLimit = 2
  MaxTicks = 2
  j1 = j1
  j2 = j2
  CronNames = {j1, j2}
  CronActs = {r1, r2}
  CronFaults = {"redis", "crash"}
SYMMETRY Permutable
INVARIANTS
  TypeOK
  PendingIsOwed
  SuccessIsTrue
  FailedIsTried
  DiffsAreTrue
  SlotsMatchStreams
  SchedulersFollowMap
