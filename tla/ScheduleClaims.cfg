\* The system may stop: time is bounded and requests are answered once.
CHECK_DEADLOCK FALSE
SPECIFICATION FairSpec
CONSTANTS
  w1 = w1
  w2 = w2
  c1 = c1
  c2 = c2
  weekly = weekly
  monday = monday
  friday = friday
  NoDay = NoDay
  Workers = {w1, w2}
  Requests = {c1, c2}
  Ops = {"update", "trigger", "delete"}
  Times = {weekly}
  Days = {monday, friday}
  Slots <- SlotsOfPlans
  MaxTime = 2
  Faults = {"crash", "queue", "quota"}
INVARIANTS
  TypeOK
  SlotServedOnce
  NextRunFollowsPlan
PROPERTIES
  DueRunsAreClaimed
