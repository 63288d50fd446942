\* The system may stop: time is bounded.
CHECK_DEADLOCK FALSE
SPECIFICATION Spec
CONSTANTS
  MonthLengths <- SmallYear
  DayLength = 4
  WeekLength = 3
  Horizon = 120
  Plans <- SmallPlans
  Zones <- SetBack
  MinTime = 4
  MaxTime = 44
INVARIANTS
  NextIsToCome
