------------------------ MODULE MCScheduleCalculator ------------------------
(***************************************************************************)
(* A small calendar for ScheduleCalculator: days of four minutes, weeks of  *)
(* three days, years of three months that differ in length.                 *)
(***************************************************************************)
EXTENDS ScheduleCalculator

SmallYear == <<4, 2, 4>>

LocalTimes == 0..(DayLength - 1)

OfDay(frequency, dow, dom) ==
    {[frequency |-> frequency, time |-> t, dow |-> dow, dom |-> dom] :
        t \in LocalTimes}

\* Day 3 of a week of three days is its Sunday.
CronPlans ==
    {[frequency |-> "CUSTOM", times |-> ts, doms |-> days[1], months |-> days[2],
      dows |-> ws] :
        ts \in {{0}, {1, 3}}, days \in {<<{2, 4}, 1..3>>, <<1..4, {1, 3}>>},
        ws \in {{1, 3}, 0..2}}

\* It matches in one year of three: after that year the search may find nothing.
RarePlan == [frequency |-> "CUSTOM", times |-> {0}, doms |-> {4}, months |-> 1..3,
             dows |-> {0}]

SmallPlans ==
    OfDay("DAILY", 0, 1)
    \cup UNION {OfDay("WEEKLY", w, 1) : w \in 0..(WeekLength - 1)}
    \cup UNION {OfDay("MONTHLY", 0, d) : d \in 1..4}
    \cup CronPlans \cup {RarePlan}

FixedZones == {[change |-> 0, before |-> o, after |-> o] : o \in {-1, 3}}

\* Clocks west of Greenwich that are set back by one minute, on the fifth day.
SetBack == {[change |-> 18, before |-> -1, after |-> -2]}
=============================================================================
