------------------------- MODULE ScheduleCalculator -------------------------
(***************************************************************************)
(* calculateNextRun: when a crawl schedule is due next.  Instants and local *)
(* times are numbers of minutes; hour and minute are only ever compared as  *)
(* minute of the day, and the fields of a cron expression are the sets they *)
(* match.  The calendar is a parameter, so that a small one will do.        *)
(***************************************************************************)
EXTENDS Integers, Sequences, FiniteSetsExt

CONSTANTS
    MonthLengths,  \* days in the months of a year
    DayLength,     \* minutes in a day
    WeekLength,    \* days in a week
    Horizon,       \* minutes the cron search looks ahead: 366 days
    Plans,         \* the schedules' settings
    Zones,         \* the time zones
    MinTime,       \* bounds on the instants: as much ahead of the first day as
    MaxTime        \* zones are behind

ASSUME CalendarOK ==
    /\ MonthLengths \in Seq(Nat \ {0}) /\ MonthLengths # <<>>
    /\ {DayLength, WeekLength} \subseteq Nat \ {0}
    /\ {Horizon, MinTime, MaxTime} \subseteq Nat

\* A year has room for a week and for any two months.
ASSUME HorizonOK ==
    /\ WeekLength * DayLength <= Horizon
    /\ \A i, j \in DOMAIN MonthLengths :
          (MonthLengths[i] + MonthLengths[j]) * DayLength <= Horizon

\* What calculateNextRun clamps the settings to; time begins no later than the first
\* day does in any zone.
ASSUME SettingsOK ==
    /\ \A p \in Plans :
          \/ p.frequency = "CUSTOM"
          \/ /\ p.frequency \in {"DAILY", "WEEKLY", "MONTHLY"}
             /\ p.time \in 0..(DayLength - 1) /\ p.dow \in 0..(WeekLength - 1)
             /\ p.dom \in Nat \ {0}
    /\ \A z \in Zones :
          /\ {z.change, z.before, z.after} \subseteq Int
          /\ MinTime + z.before >= 0 /\ MinTime + z.after >= 0

VARIABLES
    plan, zone,
    computedAt, \* the instant of the last calculation
    nextRunAt

vars == <<plan, zone, computedAt, nextRunAt>>

-----------------------------------------------------------------------------
(* The calendar *)

\* Months are counted through the years: month 0 of year 1 follows the last one
\* of year 0.
DaysInMonth(month) == MonthLengths[(month % Len(MonthLengths)) + 1]

\* The number of the first day of a month.
FirstDay[month \in Nat] ==
    IF month = 0 THEN 0 ELSE FirstDay[month - 1] + DaysInMonth(month - 1)

MonthOf(dayNumber) ==
    CHOOSE month \in 0..dayNumber :
        FirstDay[month] <= dayNumber /\ dayNumber < FirstDay[month + 1]

\* A zone is ahead of UTC by .before until instant .change, by .after from it on.
Offset(z, t) == IF t < z.change THEN z.before ELSE z.after

\* getZonedDateParts
DateParts(local) ==
    LET dayNumber == local \div DayLength
        month == MonthOf(dayNumber)
    IN  [month |-> month, day |-> dayNumber - FirstDay[month] + 1,
         dow |-> dayNumber % WeekLength, time |-> local % DayLength]

ZonedDateParts(z, t) == DateParts(t + Offset(z, t))

\* createUtcDateFromZonedParts: the offset is that of the local time read as an
\* instant.
UtcDate(z, month, day, time) ==
    LET raw == (FirstDay[month] + day - 1) * DayLength + time
    IN  raw - Offset(z, raw)

-----------------------------------------------------------------------------
(* calculateNextRun *)

\* The day that is n days after day of month, n at most a week.
DaysOn(month, day, n) ==
    IF day + n > DaysInMonth(month)
    THEN [month |-> month + 1, day |-> day + n - DaysInMonth(month)]
    ELSE [month |-> month, day |-> day + n]

DailyRun(p, z, from) ==
    LET now0 == ZonedDateParts(z, from)
        on == DaysOn(now0.month, now0.day, IF p.time <= now0.time THEN 1 ELSE 0)
    IN  UtcDate(z, on.month, on.day, p.time)

WeeklyRun(p, z, from) ==
    LET now0 == ZonedDateParts(z, from)
        ahead == (p.dow - now0.dow + WeekLength) % WeekLength
        on == DaysOn(now0.month, now0.day,
                     IF ahead = 0 /\ p.time <= now0.time THEN WeekLength ELSE ahead)
    IN  UtcDate(z, on.month, on.day, p.time)

\* Seeded fault: a month that is too short is tested with the wanted day.
MonthlyRunUnclamped(p, z, from) ==
    LET now0 == ZonedDateParts(z, from)
        past == \/ now0.day > p.dom
                \/ now0.day = p.dom /\ p.time <= now0.time
        month == IF past THEN now0.month + 1 ELSE now0.month
    IN  UtcDate(z, month, Min({p.dom, DaysInMonth(month)}), p.time)

\* A month without the wanted day has its last day instead.
MonthlyRun(p, z, from) ==
    LET now0 == ZonedDateParts(z, from)
        wanted == Min({p.dom, DaysInMonth(now0.month)})
        past == \/ now0.day > wanted
                \/ now0.day = wanted /\ p.time <= now0.time
        month == IF past THEN now0.month + 1 ELSE now0.month
    IN  UtcDate(z, month, Min({p.dom, DaysInMonth(month)}), p.time)

\* All fields of a cron expression have to match; it may call Sunday, day 0 of a
\* week, its last day, too.
CronMatches(p, d) ==
    /\ d.time \in p.times
    /\ d.day \in p.doms /\ (d.month % Len(MonthLengths)) + 1 \in p.months
    /\ d.dow \in p.dows \/ (d.dow = 0 /\ WeekLength \in p.dows)

\* The cursor is local, and moves minute by minute from the one after from.
CronHits(p, z, from) ==
    LET start == from + Offset(z, from) + 1
    IN  {c \in start..(start + Horizon - 1) : CronMatches(p, DateParts(c))}

CustomRun(p, z, from) ==
    LET d == DateParts(Min(CronHits(p, z, from)))
    IN  UtcDate(z, d.month, d.day, d.time)

\* For an expression without a match calculateNextRun throws: create then saves no
\* schedule, and a worker leaves the row as it is.
HasRun(p, z, from) == p.frequency = "CUSTOM" => CronHits(p, z, from) # {}

NextRun(p, z, from) ==
    CASE p.frequency = "DAILY"   -> DailyRun(p, z, from)
      [] p.frequency = "WEEKLY"  -> WeeklyRun(p, z, from)
      [] p.frequency = "MONTHLY" -> MonthlyRun(p, z, from)
      [] p.frequency = "CUSTOM"  -> CustomRun(p, z, from)

-----------------------------------------------------------------------------
(* A schedule over time: saved at some instant, and run whenever due. *)

Init ==
    /\ plan \in Plans
    /\ zone \in Zones
    /\ computedAt \in MinTime..MaxTime /\ HasRun(plan, zone, computedAt)
    /\ nextRunAt = NextRun(plan, zone, computedAt)

\* A worker finds the run due, on time or late, and stores the next one.
Claim ==
    /\ computedAt' \in Max({computedAt, nextRunAt})..MaxTime
    /\ HasRun(plan, zone, computedAt')
    /\ nextRunAt' = NextRun(plan, zone, computedAt')
    /\ UNCHANGED <<plan, zone>>

Spec == Init /\ [][Claim]_vars

-----------------------------------------------------------------------------
(* Properties *)

\* What the settings of a schedule say of a local time.
Wanted(p, local) ==
    LET d == DateParts(local)
    IN  CASE p.frequency = "DAILY"   -> d.time = p.time
          [] p.frequency = "WEEKLY"  -> d.time = p.time /\ d.dow = p.dow
          [] p.frequency = "MONTHLY" ->
                 d.time = p.time /\ d.day = Min({p.dom, DaysInMonth(d.month)})
          [] p.frequency = "CUSTOM"  -> CronMatches(p, d)

Earliest(p, z, from) ==
    Min({t \in (from + 1)..(from + Horizon) : Wanted(p, t + Offset(z, t))})

\* In a zone that does not change its offset the next run is at the first
\* instant that the settings want, over all ends of months and years.
NextIsEarliest ==
    zone.before = zone.after => nextRunAt = Earliest(plan, zone, computedAt)

\* The next execution is still to come: a run that was just claimed is not due
\* again at once.
NextIsToCome == computedAt < nextRunAt
=============================================================================
