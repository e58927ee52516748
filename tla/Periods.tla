------------------------------- MODULE Periods -------------------------------
(***************************************************************************)
(* The calendar of the reports (analytics): what a period covers and when  *)
(* a schedule runs next.                                                   *)
(*                                                                         *)
(* Instants are integers, DayLength of them a day; a day is named by its   *)
(* number, day 0 is the first weekday of the week and the first day of the *)
(* first month.  The server and the reports use UTC, so days do not vary.  *)
(***************************************************************************)
EXTENDS Integers, Sequences, Functions

CONSTANTS
    DayLength,       \* instants of a day
    WeekLength,      \* days of a week (7)
    MonthLengths,    \* days of the months, in order
    PeriodDays,      \* days of "week", "month" and "year" (7, 30 and 365)
    LastInstant      \* bound on the clock

ASSUME PeriodAssumption ==
    /\ {DayLength, WeekLength} \subseteq Nat \ {0}
    /\ MonthLengths \in Seq(Nat \ {0})
    /\ PeriodDays \in [{"week", "month", "year"} -> Nat \ {0}]
    /\ LastInstant \in Nat

VARIABLE now         \* the clock

Day(t) == t \div DayLength
Midnight(day) == day * DayLength
Weekday(day) == day % WeekLength

FirstDay == [m \in DOMAIN MonthLengths |-> SumFunctionOnSet(MonthLengths, 1..m - 1)]
Month(day) == CHOOSE m \in DOMAIN MonthLengths :
                  FirstDay[m] <= day /\ day < FirstDay[m] + MonthLengths[m]

-----------------------------------------------------------------------------
\* Periods of the dashboard and the reports.

\* The periods an API request and a report may name.
RequestPeriods == {"today", "week", "month", "year", "all"}
ReportPeriods == {"yesterday", "last_7_days", "last_30_days", "this_month",
                  "previous_month", "all"}

Between(from, to) == [bounded |-> TRUE, from |-> from, to |-> to]
AllTime == [bounded |-> FALSE, from |-> 0, to |-> 0]
NoDates == <<>>

\* Both ends belong to the range; dates is a pair of days or NoDates.
get_date_range(period, dates, at) ==
    CASE dates # NoDates -> Between(Midnight(dates[1]), Midnight(dates[2] + 1) - 1)
      [] dates = NoDates /\ period = "today" -> Between(Midnight(Day(at)), at)
      [] dates = NoDates /\ period \in DOMAIN PeriodDays ->
             Between(at - PeriodDays[period] * DayLength, at)
      [] OTHER -> AllTime

get_previous_date_range(range) ==
    IF range.bounded THEN Between(range.from - (range.to - range.from), range.from) ELSE AllTime

InRange(t, range) == range.bounded => range.from <= t /\ t <= range.to

\* The financial figures count whole days, today included, and stop before now.
get_financial_window(period, dates, at) ==
    CASE dates # NoDates ->
             [open |-> FALSE, from |-> Midnight(dates[1]), before |-> Midnight(dates[2] + 1)]
      [] dates = NoDates /\ period = "all" -> [open |-> TRUE, from |-> 0, before |-> at]
      [] OTHER -> [open |-> FALSE, before |-> at,
                   from |-> Midnight(Day(at) + 1
                                - (IF period = "today" THEN 1 ELSE PeriodDays[period]))]

InWindow(t, window) == t < window.before /\ (window.open \/ window.from <= t)

-----------------------------------------------------------------------------
\* A timing says when a schedule runs; hour is the instant of the day.  last is the
\* instant of its last run or NotYet.

NotYet == -1
Frequencies == {"daily", "weekly", "monthly", "every_n_days"}

\* The fields the serializer wants for a frequency; a daily schedule needs none.
ValidTiming(timing) ==
    CASE timing.frequency = "weekly"       -> timing.day \in 0..WeekLength - 1
      [] timing.frequency = "monthly"      -> timing.day \in 1..31
      [] timing.frequency = "every_n_days" -> timing.day >= 1
      [] OTHER                             -> TRUE

OnDay(timing, day) == Midnight(day) + timing.hour

daily_next_run(timing, after) ==
    LET candidate == OnDay(timing, Day(after)) IN
    IF candidate <= after THEN candidate + DayLength ELSE candidate

weekly_next_run(timing, after) ==
    LET ahead == (timing.day - Weekday(Day(after))) % WeekLength
        candidate == OnDay(timing, Day(after) + ahead)
    IN  IF candidate <= after THEN candidate + WeekLength * DayLength ELSE candidate

\* Mutant: a month that is too short runs over into the next.
MutMonthDay(timing, m) == timing.day

\* A month that is too short has its run on the last day.
MonthDay(timing, m) == IF timing.day <= MonthLengths[m] THEN timing.day ELSE MonthLengths[m]
monthly_candidate(timing, m) == OnDay(timing, FirstDay[m] + MonthDay(timing, m) - 1)

monthly_next_run(timing, after) ==
    LET m == Month(Day(after)) IN
    IF monthly_candidate(timing, m) <= after THEN monthly_candidate(timing, m + 1)
                                             ELSE monthly_candidate(timing, m)

\* The days are counted from the last run, late as it may have been.
every_n_days_next_run(timing, last, after) ==
    LET step == timing.day * DayLength
        first == OnDay(timing, IF last = NotYet THEN Day(after) ELSE Day(last) + timing.day)
    IN  IF after < first THEN first ELSE first + step * ((after - first) \div step + 1)

calculate_next_run(timing, last, after) ==
    CASE timing.frequency = "daily"   -> daily_next_run(timing, after)
      [] timing.frequency = "weekly"  -> weekly_next_run(timing, after)
      [] timing.frequency = "monthly" -> monthly_next_run(timing, after)
      [] timing.frequency = "every_n_days" -> every_n_days_next_run(timing, last, after)

\* What the calendar says, without a word about how it is computed: does the schedule
\* run at t?  A month's last day stands for the days it does not have.
RunsAt(timing, last, after, t) ==
    /\ t = OnDay(timing, Day(t))
    /\ CASE timing.frequency = "daily"   -> TRUE
         [] timing.frequency = "weekly"  -> Weekday(Day(t)) = timing.day
         [] timing.frequency = "monthly" ->
                LET m == Month(Day(t)) IN
                \/ Day(t) - FirstDay[m] + 1 = timing.day
                \/ timing.day > MonthLengths[m] /\ Day(t) + 1 = FirstDay[m] + MonthLengths[m]
         [] timing.frequency = "every_n_days" ->
                LET passed == Day(t) - Day(IF last = NotYet THEN after ELSE last) IN
                passed % timing.day = 0 /\ passed > (IF last = NotYet THEN -1 ELSE 0)
=============================================================================
