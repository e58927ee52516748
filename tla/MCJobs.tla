------------------------------- MODULE MCJobs -------------------------------
(***************************************************************************)
(* The two components whose work is done by Celery's periodic tasks, the   *)
(* alerts and the scheduled reports.  They share no state: a run takes the *)
(* steps of one and the other stays as it began.                           *)
(***************************************************************************)
EXTENDS Alerts, Reports

CONSTANTS beat, errorSpike

VARIABLE part     \* the component that takes steps

TwoRules == <<beat, errorSpike>>
SixAlerts == 1..6

ShortMonths == <<2, 1, 3, 3>>
ShortPeriods == [week |-> 2, month |-> 3, year |-> 5]

\* A schedule of each frequency; the monthly one has a day that one month lacks.
Daily(hour) == [frequency |-> "daily", day |-> 0, hour |-> hour]
EachFrequency ==
    {Daily(0),
     [frequency |-> "weekly", day |-> 1, hour |-> 0],
     [frequency |-> "monthly", day |-> 2, hour |-> 0],
     [frequency |-> "every_n_days", day |-> 2, hour |-> 1]}
DailyAtZero == {Daily(0)}

MCInit ==
    /\ Init /\ ReportInit
    /\ \/ part = "alerts" /\ schedule.timing = Daily(0)
       \/ part = "reports"

MCNext ==
    /\ UNCHANGED part
    /\ \/ part = "alerts" /\ Next /\ UNCHANGED reportVars
       \/ part = "reports" /\ ReportNext /\ UNCHANGED vars

MCSpec ==
    /\ MCInit /\ [][MCNext]_<<part, vars, reportVars>>
    /\ \/ part = "alerts" /\ Fairness
       \/ part = "reports" /\ ReportFairness
=============================================================================
