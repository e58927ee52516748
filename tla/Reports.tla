------------------------------- MODULE Reports -------------------------------
(***************************************************************************)
(* Scheduled reports (analytics.tasks): one schedule, the runs of the      *)
(* periodic task that looks for due schedules, and the workers.            *)
(*                                                                         *)
(* A run of the periodic task lists the due schedules, then takes each     *)
(* under its lock in a transaction that creates the reports, queues their  *)
(* tasks and moves the schedule on.  The queue is not part of the          *)
(* transaction: a worker may take a task before the report is committed,   *)
(* and finds nothing.  Celery acknowledges a task when it is taken, so one *)
(* that is killed does not come back.                                      *)
(***************************************************************************)
EXTENDS Periods, FiniteSets

CONSTANTS
    Timings,        \* frequencies with day and hour a schedule may be created with
    NewTimings,     \* and those it may be changed to
    Requested,      \* periods a report may be asked for
    Periodic,       \* runs of the periodic task that may overlap
    Editors,        \* requests that change the schedule, under way at once
    MaxReports,     \* bound on the reports, numbered as they are created
    MaxRevisions    \* bound on the changes of the schedule

ASSUME ReportAssumption ==
    /\ {MaxReports, MaxRevisions} \subseteq Nat
    /\ Requested \subseteq ReportPeriods /\ Requested # {}
    /\ Timings \subseteq [frequency : Frequencies, day : Nat, hour : 0..DayLength - 1]
    /\ NewTimings \subseteq Timings
    /\ \E m \in DOMAIN MonthLengths : Day(LastInstant) < FirstDay[m]

VARIABLES
    schedule,    \* the AnalyticsReportSchedule row
    task,        \* runs of run_due_analytics_report_schedules
    editor,      \* requests of the schedule's API
    revisions,   \* changes so far
    report,      \* AnalyticsGeneratedReport rows
    queue,       \* reports with a task in the queue
    computed,    \* when next_run_at was last computed
    ran,         \* the values of next_run_at that were run
    rerun,       \* one of them was run again
    disrupted    \* a change overlapped a run, or was cut off

reportVars == <<now, schedule, task, editor, revisions, report, queue, computed, ran, rerun,
                disrupted>>

ReportIds == 1..MaxReports
States == {"none", "uncommitted", "rolled back", "pending", "processing", "success", "failed"}
Schedule == [timing : Timings, active : BOOLEAN, last : Int, next : Int]
ReportRow == [state : States, period : Requested, lost : BOOLEAN,
           covers : [bounded : BOOLEAN, from : Int, to : Int]]
NoReport == [state |-> "none", period |-> CHOOSE p \in Requested : TRUE, lost |-> FALSE,
             covers |-> AllTime]
NotRunning == [step |-> "idle", at |-> 0, made |-> 0]
Task == [step : {"idle", "listed", "created", "queued"}, at : Int, made : 0..MaxReports]
NoEdit == [step |-> "idle", row |-> [timing |-> CHOOSE t \in Timings : TRUE, active |-> FALSE,
                                     last |-> NotYet, next |-> 0]]
Editor == [step : {"idle", "save", "next"}, row : Schedule]

\* A schedule is created with its first run computed; save does that.
ReportInit ==
    /\ now = 0
    /\ \E t \in {x \in Timings : ValidTiming(x)} :
           schedule = [timing |-> t, active |-> TRUE, last |-> NotYet,
                       next |-> calculate_next_run(t, NotYet, 0)]
    /\ task = [p \in Periodic |-> NotRunning]
    /\ editor = [e \in Editors |-> NoEdit]
    /\ revisions = 0
    /\ report = [r \in ReportIds |-> NoReport]
    /\ queue = {}
    /\ computed = [last |-> NotYet, at |-> 0]
    /\ ran = {} /\ rerun = FALSE /\ disrupted = FALSE

-----------------------------------------------------------------------------
NextReport(r) == report[r] = NoReport /\ \A o \in ReportIds : o < r => report[o] # NoReport

\* The transaction of another run holds the row.
Locked == \E p \in Periodic : task[p].step \in {"created", "queued"}
Due(at) == schedule.active /\ schedule.next <= at
Overlap == \/ \E p \in Periodic : task[p].step # "idle"
           \/ \E e \in Editors : editor[e].step # "idle"

Elapse ==
    /\ now < LastInstant
    /\ now' = now + 1
    /\ UNCHANGED <<schedule, task, editor, revisions, report, queue, computed, ran, rerun, disrupted>>

\* The list is taken once, with the time of the run.
ListDue(p) ==
    /\ task[p].step = "idle" /\ Due(now)
    /\ task' = [task EXCEPT ![p] = [step |-> "listed", at |-> now, made |-> 0]]
    /\ UNCHANGED <<now, schedule, editor, revisions, report, queue, computed, ran, rerun, disrupted>>

\* Under the lock the conditions are checked again.  create_reports_for_schedule makes
\* one report here, with the period of the schedule.
TakeSchedule(p) ==
    /\ task[p].step = "listed" /\ ~Locked
    /\ IF Due(task[p].at)
       THEN /\ \E r \in ReportIds, period \in Requested :
                   /\ NextReport(r)
                   /\ report' = [report EXCEPT ![r].state = "uncommitted", ![r].period = period]
                   /\ task' = [task EXCEPT ![p].step = "created", ![p].made = r]
            /\ rerun' = (rerun \/ schedule.next \in ran)
            /\ ran' = ran \cup {schedule.next}
       ELSE /\ task' = [task EXCEPT ![p] = NotRunning]
            /\ UNCHANGED <<report, rerun, ran>>
    /\ UNCHANGED <<now, schedule, editor, revisions, queue, computed, disrupted>>

\* Mutant: the transaction moves on without queuing the task.
MutEnqueue(p) ==
    /\ task[p].step = "created"
    /\ task' = [task EXCEPT ![p].step = "queued"]
    /\ UNCHANGED <<now, schedule, editor, revisions, report, queue, computed, ran, rerun,
                   disrupted>>

\* generate_analytics_report.delay: the task can be taken at once.
Enqueue(p) ==
    /\ task[p].step = "created"
    /\ queue' = queue \cup {task[p].made}
    /\ task' = [task EXCEPT ![p].step = "queued"]
    /\ UNCHANGED <<now, schedule, editor, revisions, report, computed, ran, rerun, disrupted>>

\* update_next_run and the commit.
CommitRun(p) ==
    /\ task[p].step = "queued"
    /\ schedule' = [schedule EXCEPT !.last = now,
                                    !.next = calculate_next_run(schedule.timing, now, now)]
    /\ computed' = [computed EXCEPT !.last = now, !.at = now]
    /\ report' = [report EXCEPT ![task[p].made].state = "pending"]
    /\ task' = [task EXCEPT ![p] = NotRunning]
    /\ UNCHANGED <<now, editor, revisions, queue, ran, rerun, disrupted>>

\* The broker does not answer, or the process is killed: the transaction is rolled back,
\* and with it what this run did.  A task that was queued stays.
RollBack(p) ==
    /\ task[p].step \in {"created", "queued"}
    /\ report' = [report EXCEPT ![task[p].made].state = "rolled back"]
    /\ ran' = ran \ {schedule.next}
    /\ task' = [task EXCEPT ![p] = NotRunning]
    /\ UNCHANGED <<now, schedule, editor, revisions, queue, computed, rerun, disrupted>>

\* run_now and GenerateAnalyticsReportNowView commit the report and queue it afterwards;
\* when the broker does not answer the report has no task.
GenerateNow(r, period) ==
    /\ NextReport(r)
    /\ \/ report' = [report EXCEPT ![r].state = "pending", ![r].period = period]
          /\ queue' = queue \cup {r}
       \/ report' = [report EXCEPT ![r].state = "pending", ![r].period = period, ![r].lost = TRUE]
          /\ UNCHANGED queue
    /\ UNCHANGED <<now, schedule, task, editor, revisions, computed, ran, rerun, disrupted>>

-----------------------------------------------------------------------------
\* generate_analytics_report: a report that is not there raises DoesNotExist.
StartReport(r) ==
    /\ r \in queue
    /\ queue' = queue \ {r}
    /\ report' = [report EXCEPT ![r].state = IF @ = "pending" THEN "processing" ELSE @,
                                ![r].lost = @ \/ report[r].state = "uncommitted"]
    /\ UNCHANGED <<now, schedule, task, editor, revisions, computed, ran, rerun, disrupted>>

\* build_csv_export_data knows the periods of the requests.  The range is kept relative to
\* the day the report is made.
FinishReport(r) ==
    /\ report[r].state = "processing" /\ ~report[r].lost
    /\ \/ LET range == get_date_range(report[r].period, NoDates, now)
              today == IF range.bounded THEN Midnight(Day(now)) ELSE 0
          IN  report' = [report EXCEPT
                            ![r].state = "success",
                            ![r].covers = [range EXCEPT !.from = @ - today, !.to = @ - today]]
       \/ report' = [report EXCEPT ![r].state = "failed"]
    /\ UNCHANGED <<now, schedule, task, editor, revisions, queue, computed, ran, rerun, disrupted>>

\* Killed, by the time limit of tasks or with the worker, which may have taken the task and
\* not marked the report yet.
LoseReport(r) ==
    /\ \/ report[r].state = "processing" /\ ~report[r].lost /\ UNCHANGED queue
       \/ r \in queue /\ queue' = queue \ {r}
    /\ report' = [report EXCEPT ![r].lost = TRUE]
    /\ UNCHANGED <<now, schedule, task, editor, revisions, computed, ran, rerun, disrupted>>

-----------------------------------------------------------------------------
\* PATCH loads the row, saves all of it, then computes the next run and saves that.
EditSchedule(e, row) ==
    /\ editor[e].step = "idle" /\ revisions < MaxRevisions
    /\ ValidTiming(row.timing)
    /\ editor' = [editor EXCEPT ![e] = [step |-> "save", row |-> row]]
    /\ revisions' = revisions + 1
    /\ disrupted' = (disrupted \/ Overlap)
    /\ UNCHANGED <<now, schedule, task, report, queue, computed, ran, rerun>>

SaveSchedule(e) ==
    /\ editor[e].step = "save" /\ ~Locked
    /\ schedule' = editor[e].row
    /\ editor' = [editor EXCEPT ![e].step = "next"]
    /\ disrupted' = (disrupted \/ editor[e].row.last # schedule.last
                               \/ \E p \in Periodic : task[p].step # "idle")
    /\ UNCHANGED <<now, task, revisions, report, queue, computed, ran, rerun>>

RecomputeNextRun(e) ==
    LET row == editor[e].row IN
    /\ editor[e].step = "next" /\ ~Locked
    /\ schedule' = [schedule EXCEPT !.next = calculate_next_run(row.timing, row.last, now)]
    /\ computed' = [computed EXCEPT !.last = row.last, !.at = now]
    /\ editor' = [editor EXCEPT ![e] = NoEdit]
    /\ disrupted' = (disrupted \/ row.last # schedule.last \/ row.timing # schedule.timing)
    /\ UNCHANGED <<now, task, revisions, report, queue, ran, rerun>>

CutOffEdit(e) ==
    /\ editor[e].step # "idle"
    /\ editor' = [editor EXCEPT ![e] = NoEdit]
    /\ disrupted' = TRUE
    /\ UNCHANGED <<now, schedule, task, revisions, report, queue, computed, ran, rerun>>

ScheduleStep ==
    \/ \E p \in Periodic : ListDue(p) \/ TakeSchedule(p) \/ Enqueue(p) \/ CommitRun(p) \/ RollBack(p)

WorkerStep(r) == StartReport(r) \/ FinishReport(r)

ReportNext ==
    \/ Elapse
    \/ ScheduleStep
    \/ \E r \in ReportIds :
           WorkerStep(r) \/ LoseReport(r) \/ \E period \in Requested : GenerateNow(r, period)
    \/ \E e \in Editors :
           \/ SaveSchedule(e) \/ RecomputeNextRun(e) \/ CutOffEdit(e)
           \/ \E timing \in NewTimings : EditSchedule(e, [schedule EXCEPT !.timing = timing])
           \/ EditSchedule(e, [schedule EXCEPT !.active = ~schedule.active])

\* Workers take what is in the queue and finish it or are killed; a transaction ends.
ReportFairness ==
    /\ \A r \in ReportIds : WF_reportVars(WorkerStep(r))
    /\ \A p \in Periodic : WF_reportVars(Enqueue(p) \/ CommitRun(p) \/ RollBack(p))

ReportSpec == ReportInit /\ [][ReportNext]_reportVars /\ ReportFairness

-----------------------------------------------------------------------------
ReportTypeOK ==
    /\ now \in 0..LastInstant
    /\ schedule \in Schedule
    /\ task \in [Periodic -> Task]
    /\ editor \in [Editors -> Editor]
    /\ revisions \in 0..MaxRevisions
    /\ report \in [ReportIds -> ReportRow]
    /\ queue \subseteq ReportIds
    /\ computed \in [last : Int, at : Int]
    /\ ran \subseteq Int
    /\ rerun \in BOOLEAN /\ disrupted \in BOOLEAN

\* A schedule that is not being changed waits for the first instant its calendar names
\* after the time it was computed, and none in between is skipped; each such instant is
\* run once, however many runs of the periodic task find it due.  Only a change that
\* overlapped a run, or was cut off, can move the schedule back.
RunsWhenTheCalendarSays ==
    /\ ReportTypeOK
    /\ ~disrupted =>
           /\ ~rerun
           /\ (\A e \in Editors : editor[e].step # "next") =>
                  /\ schedule.next > computed.at
                  /\ RunsAt(schedule.timing, computed.last, computed.at, schedule.next)
                  /\ \A t \in computed.at + 1 .. schedule.next - 1 :
                         ~RunsAt(schedule.timing, computed.last, computed.at, t)

\* Every report that was asked for ends, by the periodic task, which queues it before it
\* commits its row, or by run_now, which queues it afterwards; unless its task was taken
\* before the commit, never reached the queue or was killed.
ReportsEnd ==
    \A r \in ReportIds :
        report[r].state \in {"uncommitted", "pending", "processing"}
            ~> (report[r].state \in {"rolled back", "success", "failed"} \/ report[r].lost)

\* "Yesterday": a report of that period covers yesterday and no other day.
ReportsCoverTheirPeriod ==
    \A r \in ReportIds :
        report[r].state = "success" /\ report[r].period = "yesterday"
            => report[r].covers = Between(-DayLength, -1)
=============================================================================
