SPECIFICATION MCSpec
CONSTANTS
    beat = beat
    errorSpike = errorSpike
    RuleOrder <- TwoRules
    Counted = {errorSpike}
    Exceptions = {error}
    Workers = {w1, w2}
    Requests = {r1}
    Staff = {m1, m2}
    Alerts <- SixAlerts
    MaxEvents = 3
    None = None
    DayLength = 2
    WeekLength = 2
    MonthLengths <- ShortMonths
    PeriodDays <- ShortPeriods
    Timings <- EachFrequency
    NewTimings <- DailyAtZero
    Requested = {"yesterday"}
    Periodic = {p1, p2}
    Editors = {e1}
    MaxReports = 2
    MaxRevisions = 1
    LastInstant = 3
INVARIANTS
    ReportsCoverTheirPeriod
CHECK_DEADLOCK FALSE
