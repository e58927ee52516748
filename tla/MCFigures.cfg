SPECIFICATION MCSpec
CONSTANTS
    DayLength = 2
    WeekLength = 2
    MonthLengths <- ShortMonths
    PeriodDays <- ShortPeriods
    Items <- TwoItems
    Extra <- OneFee
    Sellers = {s1, s2}
    Providers = {v1, v2}
    Attempts = {p1, p2}
    Entries <- FewRows
    MaxRefunds = 2
    LastInstant = 2
SYMMETRY Symmetry
INVARIANTS
    FiguresAgree
PROPERTIES
    PastFiguresStand
CHECK_DEADLOCK FALSE
