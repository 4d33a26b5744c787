SPECIFICATION SidecarsSpec
CONSTANTS
    Value = {1}
    LastDay = 3
    MaxClock = 8
    MaxVintages = 2
    MaxCommits = 3
    Records = 0
    RecordDays = 1
    MaxOperations = 0
    Objects = 0
    MaxReleases = 0
    MaxTime = 1
    LastValid = 0
    Week = 2
    Horizon = 4
    VoidGap = 1
    ForecastDays = 12
    Asker = {p1, p2, p3}
    CallCap = 2
    BudgetDays = 2
    Row = {r1, r2}
    Tab = {t1, t2}
    Entities = 4
    EdgeIds = 3
    MaxHops = 2
    MaxPaths = 1
    MaxExpansions = 4
INVARIANTS
    PublicIsArchived
    NothingLaundered
    GradesCoverTheWindow
    DayWithinCap
    AnswerIsExact
PROPERTIES
    BuiltOnCleanHistory
    ForecastsStand
    RulingsStay
CHECK_DEADLOCK FALSE
