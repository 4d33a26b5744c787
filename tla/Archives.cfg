SPECIFICATION SidecarsSpec
CONSTANTS
    Value = {1}
    LastDay = 1
    MaxClock = 1
    MaxVintages = 0
    MaxCommits = 0
    Records = 4
    RecordDays = 2
    MaxOperations = 3
    Objects = 3
    MaxReleases = 3
    MaxTime = 3
    LastValid = 2
    Week = 2
    Horizon = 4
    VoidGap = 1
    ForecastDays = 1
    Asker = {p1}
    CallCap = 0
    BudgetDays = 1
    Row = {r1}
    Tab = {t1}
    Entities = 1
    EdgeIds = 0
    MaxHops = 0
    MaxPaths = 0
    MaxExpansions = 0
INVARIANTS
    ReplayAnswers
    OneVersionActive
    OneVersionInForce
PROPERTY AnswersStay
CHECK_DEADLOCK FALSE
