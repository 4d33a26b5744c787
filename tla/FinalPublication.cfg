SPECIFICATION Spec
CONSTANTS
    MaxDay = 3
    InputVersions = 2
    MaxCommits = 4
INVARIANTS
    TypeOK
    RunRooted
    MainOrdered
    ReceiptsRooted
    LastFinalProvable
    CandidateReleasable
    RefusalTellsTruth
    OnlyClosedDays
PROPERTY ImplementsBacklog
CHECK_DEADLOCK FALSE
