SPECIFICATION Spec
CONSTANTS
    Lanes = {nowcast, notes}
    Derived = {doc}
    Other = {py}
    MaxAttempts = 3
    MaxCommits = 2
SYMMETRY LaneSymmetry
INVARIANTS
    OnlyExactlyGated
    PublishedAtMostOnce
    UpstreamSourceSurvives
    ManifestDescribesCommit
PROPERTIES
    ImplementsPublication
CHECK_DEADLOCK FALSE
