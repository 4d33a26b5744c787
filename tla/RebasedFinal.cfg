SPECIFICATION SharedSpec
CONSTANTS
    MaxDay = 2
    InputVersions = 1
    MaxCommits = 4
INVARIANT FinalizedMarkerIsProof
CHECK_DEADLOCK FALSE
