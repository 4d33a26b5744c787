SPECIFICATION SharedSpec
CONSTANTS
    MaxDay = 3
    InputVersions = 1
    MaxCommits = 4
INVARIANT MarkerIsProofOrRefusal
PROPERTY RecordNeverRegresses
CHECK_DEADLOCK FALSE
