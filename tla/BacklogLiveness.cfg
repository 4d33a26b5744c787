SPECIFICATION LiveSpec
CONSTANTS
    MaxDay = 5
    MissCode = "source_acquisition_failed"
INVARIANT NoSilentHole
PROPERTIES
    PassedDaysFrozen
    EveryDayIsSettled
CHECK_DEADLOCK FALSE
