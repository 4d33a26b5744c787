SPECIFICATION LiveSpec
CONSTANTS
    MaxDay = 4
    MissCode = "source_unavailable"
PROPERTY LostDayNeverLivelocks
CHECK_DEADLOCK FALSE
