SPECIFICATION LiveSpec
CONSTANT MaxDay = 5
INVARIANT WatchdogSparesTheQueue
PROPERTIES
    SuccessorHasWork
    ClosedDayIsPublished
