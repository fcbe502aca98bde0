SPECIFICATION ScheduledSpec
CONSTANTS
    MaxDuration = 2
    MaxTime = 3
    MaxChunks = 1
CHECK_DEADLOCK FALSE
PROPERTIES
    MaximumAlwaysApplies
