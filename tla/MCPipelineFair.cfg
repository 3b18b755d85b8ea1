SPECIFICATION FairSpec
CONSTANTS
    MaxRetries = 1
    Events = {}
    MaxEvents = 0
    Files <- AllFiles
PROPERTIES
    ComesToAnOutcome
CHECK_DEADLOCK FALSE
