SPECIFICATION Spec
CONSTANTS
    MaxRetries = 0
    Events = {"cancel"}
    MaxEvents = 1
    Files <- Reports
INVARIANTS
    CancelIsClean
CHECK_DEADLOCK FALSE
