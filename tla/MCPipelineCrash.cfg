SPECIFICATION Spec
CONSTANTS
    MaxRetries = 1
    Events = {"crash"}
    MaxEvents = 1
    Files <- Reports
INVARIANTS
    NotStranded
CHECK_DEADLOCK FALSE
