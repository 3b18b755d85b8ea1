SPECIFICATION Spec
CONSTANTS
    MaxRetries = 0
    Events = {"reprocess", "reindex", "cancel"}
    MaxEvents = 1
    Files <- Reports
INVARIANTS
    IndexedIsSearchable
    UpdatesExistingVectors
CHECK_DEADLOCK FALSE
