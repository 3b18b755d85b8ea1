SPECIFICATION Spec
CONSTANTS
    MaxRetries = 1
    Events = {"crash", "timeout", "lost", "dispatch", "duplicate"}
    MaxEvents = 1
    Files <- WithAndWithoutGraph
INVARIANTS
    StatusMeansDone
    ChunksKeptForEmbed
PROPERTIES
    IndexedForGood
CHECK_DEADLOCK FALSE
