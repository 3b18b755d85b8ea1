SPECIFICATION Spec
CONSTANTS
    Messages = {m1, m2}
    Processes = {p1, p2}
    Copies = {c1, c2, c3, c4, c5}
    MaxRetries = 1
    MaxBreaks = 1
    MaxPauses = 0
    FaultKinds = {"timeout", "retry_publish", "requeue"}
    NoMessage = NoMessage
    NoProcess = NoProcess
SYMMETRY Symmetry
INVARIANTS
    DeadLetterIsEarnedUnpaused
    TriedInTurn
CHECK_DEADLOCK FALSE
