SPECIFICATION Spec
CONSTANTS
    Messages = {m1}
    Processes = {p1}
    Copies = {c1, c2, c3}
    MaxRetries = 1
    MaxBreaks = 0
    MaxPauses = 0
    FaultKinds = {"timeout"}
    NoMessage = NoMessage
    NoProcess = NoProcess

INVARIANTS
    EveryMessageKept
CHECK_DEADLOCK FALSE
