SPECIFICATION FairSpec
CONSTANTS
    Messages = {m1}
    Processes = {p1, p2}
    Copies = {c1, c2, c3, c4}
    MaxRetries = 1
    MaxBreaks = 1
    MaxPauses = 1
    FaultKinds = {}
    NoMessage = NoMessage
    NoProcess = NoProcess
INVARIANTS
    NoMessageLost
PROPERTIES
    SettlesEveryMessage
    ExpiredRetriesReturn
CHECK_DEADLOCK FALSE
