SPECIFICATION BrowserSpec
CONSTANTS
    ChatSessions = {"s1", "s2"}
    FirstSessions = {"s1"}
    NoSession = "new"
    SendTexts = {1}
    MaxSends = 2
    MaxTokens = 1
    MaxMoves = 1
    MaxPolls = 1
    MaxPanelFaults = 1
    Accounts = {"ann"}
    NoAccount = "nobody"
    TwoFactor = {"ann"}
    Calls = {c1, c2}
    MaxGrants = 2
    MaxReloads = 1
    MaxSessionFaults = 1
INVARIANT BrowserTypeOK
PROPERTIES
    PanelIsFaithful
    SessionIsKept
CHECK_DEADLOCK FALSE
