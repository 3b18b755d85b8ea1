SPECIFICATION RequestsSpec
CONSTANTS
    Runs = {r1, r2}
    ApiProcesses = {"p1", "p2"}
    HomeOf <- MCHomeOf
    NoRun = NoRun
    MaxDbFaults = 1
    MaxStops = 1
    Uploads = {d1}
    Original = d0
    NoDocument = NoDocument
    MaxUploadFaults = 2
    DeadMessages = {m1, m2, m3}
    Admins = {a1, a2}
    RetryBatch = 2
    MaxRetryFaults = 2
    LegalDocuments = {"law", "decree", "circular"}
    Declares <- MCDeclares
    MaxFailedExtracts = 1
    IndexedChunks = {c1}
    SearchProcesses = {s1, s2}
    MaxCorpusChanges = 3
    KgDocuments = {"k1", "k2"}
    KgEntities = {"n1", "n2", "agency"}
    KgLaws = {"n1", "n2"}
    RootOf <- MCRootOf
    Mentions <- MCMentions
    KgNodes = {1, 2, 3}
    NoNode = NoNode
    MaxKgRequests = 2
    TenantUsers = {u1, u2}
    NewUsers = {u2}
    Redemptions = {q1, q2, q3}
    MaxUsesValues = {1, 2}
    NoRedemption = NoRedemption
    MaxAdminSteps = 2
    MaxToolSteps = 4
    MaxReflections = 2
    DocTypes = {"law"}
    DefaultTypes = {"law"}
    TypeSpaces = {w1}
    Global = Global
    TypeRequests = {e1, e2}
    TypeBoots = {b3}
    Earlier = Earlier
    PromptTexts = {"x"}
    Standard = "standard"
    NoText = "none"
    NoRow = NoRow
    TypeProcesses = {"p1"}
    TypedDocuments = {"t1"}
    NoType = "untyped"
    AccountUsers = {"ann", "bob"}
    FirstSuperadmins = {"ann"}
    AccountRequests = {k1, k2, k3}
    Homes = {"h1", "h2"}
    HomeOwner <- MCHomeOwner
    FirstDefaults = {"h1"}
    Abbreviations = {"ab"}
    NoSecret = NoSecret
    Nil = Nil
    Starts = {b1, b2}
    StartDocuments = {"f1"}
    StartSpaces = {"w1"}
    StartMessages = {"m1"}
INVARIANTS
    RequestsTypeOK
    RunsAccountedFor
    
    DeadLettersAccountedFor
    
    AnswersFromRightSize
    OwnershipIsExact
    InviteUsesCapped
    AnswerIsHonest
    
    AccountsAreKept
    StartsUpgradeInPlace
CHECK_DEADLOCK FALSE
