SPECIFICATION AnswersSpec
CONSTANTS
    Files <- MCFiles
    MaxChunk = 2
    MinDieuHeadings = 2
    MaxDieuPerChunk = 2
    OcrConcurrency = 1
    LoopCopies = 3
    Articles = {1, 2}
    MaxPageFaults = 1
    MaxSectionFaults = 1
    Documented <- MCDocumented
    MaxImages = 2
    MaxItems = 2
    CaptionSlots = 2
    MaxFigureFaults = 1
    MaxCaptionRuns = 2
    SearchDocs = {"x1", "x2", "x3", "x4"}
    SearchWorkspaces = {"W1", "W2"}
    PlaceOf <- MCPlaceOf
    ChatFiles = {"x4"}
    Relevance <- MCRelevance
    TopK = 1
    Scopes <- MCScopes
    MaxSearches = 2
    MaxSearchFaults = 1
    MaxEdits = 1
    Titled = {"decree53", "decree153", "old53", "circular"}
    KindOf <- MCKindOf
    Exact <- MCExact
    ContainedIn <- MCContains
    Bears <- MCBears
    WordsOf <- MCWordsOf
    Likeness <- MCLikeness
    References <- MCReferences
    NoKind = NoKind
    NoNumber = NoNumber
    DbLimit = 2
    MaxShown = 2
    MaxResolveFaults = 1
    MaxTitleChanges = 1
    Schemas = {"insurance", "census", "power"}
    FieldsOf <- MCFieldsOf
    PersonRecords <- MCPersonRecords
    Missing = "missing"
    Containing <- MCContaining
    Lookups <- MCLookups
    DocChunks = {"x1", "x2", "x3"}
    Mentioning <- MCMentioning
    PerSchema = 2
    MaxLookups = 2
    MaxMongoFaults = 2
    Turns = {t1, t2, t3}
    Telling = {t1, t2}
    OverSession = {t2, t3}
    ToolTurns = {t2}
    RecallLimit = 2
    MaxSaves = 2
    MaxMemoryFaults = 1
    MaxRestarts = 1
    Scripts <- MCScripts
    Providers = {"openai_compatible", "ollama"}
    Fragments = {"f1", "f2", "f3"}
    FragmentOf <- MCFragmentOf
    Malformed = {"bad"}
    StreamSources = {"c1"}
    ResolvedDocs = {"d1", "d2"}
    CitationTokens = {"c1", "d1", "d2", "fake", "mem"}
    MemoryTokens = {"mem"}
    MaxHold = 4
    MaxDelta = 3
    Chats = {"c1"}
    TelegramUsers = {"A", "B"}
    TelegramSpaces = {"w1"}
    Codes = {"ka", "kb"}
    MintedBy <- MCMintedBy
    Questions = {q1, q2}
    LinkRequests = {l1, l2}
    SessionIds = {1, 2}
    HistoryLimit = 3
    AnswerTexts <- MCAnswerTexts
    ChunkBudget = 4
    NoLink = NoLink
    Nobody = Nobody
    NoSession = NoSession
    NoSpace = NoSpace
    MaxChatEvents = 1
SYMMETRY MCSymmetry
INVARIANTS
    AnswersTypeOK
    ParsingIsFaithful
    FiguresAreTheirOwn
    SearchIsHonest
    ResolutionIsSound
    
    
    
    ConversationsKeepTheirAccount
CHECK_DEADLOCK FALSE
