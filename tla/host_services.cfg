SPECIFICATION Spec
CONSTANTS
    r1 = r1
    r2 = r2
    None = None
    Clients <- TwoClients
    Capacity = 2
    MaxLines = 5
    Users = {"u", "v"}
    Documents <- MCDocuments
    Null <- MCNull
    MaxCrashes = 1
    Guids = {1, 2}
    Official = {1}
    NoGuid = 0
    Offers <- MCOffers
    MaxOffers = 3
    MaxViews = 1
    MaxTests = 2
    Locales = {"e", "f"}
    LangOf <- MCLangOf
    InTable = {"k"}
    NotInTable = {"u"}
    Own = {"o"}
    Texts = {"t"}
    Nothing = ""
    QueuedTasks = {"s", "t"}
    RunTimes = {1}
    MaxQueue = 2
    Exported = {"Python", "Cpp"}
    MaxLoads = 2
    MaxPackages = 2
CHECK_DEADLOCK FALSE
INVARIANTS
    HostTypeOK
    OnlyOldLinesLost
    ServedAsDelivered
    QuietFileIsADocument
    SupporterIsAsked
    ResultsFollowCaptures
    ListedTogether
    PointersCounted
PROPERTIES
    CrashNeedsUnexplained
