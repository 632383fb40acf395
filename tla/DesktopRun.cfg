SPECIFICATION DesktopSpec
CONSTANTS
    MaxPrompts = 2
    MaxLines = 2
    MaxViews = 1
    Tools = {t1, t2}
    MaxCalls = 2
    Rounds = 2
    MaxSends = 1
    MaxPosted = 1
    Pages = {"a"}
    MaxTabs = 1
    MaxQueue = 2
    MaxShells = 2
    MaxTermCalls = 2
    FlowSessions = {"s1", "s2"}
    MaxStored = 2
    MaxNodes = 5
    MaxActs = 3
    Dirs = {"d1", "d2"}
    Roots = 1
    MaxVisits = 2
    MaxSessions = 1
    UsedFrames = {"phworge", "sigma", "vectorscan"}
    MaxTyped = 1
    Words = {"w"}
    Sources = {"s"}
    SeedWord = "v"
    MaxRows = 2
    MaxVaultActs = 3
    MemorySessions = {"a", "b"}
    Limit = 2
    ContextSize = 1
    WarmAge = 0
    ColdAge = 1
    MaxMemories = 3
    MaxTime = 2
    MaxEmits = 3
    MaxPages = 2
INVARIANTS
    DesktopTypeOK
    TokensArriveOnce
    StreamsAgree
    FailuresAreExhaustive
    BadgesSettle
    BrowserAgrees
    TabsAreTheTerminals
    SavedIsKept
    SidebarAgrees
PROPERTY
    DesktopComesToRest
CHECK_DEADLOCK FALSE
