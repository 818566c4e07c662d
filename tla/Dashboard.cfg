CONSTANTS
    Sources = {s1, s2}
    Agents = {a1, a2}
    Agent = a1
    MaxSheets = 2
    Threads = {c1, c2, c3}
    NoThread = NoThread
    Texts = {x, y}
    Default = x
    MaxSaves = 2
    MaxTurns = 3
    Workspaces = {w1, w2}
    Slugs = {x1, x2, x3}
    Nothing = Nothing
    Tabs = {t1}
    MaxMoves = 2
    MaxCalls = 1
    Owner = o
    Others = {u1, u2}
    MaxRows = 2
    MailLinks = {l1, l2, l3}
    NoLink = NoLink
    Requests = {r1, r2}
    Attempts = 1
    MaxCrashes = 1
    MaxExpired = 1
    Keys = {k1}
    Origins = {o1}
    NoOrigin = NoOrigin
    Rpm = 1
    TicksPerSec = 3
    WindowSec = 2
    MaxClock = 6
    MaxServed = 2
    MaxErrors = 1
    Urls = {u0, u1, u2, u3}
    Root = u0
    Concurrency = 2
    MaxPages = 3
    MaxDepth = 2
    MaxLinks = 2
    Places = {p1, p2}
    w1 = w1
    w2 = w2
    Relevances = {40, 90}
    CandidateK = 3
    TopK = 2
    Lambda = 70
    MaxChunks = 2
    Words = {x, y}
    MaxWords = 3
SPECIFICATION Spec
SYMMETRY Symmetry
CONSTRAINT PreviewsBefore
INVARIANTS
    PagesCatchUp
    PanelShowsAnExistingThread
    FormShowsSavedAgent
    PreviewIsOneConversation
    ReadyIsStored
    RefusedForRankOnlyIfBehind
    NewestLinkWorks
    WindowsAreFixed
    PageIsCurrent
    CrawlIsComplete
    EachPageOnceAtItsDistance
    PagesOnceByTheirBest
    ReplyIsWhole
CHECK_DEADLOCK FALSE
