SPECIFICATION FairSpec
CONSTANTS
    a = a
    b = b
    a1 = a1
    a2 = a2
    a3 = a3
    a4 = a4
    b1 = b1
    None = None
    Depth <- MCDepth
    Delay <- MCDelay
    Canon <- MCCanon
    HostOf <- MCHostOf
    MaxDepth = 3
    MaxPages = None
    Horizon = 20
    BaseDelay = 1
    Url = {a1, a2}
    Host = {a}
    Worker = {w1, w2}
    Seeds <- SeedA1
    Sitemap <- NoSitemap
    Allowed = {a1, a2}
    Links <- LoopLinks
    RespectRobots = FALSE
    RespectCrawlDelay = FALSE
    RobotsSays <- Allow
    CrawlDelay <- NoCrawlDelay
    Replies <- AnyReply
    PageHook = {"ok", "err", "panic"}
    ErrorHook = {"ok", "panic"}
    FinishHook = {"ok", "err"}
    UserMay = {"stop", "pause", "resume", "toggle"}
INVARIANTS Ledger OnePagePerUrl SummaryIsExact SinkFailureSurfaces
PROPERTIES Terminates StopReturns
