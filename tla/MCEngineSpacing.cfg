SPECIFICATION Spec
CONSTANTS
    a = a
    b = b
    a1 = a1
    a2 = a2
    a3 = a3
    a4 = a4
    b1 = b1
    None = None
    Url = {a1, a2}
    Host = {a}
    Depth <- MCDepth
    Delay <- MCDelay
    Canon <- MCCanon
    HostOf <- MCHostOf
    BaseDelay = 1
    MaxDepth = 3
    MaxPages = None
    Horizon = 20
    Worker = {w1, w2}
    Seeds <- SeedTwice
    Sitemap <- NoSitemap
    Allowed = {a1, a2}
    Links <- LoopLinks
    RespectRobots = TRUE
    RespectCrawlDelay = FALSE
    RobotsSays <- Allow
    CrawlDelay <- NoCrawlDelay
    Replies <- AllHtml
    PageHook = {"ok"}
    ErrorHook = {"ok"}
    FinishHook = {"ok"}
    UserMay={}
INVARIANT RequestSpacing
