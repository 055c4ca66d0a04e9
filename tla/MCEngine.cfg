SPECIFICATION Spec
CONSTANTS
    a = a
    b = b
    a1 = a1
    a2 = a2
    a3 = a3
    a4 = a4
    b1 = b1
    None = None
    Depth <- MCDepth
    Delay <- MCDelay
    Canon <- Spelled
    HostOf <- MCHostOf
    MaxDepth = 3
    MaxPages = None
    Horizon = 20
    BaseDelay = 1
    Url = {a1, a2, a3, a4, b1}
    Host = {a, b}
    Worker = {w1, w2}
    Seeds <- SeedSpelled
    Sitemap <- SitemapA1
    Allowed = {a1, a2, a4, b1}
    Links <- FanLinks
    RespectRobots = TRUE
    RespectCrawlDelay = TRUE
    RobotsSays <- MCVerdicts
    CrawlDelay <- MCCrawlDelay
    Replies <- MCReplies
    PageHook = {"ok"}
    ErrorHook = {"ok"}
    FinishHook = {"ok"}
    UserMay = {"stop", "pause", "resume"}
INVARIANTS Ledger NoPrematureExit NoIdleCrew OnePagePerUrl
PROPERTIES StopStopsLeasing PauseStopsLeasing RefinesCrawl
