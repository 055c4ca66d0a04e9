SPECIFICATION Spec
CONSTANTS
    None = None
    CommandLines <- WithoutTarget
    Target <- MCTarget
    SitemapUrl = {"map"}
    ParsesAsUrl = {"site", "map"}
    Delays <- MCDelays
    ParsesAsTime = {"250ms"}
    DefaultDelay = "250ms"
    OldJobs <- MCOldJobs
    RECENT_LIMIT = 2
    MayFail = FALSE
    MaxRuns = 2
    MaxActions = 2
PROPERTY CtrlCExits
