SPECIFICATION FairSpec
CONSTANTS
    None = None
    CommandLines <- MCCommandLines
    Target <- MCTarget
    SitemapUrl = {"map"}
    ParsesAsUrl = {"site", "map"}
    Delays <- MCDelays
    ParsesAsTime = {"250ms"}
    DefaultDelay = "250ms"
    OldJobs <- MCOldJobs
    RECENT_LIMIT = 2
    MayFail = TRUE
    MaxRuns = 2
    MaxActions = 2
INVARIANTS FinishedRunIsShown
PROPERTIES RunsAreAsked QuitIsFinal QuitEnds
