SPECIFICATION FairSpec
CONSTANTS
    None = None
    Url <- MCUrl
    DomainOf <- MCDomainOf
    Pattern <- MCPattern
    Matches <- MCMatches
    Broken = {"("}
    Text <- MCText
    Trim <- MCTrim
    Lower <- MCLower
    ParseUrl <- MCParseUrl
    ParseTime <- MCParseTime
    FormatTime <- MCFormatTime
    Duration = {250, 1000}
    Capacity = 5
    Long <- MCLong
    WriteMayFail = TRUE
    CommandLines <- MCCommandLines
    BadAgent = {"odd"}
    OutputOpens = {TRUE, FALSE}
    SaveWorks = {TRUE, FALSE}
    SitemapAt <- MCSitemapAt
    MaxSitemaps = 2
    Hrefs <- MCHrefs
    Unreachable <- MCUnreachable
    MaxPresses = 3
    Typed <- MCTyped
    MaxEdits = 1
INVARIANTS SavedMeansWritten KilledOutputIsUsable BoundsHold SitemapIsSeeded EditRunsTheSame
PROPERTIES CtrlCEnds
