SPECIFICATION Spec
CONSTANTS
    None = None
    Proc = {p1, p2}
    MaxJobs = 3
    Pieces = 2
    RECENT_LIMIT = 1
    Fetched <- MCFetched
    MayCrash = TRUE
    MayClear = TRUE
    Edits = {"blank", "junk"}
INVARIANTS NothingInvented WholeLinesAreLoaded RecentIsNewest
CHECK_DEADLOCK FALSE
