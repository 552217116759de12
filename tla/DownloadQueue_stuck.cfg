SPECIFICATION FairSpec
CONSTANTS
    Candidates = {1}
    Grabs = {1}
    WorkOf <- WorkOfOne
    SearchOf <- SearchOfOne
    ReleaseOf <- ReleaseOfOne
    LinkOf <- LinkOfOne
    MaxAttempts = 2
    Durable = TRUE
    TagLookup = FALSE
    Reports = {"downloading", "completed", "failed"}
    MaxPicks = 1
    MaxJobs = 1
    MaxDownloads = 1
    MaxRetries <- RetriesNone
    MaxCrashes = 1
PROPERTY EventuallySettled
CHECK_DEADLOCK FALSE
