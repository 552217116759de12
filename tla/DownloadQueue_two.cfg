SPECIFICATION Spec
CONSTANTS
    Candidates = {1,2,3,4,5}
    Grabs = {1,5}
    WorkOf <- WorkOfFive
    SearchOf <- SearchOfFive
    ReleaseOf <- ReleaseOfFive
    LinkOf <- LinkOfFive
    MaxAttempts = 1
    Durable = TRUE
    TagLookup = TRUE
    Reports = {"completed"}
    MaxPicks = 1
    MaxJobs = 3
    MaxDownloads = 2
    MaxRetries <- RetriesFive
    MaxCrashes = 1
INVARIANT CompletedIsReal
 
CHECK_DEADLOCK FALSE
