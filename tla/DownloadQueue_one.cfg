SPECIFICATION FairSpec
CONSTANTS
    Candidates = {1}
    Grabs = {1}
    WorkOf <- WorkOfOne
    SearchOf <- SearchOfOne
    ReleaseOf <- ReleaseOfOne
    LinkOf <- LinkOfOne
    MaxAttempts = 2
    Durable = FALSE
    TagLookup = FALSE
    Reports = {"downloading", "repairing", "unpacking", "completed", "failed"}
    MaxPicks = 1
    MaxJobs = 1
    MaxDownloads = 2
    MaxRetries <- RetriesOne
    MaxCrashes = 1
INVARIANT TypeOK
INVARIANT NeverStranded
INVARIANT SubmissionsBounded
PROPERTY CancelHolds
PROPERTY EventuallySettled
CHECK_DEADLOCK FALSE
