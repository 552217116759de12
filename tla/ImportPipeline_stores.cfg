SPECIFICATION LiveSpec
CONSTANTS
    Downloads = {1, 2}
    Files = {1, 2, 3, 4}
    ReleaseOf <- Upgrade_ReleaseOf
    Target <- Upgrade_Target
    Size <- Upgrade_Size
    Misnamed = {}
    Flat = {}
    UpgradeOf <- Upgrade_UpgradeOf
    Handlers = {1}
    Worker = W
    MaxDecides = 1
    MaxAttempts = 2
    Stores = {"memory", "postgres"}
    KeepIncoming = TRUE
    MaxOps = 0
    MaxTroubles = 1
INVARIANT ClaimsBounded
INVARIANT LibraryRecorded
INVARIANT NoMediaLost
 
PROPERTY OrphansAdopted
PROPERTY CompletedIsSettled
CHECK_DEADLOCK FALSE
