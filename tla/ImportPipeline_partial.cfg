SPECIFICATION Spec
CONSTANTS
    Downloads = {1, 2}
    Files = {1, 2, 3, 4}
    ReleaseOf <- Upgrade_ReleaseOf
    Target <- Upgrade_Target
    Size <- Upgrade_Size
    Misnamed = {}
    Flat = {}
    UpgradeOf <- Upgrade_UpgradeOf
    Handlers = {1}
    Worker = W
    MaxDecides = 0
    MaxAttempts = 3
    Stores = {"postgres"}
    KeepIncoming = FALSE
    MaxOps = 0
    MaxTroubles = 1
INVARIANT ImportedIsComplete
CHECK_DEADLOCK FALSE
