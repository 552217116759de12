SPECIFICATION Spec
CONSTANTS
    Downloads = {1, 2}
    Files = {1, 2, 3, 4}
    ReleaseOf <- Upgrade_ReleaseOf
    Target <- Upgrade_Target
    Size <- Upgrade_Size
    Misnamed = {1}
    Flat = {}
    UpgradeOf <- Upgrade_UpgradeOf
    Handlers = {H1, H2}
    Worker = W
    MaxDecides = 2
    MaxAttempts = 2
    Stores = {"postgres"}
    KeepIncoming = FALSE
    MaxOps = 1
    MaxTroubles = 0
SYMMETRY AnyHandler
INVARIANT TypeOK
INVARIANT ImportedIsComplete
CHECK_DEADLOCK FALSE
