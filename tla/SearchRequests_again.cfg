SPECIFICATION FairSpec
CONSTANTS
    Entities = {1}
    Hydratable = {1}
    Workers <- Workers_2
    Stores = {"memory", "postgres"}
    MaxAttempts = 2
    PerTick = 1
    Cadence = 2
    MaxFaults = 0
    MaxOps = 1
PROPERTY WantedSearchedAgain
CHECK_DEADLOCK FALSE
