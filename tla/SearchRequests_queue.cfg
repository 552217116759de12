SPECIFICATION FairSpec
CONSTANTS
    Entities = {1, 2}
    Hydratable = {}
    Workers <- Workers_2
    Stores = {"memory", "postgres"}
    MaxAttempts = 2
    PerTick = 1
    Cadence = 2
    MaxFaults = 1
    MaxOps = 2
INVARIANT TypeOK
INVARIANT ClaimsBounded
PROPERTY SuccessLasts
PROPERTY EverySearchSettles
PROPERTY WantedServed
CHECK_DEADLOCK FALSE
