SPECIFICATION SupervisionSpec
CONSTANTS
    Workers = {k1, k2}
    DefaultMax = 2
    Asked = {0}
    MaxJobs = 1
    MaxOps = 2
    Services = {backend, indexer}
    Backend = backend
    RestartLimit = 1
    MaxExits = 2
INVARIANT TypeOK
INVARIANT HoldersBounded
INVARIANT AttemptsBounded
PROPERTY VerdictsStand
PROPERTY EveryJobSettles
PROPERTY StopReturns
PROPERTY Restarted
CHECK_DEADLOCK FALSE
