SPECIFICATION FairSpec
CONSTANTS
    Works = {w1}
    Searched = {w1}
    Authors = {a1}
    Workers = {e1, e2}
    Callers = {c1}
    MaxAttempts = 2
    MaxPerExpand = 1
    MaxPerSearch = 1
    MaxRows = 3
    Posted <- Posted_1
    w1 = w1
    a1 = a1
    MaxTroubles = 1
INVARIANT TypeOK
INVARIANT OneLivePerKey
INVARIANT RunsBounded
INVARIANT StrandedCounted
PROPERTY LedgerSpec
PROPERTY EveryJobSettles
CHECK_DEADLOCK FALSE
