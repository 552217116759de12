SPECIFICATION FairSpec
CONSTANTS
    Requests = {1, 2}
    WorkOf <- WorkOf_2
    ReleaseOf <- ReleaseOf_2
    AutoGrabs = {1, 2}
    Eligible = {1, 2}
    Hosts <- Hosts_west
    Lookback = 1
    MaxClock = 2
    MaxUserJobs = 1
    MaxLate = 1
    MaxFaults = 1
INVARIANT TypeOK
 
INVARIANT WatermarkSafe
PROPERTY FreshGrabbed
CHECK_DEADLOCK FALSE
