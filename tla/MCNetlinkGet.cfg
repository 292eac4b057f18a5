SPECIFICATION GetFairSpec
CONSTANTS
    Configs <- MCConfigs
    MaxItems = 3
    MaxChanges = 2
    MaxFaults = 1
    MaxNoMem = 1
    Keys = {"k", "m", "n"}
    Ips = {"a", "b", "c"}
    Secrets = {"s"}
    NULL = NULL
INVARIANTS
    GetReturnsSnapshot
    CoalescedPeersWhole
PROPERTY
    GetTerminates
CHECK_DEADLOCK FALSE
