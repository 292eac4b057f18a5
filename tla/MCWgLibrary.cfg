SPECIFICATION LibSpec
CONSTANTS
    Keys = {"k", "m"}
    Ips = {"a", "b", "c"}
    Secrets = {"s"}
    NULL = NULL
    FOREIGN = FOREIGN
    Names = {"wgtest0", "wg1"}
    Target = "wgtest0"
    Devices <- MCDevices
    Ifaces <- MCIfaces
    MaxItems = 2
    MaxChanges = 2
    MaxFaults = 1
INVARIANTS
    LibSetApplies
    LibNamesFaithful
    LibGetFaithful
PROPERTIES
    LibOthersKept
    LibEndsUninterrupted
