SPECIFICATION FairSetSpec
CONSTANTS
    Devices <- MCDevices
    Ifaces <- MCIfaces
    SOCKET_BUFFER_SIZE = 216
    IFNAME_LEN = 3
    Keys = {"k", "m"}
    Ips = {"a", "b", "c"}
    Secrets = {"psk", "old", "zero"}
    OtherKeys = {"k"}
    OtherIps = {"a"}
    MaxOthers = 1
    MaxRuns = 2
    NULL = NULL
INVARIANTS
    RemovedStaysRemoved
    SuccessAppliesConfig
    TypeOK
    AppliedInOrder
    SuccessMeansApplied
    WithinBuffer
    MessageMakesProgress
PROPERTY
    ImplementsOrderedUpdate
    Terminates
CHECK_DEADLOCK FALSE
