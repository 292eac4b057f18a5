SPECIFICATION IpcSpec
CONSTANTS
    Platforms = {"openbsd"}
    NameOrder <- MCNameOrder
    Kernels <- MCKernels
    KernelConfs <- MCKernelConfs
    Sockets <- MCSockets
    DaemonConfs <- MCDaemonConfs
    Wanted <- MCWanted
    FOREIGN = FOREIGN
    MaxRunning = 1
    MaxEvents = 2
    KeyOrder <- MCKeyOrder
    Keys = {"p", "q"}
    Ips = {"a", "b"}
    Secrets = {"key", "psk", "zero"}
    NULL = NULL
INVARIANT
    ShowIsCurrent
