SPECIFICATION SyncSpec
CONSTANTS
    Files <- MCFiles
    Ifaces <- MCIfaces
    KeyOrder <- MCKeyOrder
    Keys = {"k", "m", "n"}
    Ips = {"a", "b"}
    Secrets = {"key", "psk", "old", "zero"}
    OtherKeys = {"m", "n"}
    MaxOthers = 2
    NULL = NULL
INVARIANTS
    SyncLikeSetconf
    SyncKeepsSessions
    SyncSparesNewPeers
CHECK_DEADLOCK FALSE
