SPECIFICATION CfgSpec
CONSTANTS
    Commands = {"setconf", "addconf", "set"}
    Vocabularies <- MCAll
    MaxStatements = 6
    Retries <- MCRetries
    MaxTries = 3
    KeyOrder <- MCKeyOrder
    Keys = {"k", "m"}
    Ips <- MCIps
    FamilyOf <- MCFamilyOf
    PlainEndpoint <- MCPlainEndpoint
    UINT32_MAX = 70000
    ULONG_MAX = 200000
    Lex <- MCLex
    Oversize = {}
    Numeric = {"1"}
    Base64 <- MCBase64
    Files <- MCFiles
    Secrets = {"psk", "priv", "zero"}
    Resolver <- MCResolver
    BAD = BAD
    NULL = NULL
INVARIANTS
    SaysWhatInputSays
    AcceptedPeersComplete
    RetriesAsAsked
    RoundTrip
CHECK_DEADLOCK FALSE
