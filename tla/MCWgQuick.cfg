SPECIFICATION WgqSpec
CONSTANTS
    Ifaces = {"w0", "w1"}
    Procs = {"p", "q"}
    NULL = NULL
    AUTO = AUTO
    OFF = OFF
    Scenarios <- MCScenarios
    UserTables = {5182}
    MaxFails = 1
    MaxSignals = 1
INVARIANTS
    NoLoop
    UpAllOrNothing
    
    ConfigFileWhole
    UpStaysUp
PROPERTY
    CommandsEnd
