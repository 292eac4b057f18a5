SPECIFICATION MonSpec
CONSTANTS
    Scenarios <- MCScenarios
    Gateways = {"g1"}
    Endpoints = {"e4", "e6"}
    FamilyOf <- MCFamilyOf
    Services = {"wifi", "lan"}
    NULL = NULL
    MaxFaults = 1
INVARIANTS DirectRoutes NothingLeft
PROPERTIES Settles DaemonLeaves
