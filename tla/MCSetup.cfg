CONSTANTS
    e1 = e1
    e2 = e2
    e3 = e3
    Entries = {e1, e2, e3}
    None = None
    Configs <- MCConfigs
    Ports <- MCPorts
SPECIFICATION SetupSpec
INVARIANTS
    TypeOKSetup
    CleanExit
    SetupPanicsOnlyForHostname
    PanicsOnlyForSecret
    ClientsAreUsable
    LookupFindsRecord
    ExampleIsEnough
PROPERTIES
    ShutdownEnds
CHECK_DEADLOCK FALSE
