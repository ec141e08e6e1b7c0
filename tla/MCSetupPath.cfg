CONSTANTS
    e1 = e1
    e2 = e2
    e3 = e3
    Entries = {e1, e2, e3}
    None = None
    Configs <- MCConfigsPath
    Ports <- MCPorts
SPECIFICATION SetupSpec
INVARIANTS
    PlaceholdersReplaced
CHECK_DEADLOCK FALSE
