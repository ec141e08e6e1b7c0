CONSTANTS
    Addrs = {a1, a2}
    N = 3
    None = None
SPECIFICATION Spec
INVARIANTS
    TypeOK
    SyncedPrefix
PROPERTIES
    NoGroundLost
    Converges
    ShutdownCompletes
CHECK_DEADLOCK FALSE
