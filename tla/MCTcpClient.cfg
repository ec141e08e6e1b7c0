CONSTANTS
    Addrs = {a1, a2}
    S = 2
    Silent = {}
    None = None
SPECIFICATION Spec
INVARIANTS
    TypeOK
PROPERTIES
    ImplementsFeed
    StaysOnTrack
    TracksNat
    DeadConnectionDropped
    TasksEndTogether
    EveryServerSelected
CHECK_DEADLOCK FALSE
