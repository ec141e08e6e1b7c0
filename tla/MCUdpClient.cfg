CONSTANTS
    Addrs = {a1, a2}
    S = 2
    Ids = {t1, t2}
    MaxNet = 3
    Burst = 2
    None = None
SPECIFICATION Spec
INVARIANTS
    TypeOK
PROPERTIES
    ImplementsFeed
    StaysOnTrack
    TracksNat
    EndsWithMapper
    EveryServerSelected
CHECK_DEADLOCK FALSE
