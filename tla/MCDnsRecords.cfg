CONSTANTS
    Addrs = {a1, a2}
    Updaters = {u1, u2}
    Ids = {r1, r2, r3}
    None = None
SPECIFICATION Spec
INVARIANTS
    TypeOK
    RecordsBounded
    OkIsPublished
PROPERTIES
    ImplementsPublisher
