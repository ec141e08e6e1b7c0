CONSTANTS
    MAPPING_DURATION = 12
    Addrs = {a1, a2}
    N = 1
    None = None
    Periodic = FALSE
    Interval = 1
    Handling = 1
    Failures = 1
SPECIFICATION Spec
INVARIANTS
    PortStaysMapped
