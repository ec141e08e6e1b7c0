CONSTANTS
    Addrs = {a1}
    S = 2
    Silent = {0}
    None = None
SPECIFICATION Spec
PROPERTIES
    EveryServerSelected
CHECK_DEADLOCK FALSE
