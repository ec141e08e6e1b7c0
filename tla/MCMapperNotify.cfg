CONSTANTS
    Addrs = {a1}
    N = 2
    None = None
SPECIFICATION ScheduledSpec
PROPERTIES
    EveryWatcherNotified
CHECK_DEADLOCK FALSE
