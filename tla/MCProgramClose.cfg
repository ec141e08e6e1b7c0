CONSTANTS
    Entries = {}
SPECIFICATION Spec
INVARIANTS
    CloseIsHeard
CHECK_DEADLOCK FALSE
