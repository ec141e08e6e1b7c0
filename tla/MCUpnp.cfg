CONSTANTS
    MAPPING_DURATION = 8
    MaxGap = 2
SPECIFICATION Spec
INVARIANTS
    TypeOK
    LeaseAlive
    OutageBounded
    ReleasedIsUnmapped
