SPECIFICATION Spec
CONSTANTS
    Conns = {c1}
    MaxLog = 3
    None = None
INVARIANTS
    TypeOK
    NoSurvivor
    FollowEnds
PROPERTIES
    CutOff
    FollowKept
CHECK_DEADLOCK FALSE
