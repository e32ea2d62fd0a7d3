SPECIFICATION Spec
CONSTANTS
    Users = {u1, u2}
    Jobs = {j1, j2}
    Limit = 1
    Tries = 2
    MaxCommits = 3
INVARIANTS
    TypeOK
    NoRowUndoes
    
PROPERTIES
    FeedKept
SYMMETRY Symmetry
CHECK_DEADLOCK FALSE
