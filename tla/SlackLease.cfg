SPECIFICATION Spec
CONSTANTS
    NumRuns = 2
    Workers = {w1, w2}
    Pages = 1
    DryRuns = {}
    WorkspaceRuns = {1}
    Owner <- OwnerEach
    Errors = {"transient", "rate", "fatal"}
    Removals = {"removed", "kept", "failed"}
    MaxJobs = 1
    None = None
INVARIANTS
    TypeOK
    OneAtATime
    UndoneLeavesNothing
PROPERTIES
    ProgressKept
    LeaseKept
VIEW View
SYMMETRY Symmetry
CHECK_DEADLOCK FALSE
