SPECIFICATION Spec
CONSTANTS
    NumRuns = 3
    Workers = {w1}
    Pages = 3
    DryRuns = {}
    WorkspaceRuns = {1, 2, 3}
    Owner <- OwnerEach
    Errors = {}
    Removals = {"removed", "kept"}
    MaxJobs = 1
    None = None
INVARIANTS
    UndoneLeavesNothing
    CompletedIsWhole
VIEW View
CHECK_DEADLOCK FALSE
