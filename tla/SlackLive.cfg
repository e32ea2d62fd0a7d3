SPECIFICATION FairSpec
CONSTANTS
    NumRuns = 2
    Workers = {w1}
    Pages = 1
    DryRuns = {2}
    WorkspaceRuns = {}
    Owner <- OwnerEach
    Errors = {}
    Removals = {"removed"}
    MaxJobs = 1
    None = None
PROPERTIES
    RunEnds
CHECK_DEADLOCK FALSE
