SPECIFICATION Spec
CONSTANTS
    Jobs = {j1}
    Runners = {r1, r2}
    Concurrency = 1
    Attempts = 2
    GroupAttempts = 2
    DiscardExhausted = TRUE
    MaxLive = 2
    OperatorRetries = TRUE
    Results <- AllResults
    None = None
    j1 = j1
    r1 = r1
    r2 = r2
SYMMETRY Symmetry
INVARIANTS
    TypeOK
    RowsConsistent
    ClaimIdentifiesExecution
    PerformingCoversExecutions
    GroupBudgetKept
CHECK_DEADLOCK FALSE
