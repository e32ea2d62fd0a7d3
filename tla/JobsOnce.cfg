SPECIFICATION Spec
CONSTANTS
    Jobs = {j1}
    Runners = {r1, r2}
    Concurrency = 2
    Attempts = 1
    GroupAttempts = 2
    DiscardExhausted = TRUE
    MaxLive = 2
    OperatorRetries = FALSE
    Results <- AllResults
    None = None
    j1 = j1
    r1 = r1
    r2 = r2
SYMMETRY Symmetry
INVARIANTS
    NoOverlap
    LossBudgetKept
CHECK_DEADLOCK FALSE
