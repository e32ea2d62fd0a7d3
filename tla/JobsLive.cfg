SPECIFICATION FairSpec
CONSTANTS
    Jobs = {j1, j2}
    Runners = {r1, r2}
    Concurrency = 1
    Attempts = 2
    GroupAttempts = 1
    DiscardExhausted = TRUE
    MaxLive = 1
    OperatorRetries = FALSE
    Results <- LivelyResults
    None = None
    j1 = j1
    j2 = j2
    r1 = r1
    r2 = r2
INVARIANTS
    ConcurrencyKept
PROPERTIES
    WaitingJobIsClaimed
    OrphanIsTakenBack
    JobSettles
CHECK_DEADLOCK FALSE
