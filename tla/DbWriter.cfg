SPECIFICATION Spec
CONSTANTS
    Records = {a}
    Readers = {r1}
    MaxOps = 3
    MaxTx = 2
    MaxDepth = 2
    MaxSaves = 2
INVARIANTS
    TypeOK
    OnlyCommitted
    CallbacksComplete
    JobsKept
    SettledFinal
    WriterFree
    ReuseIsCurrent
VIEW View
CHECK_DEADLOCK FALSE
