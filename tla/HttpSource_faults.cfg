\* Every operation and every fault: threads refused, waiters outlasted, a response that makes no table.
SPECIFICATION Spec
CONSTANTS
    Clients = {c1, c2}
    Refreshers = {r1, r2, r3}
    NoThread = NoThread
    TTL = 1
    Ops <- AllOps
    Primed = TRUE
    Misshapen <- SecondOnly
    PromptWaiters = FALSE
    StartCanFail = TRUE
    MaxTime = 3
    MaxVersion = 3
    MaxCalls = 4
SYMMETRY Symmetry
INVARIANTS
    OneFetchAtATime
    ReadsDoNotGoBack
