\* Every read operation by two clients; no thread refused, no waiter outlasted.
SPECIFICATION FairSpec
CONSTANTS
    Clients = {c1, c2}
    Refreshers = {r1, r2}
    NoThread = NoThread
    TTL = 1
    Ops <- Reads
    Primed = FALSE
    Misshapen <- None
    PromptWaiters = TRUE
    StartCanFail = FALSE
    MaxTime = 3
    MaxVersion = 2
    MaxCalls = 3
INVARIANTS
    FlagHasAnOwner
    ChildrenMatchParent
PROPERTIES
    NoFullReadWhileFresh
    CallsEnd
