\* Batches of every construct, with errors of every kind raised in them.
SPECIFICATION FairSpec
CONSTANTS
    Names <- NoNames
    NoName = NoName
    Fold <- NoFold
    Readable <- NoNames
    TempTables = {x}
    Fails <- Failing
    TranKinds <- BeginEnd
    MaxTurns = 2
    MaxBatches = 1
    MaxStatements = 5
    MaxDepth = 4
INVARIANTS
    CaughtInItsCatchOnly
    TextLeavesNoTable
    TellsWhatHappened
PROPERTIES
    TryingIsSilent
    OnlyTheEndOfABatchRollsBack
    MismatchIsTold
    EveryBatchEnds
CHECK_DEADLOCK FALSE
