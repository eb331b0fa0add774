\* Requests and batches of every kind, by users the pool lends it to in turn.
SPECIFICATION Spec
CONSTANTS
    Names <- AllNames
    NoName = NoName
    Fold <- Lower
    Readable <- Words
    TempTables = {x}
    SqlToo = TRUE
    MaxMessages = 5
INVARIANTS
    NothingOutlivesItsTransaction
    NothingOutlivesItsUser
    DescriptorsArePaired
    ToldWhatIsHeld
PROPERTIES
    DescriptorsAreFresh
CHECK_DEADLOCK FALSE
