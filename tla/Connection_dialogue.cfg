\* One client of either kind, its packets falling into reads in every way,
\* and one packet out of place.
SPECIFICATION FairSpec
CONSTANTS
    MaxRequests = 2
    MaxStrays = 1
    MaxUnread = 3
INVARIANTS
    NeverBothWaiting
    AnswersInOrder
    NotCutOff
    ReadableByTheClient
PROPERTIES
    EveryWaitEnds
CHECK_DEADLOCK FALSE
