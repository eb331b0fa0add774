SPECIFICATION Spec
CONSTANTS
    c1 = c1
    c2 = c2
    Clients = {c1, c2}
    Hosts <- MCHosts
    Words <- MCWords
    Configurations <- MCConfigurations
    MaxDepth = 2
    Concurrency = 2
    MaxLost = 1
INVARIANTS
    AsksOnceOnTheSurface
    ReachableIsAsked
    NamesWin
    ListsEveryTable
CHECK_DEADLOCK FALSE
