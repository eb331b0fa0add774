\* Every kind of API behind the paginated source; one failure anywhere.
SPECIFICATION FairSpec
CONSTANTS
    s1 = s1
    s2 = s2
    h1 = h1
    h2 = h2
    Sources = {s1, s2}
    Hosts = {h1, h2}
    Urls <- TwoMirrors
    Apis <- EveryApi
    Permits = 1
    PageWorkers = 2
    MaxPages = 4
    MaxRows = 5
    PageRows = 2
    MaxFaults = 1
INVARIANTS
    SpeculationIsHarmless
PROPERTIES
    ReadsTheCollection
    EveryReadEnds
