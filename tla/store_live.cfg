\* Commands that read, decide and write, through a crash and clean stops.
CONSTANTS
    w1 = w1
    w2 = w2
    k1 = k1
    k2 = k2
    Nil = Nil
    Workers = {w1, w2}
    Keys = {k1}
    Requests <- LiveTraffic
    MaxRequests = 3
    MaxCrashes = 1
    StartTime = 1
    MaxTime = 2
    IntMax = 15
SPECIFICATION FairSpec
INVARIANTS
    IInv
    ReadsFresh
PROPERTIES
    Progress
    CasUnaltered
    CountExact
