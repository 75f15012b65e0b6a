\* What a full disk leaves alone: two writes that fail, a process that is
\* killed once at any step, and any number of stops.
CONSTANTS
    w1 = w1
    w2 = w2
    k1 = k1
    k2 = k2
    Nil = Nil
    Workers = {w1, w2}
    Keys = {k1, k2}
    Requests <- FaultTraffic
    MaxRequests = 3
    MaxCrashes = 1
    MaxFaults = 2
    StartTime = 2
    MaxTime = 3
    IntMax = 15
SYMMETRY Symmetry
SPECIFICATION FaultSpec
INVARIANTS
    IndexIsolation
    FaultsContained
