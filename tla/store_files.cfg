\* The files through puts, deletions, stops and crashes at every step.
CONSTANTS
    w1 = w1
    w2 = w2
    k1 = k1
    k2 = k2
    Nil = Nil
    Workers = {w1, w2}
    Keys = {k1, k2}
    Requests <- FileTraffic
    MaxRequests = 5
    MaxCrashes = 2
    StartTime = 1
    MaxTime = 1
    IntMax = 15
SYMMETRY Symmetry
SPECIFICATION Spec
INVARIANTS
    Inductive
    RecordsOwned
    RecoveryExact
    AckedDurable
    NoResurrection
PROPERTIES
    ImplementsDurableMap
