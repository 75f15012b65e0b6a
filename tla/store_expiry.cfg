\* An expired record is replaced between a get and its deletion.
CONSTANTS
    w1 = w1
    w2 = w2
    k1 = k1
    k2 = k2
    Nil = Nil
    Workers = {w1, w2}
    Keys = {k1}
    Requests <- ExpiryTraffic
    MaxRequests = 3
    MaxCrashes = 0
    StartTime = 2
    MaxTime = 3
    IntMax = 15
SPECIFICATION Spec
PROPERTIES
    ExpiryRemovesOnlyExpired
