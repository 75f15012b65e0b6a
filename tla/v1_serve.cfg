\* Version 1's server: bodies in pieces, hasty clients, one without a slot.
SPECIFICATION Spec
CONSTANTS
    f1 = f1
    f2 = f2
    f3 = f3
    k1 = k1
    k2 = k2
    Fds = {f1, f2, f3}
    High = {f3}
    Whole = {f1}
    Keys = {k1, k2}
    Requests <- MCRequests
    BufSize = 5
    MaxSent = 2
INVARIANTS
    ConnectionsApart
    StoredWhole
PROPERTIES
    Answered
CHECK_DEADLOCK FALSE
