\* Two clients against a server that is stopped and started, with timeouts.
SPECIFICATION Spec
CONSTANTS
    c1 = c1
    c2 = c2
    k1 = k1
    k2 = k2
    Clients = {c1, c2}
    Keys = {k1, k2}
    Present = {k1}
    Calls <- MCCalls
    CacheCas = TRUE
    MaxCalls = 3
    MaxTroubles = 2
INVARIANTS
    Consistent
    AnswersTrue
    AtMostOnce
    CasUnaltered
    ReadsOwnWrites
PROPERTIES
    NoLateEffects
    CallsReturn
CHECK_DEADLOCK FALSE
