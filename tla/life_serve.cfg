\* A server that starts up, serves and is asked to stop at any moment.
SPECIFICATION Spec
CONSTANTS
    n1 = n1
    n2 = n2
    Workers <- MCWorkers
    Conns <- MCConns
    MaxFd = 6
INVARIANTS
    LifeInv
PROPERTIES
    StopEnds
    FilesIntact
    NoAcceptAfterStop
    RequestsRead
