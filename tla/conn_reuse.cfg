\* A descriptor is given to a new connection before its old slot is emptied.
CONSTANTS
    f1 = f1
    f2 = f2
    Fds = {f1}
    Commands <- Sets
    Unit = 3
    PoolSize = 6
    ValueLimit = 1
    MaxConns = 2
    MaxCommands = 1
SPECIFICATION Spec
INVARIANTS
    BodyIsThere
