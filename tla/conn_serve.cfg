\* Streams cut up anywhere, pipelined commands, partial sends, closed and reset connections.
CONSTANTS
    f1 = f1
    f2 = f2
    Fds = {f1, f2}
    Commands <- AllKinds
    Unit = 3
    PoolSize = 5
    ValueLimit = 1
    MaxConns = 2
    MaxCommands = 2
SPECIFICATION FairSpec
INVARIANTS
    SlotsSound
    FramedExactly
    RepliesInOrder
    PoolAccounted
PROPERTIES
    Progress
