\* Commands, a stop at any moment and a restart of version 1.
SPECIFICATION Spec
CONSTANTS
    Keys <- ThreeKeys
    InitialCap = 2
    MaxCommands = 3
    MaxStops = 1
INVARIANTS
    StoreSound
    GetExact
    AckedSurvive
