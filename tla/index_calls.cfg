\* The nodes, the free list, lookups and scans, through puts and deletions.
CONSTANTS
    Keys <- DeepKeys
    Probes <- DeepProbes
    Values = {1}
    InitialCap = 2
    MaxCalls = 8
    ScanCalls = 6
SPECIFICATION Spec
INVARIANTS
    WellFormed
    ScansExact
    NodesAccounted
    LookupExact
