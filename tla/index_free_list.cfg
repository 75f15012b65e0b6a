\* A deletion that climbs along the parent number remove_node left behind.
CONSTANTS
    Keys <- BranchKeys
    Probes <- BranchKeys
    Values = {1}
    InitialCap = 2
    MaxCalls = 6
    ScanCalls = 0
SPECIFICATION Spec
INVARIANTS
    FreedAreReusable
