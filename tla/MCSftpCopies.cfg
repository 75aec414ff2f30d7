SPECIFICATION Spec
CONSTANTS
    d1 = d1
    d2 = d2
    n1 = n1
    n2 = n2
    Dirs = {d1, d2}
    Home = d1
    Names = {n1, n2}
    InitialFiles <- MCInitial
    Offered = {}
    MaxBatch = 1
    MaxActs = 4
    MaxSaves = 1
    MaxFails = 0
    MaxCancels = 0
    MaxEvents = 5
    MaxFrames = 2
INVARIANTS
    CopiesBelong
CHECK_DEADLOCK FALSE
