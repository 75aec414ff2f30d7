SPECIFICATION Spec
CONSTANTS
    d1 = d1
    d2 = d2
    n1 = n1
    n2 = n2
    Dirs = {d1, d2}
    Home = d1
    Names = {n1, n2}
    InitialFiles <- MCInitial
    Offered = {"download", "put", "mkdir", "remove", "rename"}
    MaxBatch = 2
    MaxActs = 3
    MaxSaves = 2
    MaxFails = 1
    MaxCancels = 1
    MaxEvents = 4
    MaxFrames = 2
INVARIANTS
    NeverStuck
    BusyWhileWorking
    SyncedWhenQuiet
PROPERTIES
    CancelStops
CHECK_DEADLOCK FALSE
