CONSTANTS
    NoContent = NoContent
    Blank = Blank
    Devices = {d1, d2}
    MaxGists = 1
    Targets = {a, b}
    KeyContents = {k}
    Pages = {n, m}
    TurnTaking = FALSE
    MaxEdits = 3
    MaxSyncs = 1
    MaxConnects = 2
    MaxToggles = 2
    MaxFaults = 1
    MaxEvents = 5
    MaxRev = 3
SYMMETRY Symmetry
SPECIFICATION Spec
INVARIANTS
    OneOperationAtATime
    ActivePolls
    PushCarriesNextRevision
PROPERTIES
    PauseStopsTraffic
    JoinKeepsBoth
    WaitingEditsSurvive
CHECK_DEADLOCK FALSE
