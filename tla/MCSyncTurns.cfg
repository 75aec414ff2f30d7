CONSTANTS
    NoContent = NoContent
    Blank = Blank
    Devices = {d1, d2}
    MaxGists = 1
    Targets = {a, b}
    KeyContents = {}
    Pages = {n}
    TurnTaking = TRUE
    MaxEdits = 2
    MaxSyncs = 0
    MaxConnects = 2
    MaxToggles = 0
    MaxFaults = 1
    MaxEvents = 5
    MaxRev = 8
    Ids = {1, 2, 3}
    Contents = {a}
    MaxLocal = 3
    MaxRemote = 2
SPECIFICATION FairSpec
INVARIANT
    MergeLaws
PROPERTIES
    SyncSettles
CHECK_DEADLOCK FALSE
