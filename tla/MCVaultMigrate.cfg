SPECIFICATION Spec
CONSTANTS
    p1 = p1
    p2 = p2
    k1 = k1
    s1 = s1
    s2 = s2
    ProfileIds = {p1, p2}
    StoredKeyIds = {k1}
    Secrets = {s1, s2}
    Inputs <- MCInputs
    RemotePayloads <- MCRemote
    Installs = {"legacy"}
    LegacyProfiles <- MCLegacy
    OldProfiles <- MCOld
    MaxSaves = 1
    MaxFaults = 0
    MaxCrashes = 0
    MaxOutages = 0
    MaxEvents = 1
INVARIANTS
    LegacyIsMigrated
CHECK_DEADLOCK FALSE
