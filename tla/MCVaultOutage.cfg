SPECIFICATION Spec
CONSTANTS
    p1 = p1
    p2 = p2
    k1 = k1
    s1 = s1
    s2 = s2
    ProfileIds = {p1, p2}
    StoredKeyIds = {k1}
    Secrets = {s1, s2}
    Inputs <- MCInputs
    RemotePayloads <- MCRemote
    Installs = {"fresh"}
    LegacyProfiles <- MCLegacy
    OldProfiles <- MCOld
    MaxSaves = 2
    MaxFaults = 0
    MaxCrashes = 0
    MaxOutages = 1
    MaxEvents = 3
INVARIANTS
    VaultOpensAfterOutage
CHECK_DEADLOCK FALSE
