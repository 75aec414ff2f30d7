SPECIFICATION Spec
CONSTANTS
    p1 = p1
    p2 = p2
    k1 = k1
    s1 = s1
    s2 = s2
    ProfileIds = {p1, p2}
    StoredKeyIds = {k1}
    Secrets = {s1, s2}
    Inputs <- MCInputs
    RemotePayloads <- MCRemote
    Installs = {"fresh", "old"}
    LegacyProfiles <- MCLegacy
    OldProfiles <- MCOld
    MaxSaves = 3
    MaxFaults = 1
    MaxCrashes = 1
    MaxOutages = 1
    MaxEvents = 4
INVARIANTS
    KeyOpensVault
    SavedIsWhatWasAsked
    BystandersKeepSecrets
    MigrationKeepsPassphrases
PROPERTIES
    WritesKeepTheRest
CHECK_DEADLOCK FALSE
