CONSTANTS
    SshIds = {s}
    TelnetIds = {t}
    Sizes = {80, 132}
    MaxResizes = 1
    MaxReconnects = 1
SPECIFICATION FairSpec
INVARIANTS
    DirectoryConsistent
    PtyHasLastSize
    ShownIsTrue
PROPERTY
    SessionsSettle
CHECK_DEADLOCK FALSE
