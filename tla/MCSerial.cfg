CONSTANTS
    BlockModulus = 3
    MaxRetries = 2
    Files <- MCFiles
    MaxKeys = 1
    MaxTransfers = 1
    MaxNoise = 2
    MaxLate = 1
    MaxFailures = 1
SPECIFICATION FairSpec
INVARIANTS
    DeliveredIsPrefix
    DialogIsHonest
    TransferOwnsLine
PROPERTIES
    DialogCloses
CHECK_DEADLOCK FALSE
