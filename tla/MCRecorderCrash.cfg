SPECIFICATION FairSpec
CONSTANTS
    FirstVersion = 1
    EndVersion = 4
    ChunkTransactionCounts = {2}
    MaxRawBytes = 100
    TxBytes = {1}
    MaxStreamRetries = 1
    Faults = {"crash"}
    MaxFaults = 1
PROPERTY
    EventuallyArchived
