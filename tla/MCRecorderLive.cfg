SPECIFICATION FairSpec
CONSTANTS
    FirstVersion = 1
    EndVersion = 4
    ChunkTransactionCounts = {1, 2, 3}
    MaxRawBytes = 100
    TxBytes = {1}
    MaxStreamRetries = 1
    Faults = {"crash", "error"}
    MaxFaults = 3
PROPERTIES
    ArchivedUnlessOrphaned
    ScriptSucceeds
