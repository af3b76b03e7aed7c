SPECIFICATION Spec
CONSTANTS
    FirstVersion = 1
    EndVersion = 4
    ChunkTransactionCounts = {1, 2, 3}
    MaxRawBytes = 5
    TxBytes = {1, 2}
    MaxStreamRetries = 1
    Faults = {"crash", "error", "end"}
    MaxFaults = 4
INVARIANTS
    TypeOK
    CheckpointSound
    NormalizesUnlessOrphaned
    ByteBudget
    QueryKeysStored
PROPERTIES
    OnlyCrashOrphans
    CursorNeverMovesBack
    ImplementsArchive
