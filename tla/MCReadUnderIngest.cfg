SPECIFICATION ReadFairSpec
CONSTANTS
    Contents <- MCContents
    Timestamp <- MCTimestamp
    NoValue = NoValue
    MaxEvents = 2
    TxEvents = 2
    UniqueFills = TRUE
    Loader = "read_under_ingest"
    Loaded = {"rocksdb", "memory"}
    Faults = {"kill", "error"}
    MaxFaults = 1
    Iterations = 2
    Concurrency = 2
    Warmup = 1
    MultiGetSize = 2
INVARIANTS
    ReportMeansLoaded
    LoadedNeverMisses
    EveryIndexOnce
    ScansAgree
    BuilderHasFill
PROPERTY
    GatePassesAgain
