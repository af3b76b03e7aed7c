SPECIFICATION Spec
CONSTANTS
    Contents <- FewContents
    Timestamp <- MCTimestamp
    NoValue = NoValue
    m1 = m1
    m2 = m2
    a1 = a1
    a2 = a2
    b = b
    MaxEvents = 2
    TxEvents = 2
    UniqueFills = TRUE
    Loader = "ingest"
    Loaded = {"rocksdb"}
    Faults = {"kill", "error"}
    MaxFaults = 1
INVARIANTS
    EnginesTypeOK
    RerunIsFresh
    IndexesAgree
