SPECIFICATION Spec
CONSTANTS
    Contents <- FewContents
    Timestamp <- MCTimestamp
    NoValue = NoValue
    m1 = m1
    m2 = m2
    a1 = a1
    a2 = a2
    b = b
    MaxEvents = 3
    TxEvents = 2
    UniqueFills = TRUE
    Loader = "ingest"
    Loaded = {"memory"}
    Faults = {}
    MaxFaults = 0
INVARIANTS
    SameChecksums
