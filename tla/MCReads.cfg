SPECIFICATION FairSpec
CONSTANTS
    Contents <- MCContents
    Timestamp <- MCClock
    NoValue = NoValue
    m1 = 1
    m2 = 2
    a1 = 1
    a2 = 2
    b = 1
    NotANumber = NotANumber
    Notional <- MCNotional
    Fee <- MCFee
    Durations = {1, 2}
    MaxUnits = 310
    MaxEvents = 2
    TxEvents = 2
    UniqueFills = TRUE
    Loader = "replay"
    Loaded = {"rocksdb", "memory"}
    Faults = {"kill", "error"}
    MaxFaults = 1
INVARIANTS
    PublishedWhole
    SameChecksums
    VolumeCounts
    VolumeExact
    LatestIsRead
PROPERTY
    ReplaysCatchUp
