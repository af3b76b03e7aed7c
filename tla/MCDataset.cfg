SPECIFICATION DatasetSpec
CONSTANTS
    MaxRaw = 3
    RowFiles = 2
    QueryFiles = 2
    Formats = {"protobuf", "fixture"}
    LiveRecorder = FALSE
    Kills = TRUE
    MaxKills = 3
INVARIANTS
    DatasetTypeOK
    LoadsOneNormalization
    ValidMeansCoherent
PROPERTY
    NormalizeRepairs
