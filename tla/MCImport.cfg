SPECIFICATION ImportFairSpec
CONSTANTS
    MaxRaw = 2
    RowFiles = 1
    QueryFiles = 1
    Formats = {"protobuf"}
    LiveRecorder = FALSE
    Kills = TRUE
    MaxKills = 1
    Pids = {p, q}
    ForceNormalize = {TRUE, FALSE}
    ForceReplace = {TRUE, FALSE}
    Faults = {"error", "kill"}
    MaxFaults = 2
INVARIANTS
    ImportTypeOK
    MatchedPair
PROPERTIES
    ImplementsPublication
    ImportCatchesUp
