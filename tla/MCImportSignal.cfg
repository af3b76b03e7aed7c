SPECIFICATION SignalSpec
CONSTANTS
    MaxRaw = 2
    RowFiles = 1
    QueryFiles = 1
    Formats = {"protobuf"}
    LiveRecorder = FALSE
    Kills = FALSE
    MaxKills = 0
    Pids = {p}
    ForceNormalize = {TRUE}
    ForceReplace = {TRUE}
    Faults = {"signal"}
    MaxFaults = 1
PROPERTY
    ForceOnlyReplaces
