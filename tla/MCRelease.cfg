SPECIFICATION ReleaseSpec
CONSTANTS
    MaxRaw = 2
    RowFiles = 1
    QueryFiles = 2
    Formats = {"protobuf"}
    LiveRecorder = FALSE
    Kills = FALSE
    MaxKills = 0
    Pids = {p}
    ForceNormalize = {TRUE}
    ForceReplace = {TRUE}
    Faults = {"signal"}
    MaxFaults = 1
    Workloads = 2
    Rowless <- MCRowless
    Queryless <- MCQueryless
    ByHandWorkloads = {1}
    MaxByHand = 1
INVARIANTS
    GatedReportServedRows
    QuietSuiteIsOneDataset
PROPERTIES
    QuietSuiteMakesPackage
VIEW MCView
