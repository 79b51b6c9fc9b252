SPECIFICATION CorrelationSpec
CONSTANTS
    Ips = {src1, src2}
    Hosts = {"host"}
    Classes = {"scan", "brute"}
    Patterns <- TwoStages
    MaxPerIp = 2
    MaxPerHost = 2
    MaxGlobal = 2
    MaxCampaigns = 2
    MaxSources = 2
    RepeatThreshold = 2
    RepeatPeriod = 0
    SourceThreshold = 2
    DistWindow = 0
    SlowThreshold = 2
    SlowWindow = 1
    Scores = {"low", "high"}
    MaxClock = 1
INVARIANTS StoresAgree MultiStageSound SeriousAlertsInCampaign
CHECK_DEADLOCK FALSE
SYMMETRY SourceSymmetry
