SPECIFICATION FairSpec
CONSTANTS
    Order <- MCOrderShort
    ChangeSets <- MCWildSets
    BadSets <- MCWildBad
    ComposeKey = FALSE
    EditsOverlap = TRUE
    DockerFails = TRUE
    ThreadFails = TRUE
    Crashable = {"watcher", "gateway", "llamacpp"}
    MaxEdits = 2
    MaxCrashes = 1
PROPERTIES WatcherSurvives GatewayRecovers
CHECK_DEADLOCK FALSE
