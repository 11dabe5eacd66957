SPECIFICATION Spec
CONSTANTS
    Order <- MCOrderMcp
    ChangeSets <- MCFaultSets
    BadSets <- MCBadSets
    ComposeKey = TRUE
    EditsOverlap = FALSE
    DockerFails = TRUE
    ThreadFails = FALSE
    Crashable = {"gateway", "llamacpp", "vllm"}
    MaxEdits = 2
    MaxCrashes = 1
INVARIANT SettledFilesFresh
CHECK_DEADLOCK FALSE
