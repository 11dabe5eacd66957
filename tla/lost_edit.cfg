SPECIFICATION Spec
CONSTANTS
    Order <- MCOrder
    ChangeSets <- MCOverlapSets
    BadSets <- MCGood
    ComposeKey = FALSE
    EditsOverlap = TRUE
    DockerFails = FALSE
    ThreadFails = FALSE
    Crashable = {}
    MaxEdits = 2
    MaxCrashes = 0
INVARIANT SettledFilesFresh
CHECK_DEADLOCK FALSE
