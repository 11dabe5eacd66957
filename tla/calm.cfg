SPECIFICATION FairSpec
CONSTANTS
    Order <- MCOrderAll
    ChangeSets <- MCChangeSets
    BadSets <- MCGood
    ComposeKey = FALSE
    EditsOverlap = FALSE
    DockerFails = FALSE
    ThreadFails = FALSE
    Crashable = {}
    MaxEdits = 3
    MaxCrashes = 0
INVARIANTS TypeOK SettledConverged
PROPERTIES OnlyAffectedRestarted NeverObsolete Synchronised
CHECK_DEADLOCK FALSE
