SPECIFICATION FairSpec
CONSTANTS
    p1 = p1
    p2 = p2
    p3 = p3
    p4 = p4
    c1 = c1
    c2 = c2
    Pids <- MCThreePids
    Callers <- MCTwoCallers
    Posix = TRUE
    NginxEnabled = TRUE
    Sequential = FALSE
    Raises = TRUE
    CallerDies = TRUE
    ServiceDies = TRUE
    Recycles = TRUE
    MaxCommands = 2
    MaxFaults = 1
PROPERTY CommandsEnd
CHECK_DEADLOCK FALSE
