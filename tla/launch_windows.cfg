SPECIFICATION Spec
CONSTANTS
    p1 = p1
    p2 = p2
    p3 = p3
    p4 = p4
    c1 = c1
    c2 = c2
    Pids <- MCPids
    Callers <- MCTwoCallers
    Posix = FALSE
    NginxEnabled = TRUE
    Sequential = TRUE
    Raises = TRUE
    CallerDies = FALSE
    ServiceDies = FALSE
    Recycles = FALSE
    MaxCommands = 4
    MaxFaults = 0
SYMMETRY MCSymmetry
PROPERTY StartMeans
CHECK_DEADLOCK FALSE
