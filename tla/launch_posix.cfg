SPECIFICATION Spec
CONSTANTS
    p1 = p1
    p2 = p2
    p3 = p3
    p4 = p4
    c1 = c1
    c2 = c2
    Pids <- MCPids
    Callers <- MCTwoCallers
    Posix = TRUE
    NginxEnabled = FALSE
    Sequential = TRUE
    Raises = TRUE
    CallerDies = FALSE
    ServiceDies = TRUE
    Recycles = FALSE
    MaxCommands = 4
    MaxFaults = 2
SYMMETRY MCSymmetry
INVARIANTS OneProcess StatusTruthful
PROPERTY StopReaches
CHECK_DEADLOCK FALSE
