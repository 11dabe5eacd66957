SPECIFICATION Spec
CONSTANTS
    l1 = l1
    l2 = l2
    Leaves = {l1, l2}
    Keys = {"a", "b"}
    Depth = 2
    Failed = Failed
    None = None
    Configs <- MCConfigs
    Segments <- MCSegments
    Pages <- MCPages
INVARIANTS LayersHold CyclesFound LocalMacrosWin Routable GroupsServed Supported DirectoriesProvisioned MacrosDefined ProxyServes
CHECK_DEADLOCK FALSE
