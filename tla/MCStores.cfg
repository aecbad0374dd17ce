CONSTANTS
    None = None
    p1 = p1
    p2 = p2
    v1 = v1
    v2 = v2
    e1 = e1
    e2 = e2
    Procs <- TwoProcs
    Workspaces = {1, 2}
    Keys = {11, 12}
    Deltas <- Reports
    MaxObservers = 1
    MaxAgents = 1
    MaxSessions = 2
    MaxWorkspaces = 2
    MaxPerWorkspace = 2
    Budget = 1
    EndedRetention = 0
    OpenRetention = 1
    MaxTime = 2
    MaxMerges = 3
    MaxPrunes = 1
    MaxCrashes = 1
SPECIFICATION StoresSpec
SYMMETRY Alike
INVARIANTS
    IndexedByWorkspace
    EventsReachViewers
PROPERTIES
    ImplementsIndex
    RecordsGrow
CHECK_DEADLOCK FALSE
