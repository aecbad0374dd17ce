CONSTANTS
    c1 = c1
    c2 = c2
    v1 = v1
    v2 = v2
    p1 = p1
    main = main
    notes = notes
    outside = outside
    Instances = {1}
    Clients <- TwoClients
    Depth <- OneRoot
    Inside <- NotBelow
    Directory = FALSE
    Slots = 1
    MaxTabs = 2
    MaxAttempts = 1
    None = None
SPECIFICATION ProgressSpec
INVARIANTS
    ListsFitContracts
PROPERTIES
    EveryCommandEnds
    ListsKeepComing
    LoadingEnds
CHECK_DEADLOCK FALSE
