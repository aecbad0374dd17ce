CONSTANTS
    x1 = x1
    tab = tab
    main = main
    notes = notes
    outside = outside
    Chars = {x1}
    TabChar = tab
    Pastes <- PasteTwoLines
    FileText <- TwoLines
    OtherText <- OtherLine
    MaxUndo = 3
    Window = 0
    MaxSteps = 6
    MaxTicks = 0
    MaxForeign = 0
    None = None
    MaxTabs = 2
    MaxBorn = 2
    QuitWindow = 1
    MaxTime = 2
    Habits = {{}}
SPECIFICATION EditingSpec
INVARIANTS
    RedoFitsText
CHECK_DEADLOCK FALSE
