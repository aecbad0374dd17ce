CONSTANTS
    x1 = x1
    tab = tab
    main = main
    notes = notes
    outside = outside
    Chars = {x1}
    TabChar = tab
    Pastes <- PasteTwoLines
    FileText <- TwoLines
    OtherText <- OtherLine
    MaxUndo = 2
    Window = 0
    MaxSteps = 5
    MaxTicks = 1
    MaxForeign = 1
    None = None
    MaxTabs = 2
    MaxBorn = 2
    QuitWindow = 1
    MaxTime = 2
    Habits <- ShellHabits
SPECIFICATION EditingSpec
INVARIANTS
    UndoIsSound
    UnmodifiedIsBaseline
    LoadsAreAwaited
    MessagesAndOutlinesAreExact
    ShellIsSound
PROPERTIES
    SaveDetectsConflict
    CompletionsFit
    LossIsAnnounced
CHECK_DEADLOCK FALSE
