CONSTANTS
    None = None
    k1 = k1
    s1 = s1
    Keys <- OneKey
    MaxRequests = 2
    MaxVersion = 2
    CommandCap = 2
    WriterCap = 3
    FrameCap = 2
    MaxRetired = 2
    MaxAttempts = 2
    Targets = {"file"}
    Followed = {"file"}
    Outer = {"other"}
    Inside = {}
    ByName <- OpenNames
    Labels = {"tree"}
    Objects = {1}
    Heads = {"bytes", "script"}
    Stamps = {1, 2}
    Window = 2
    Dedup = 1
    MaxOrders = 2
    MaxChanges = 2
    MaxTime = 0
SPECIFICATION ProgramsSpec
INVARIANTS
    AnswersFit
    OneProcessPerKey
    CleanupsAreProven
    OpensAreMeant
PROPERTIES
    EveryRequestIsAnswered
CHECK_DEADLOCK FALSE
