SPECIFICATION MCSpec
CONSTANTS
    j1 = j1
    j2 = j2
    t1 = t1
    Jobs = {j1, j2}
    Turns = {t1}
    TurnOf <- MCTurnOf
    MaxWorkers = 2
    MaxProgress = 1
    MaxFaults = 2
    SubCalls = {"x"}
    SubKeep = 1
    SubMaxModel = 4
    SubMaxBatch = 2
    CtxKeep = 1
    CtxBudget = 2
    CtxCalls = 2
    CtxMaxItems = 7
    CtxMaxTurns = 3
    StrCalls = 2
    StrMaxChunks = 3
    StrMaxFragments = 3
    PatchTexts = {"a", "A", "b"}
    PatchWritten = {"a", "b"}
    PatchMaxLines = 3
    PatchMaxHunk = 2
    PatchMaxHunks = 2
    PatchNumbers = {0, 2}
    PageMaxText = 7
    PageLine = 2
    PageBudget = 7
    PageLimit = 3
    PagePrefix = 1
    PageNotice = 2
    PageSeparator = 1
    FndEntries = 3
    FndLines = 2
    FndCosts = {3, 6}
    FndPath = 1
    FndBudget = 5
    FndLimit = 2
    FndNames = 5
    FndMaxChanges = 2
    DeskScreens <- MCScreens
    DeskCorners <- MCCorners
    DeskButtons = {"left", "right"}
    DeskMaxSteps = 3
INVARIANTS
    JobsSound
    SubSound
    CtxSound
    StrWhole
    PatchSound
    PagesShowAll
PROPERTIES
    ImplementsBoard
    
    WaitsReturn
CHECK_DEADLOCK FALSE
