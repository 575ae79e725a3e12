SPECIFICATION MCSpec
CONSTANTS
    WebMaxSockets = 2
    WebMaxWork = 2
    WebMaxOther = 1
    TuiStored = {"s"}
    TuiMaxChannels = 3
    TuiMaxWork = 2
    MobMessages = {"a", "b"}
    MobKinds <- MCKinds
    MobAgain = {"a"}
    MobSessions = {"s", "z"}
    MobNone = MobNone
    MobKeep = 1
    MobMaxFaults = 2
    MobMaxOther = 2
    CstCard = 2
    CstMaxTokens = 3
    CstMaxFaults = 1
    BtnSessions = {"s", "z"}
    BtnNone = BtnNone
    BtnMaxTurns = 1
    BtnMaxAsks = 2
    BtnMaxCards = 3
    BtnMaxFaults = 1
    BtnMaxMoves = 2
    BtnMaxOther = 2
    ViewMaxTurns = 2
    ViewMaxTokens = 2
    ViewMaxCalls = 2
    ViewMaxExtra = 1
INVARIANTS
    WebSound
    TuiConverges
    
    
CHECK_DEADLOCK FALSE
