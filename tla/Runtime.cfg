SPECIFICATION MCSpec
CONSTANTS
    Sessions = {s1, s2}
    Workspaces = {w1, w2}
    Providers = {p1, p2}
    Nothing = Nothing
    MaxPlanes = 2
    MaxEdits = 1
    MaxForeign = 1
    Runtimes = {r1, r2}
    Hints = {t1}
    Fresh = {f1, f2}
    Tools = {c1}
    Jobs = {}
    Presets = {ask, full}
    Default = ask
    Exclusive = TRUE
    None = None
    MaxEvents = 3
    MaxCrashes = 2
    MaxFaults = 1
    MaxUnopened = 1
    MemManagers = {"main", "sub", "other"}
    MemStoreOf <- MCStoreOf
    MemWorkspaceOf <- MCWorkspaceOf
    MemMaxFacts = 4
    SetClients = {"c", "d"}
    SetStore <- MCSetStore
    SetDefault = "o"
    SetAdded = {"p"}
    SetEnvName <- MCEnvName
    SetInherited = {}
    SetMaxSaves = 2
    PlanGoals = {"g", "h"}
    PlanIds = {"a", "b"}
    PlanOutcomes = {"blank", "text", "long"}
    PlanMaxSteps = 2
    PlanMaxUpdates = 2
    PlanMaxFaults = 1
SYMMETRY MCSymmetry
INVARIANTS
    
    
    MemKeepsSaved
    
    PlanNeverBack
PROPERTIES
    LogOnlyGrows
CHECK_DEADLOCK FALSE
