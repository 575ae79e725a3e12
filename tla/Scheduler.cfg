SPECIFICATION SchedulerFairSpec
CONSTANTS
    p1 = p1
    p2 = p2
    tool = tool
    Schedules = {s1}
    Pollers = {p1, p2}
    Editors = {tool}
    Home <- MCHome
    Triggers <- MCTriggers
    Ends <- MCEnds
    HasRunner = TRUE
    Minute = 1
    None = None
    MaxTime = 5
    MaxEdits = 2
    MaxCrashes = 1
    MaxTorn = 1
    MaxRunFaults = 1

    
PROPERTIES
    DueIsRecorded
CHECK_DEADLOCK FALSE
