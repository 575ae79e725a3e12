SPECIFICATION FairSpec
CONSTANTS
    Turns = {t1, t2}
    Tools = {k1, k2}
    Steers = {s1}
    None = None
    MaxRequests = 2
    MaxAnswers = 1
    MaxCancels = 1
    MaxSettings = 1
    MaxFatals = 1

    
PROPERTIES
    CancelEnds
CHECK_DEADLOCK FALSE
