SPECIFICATION FairSpec
CONSTANTS
    Pages = {p1, p2}
    None = None
    Limit = 3
    MaxRuntimes = 2
    MaxConnects = 2
    MaxWork = 1
INVARIANTS
    PagesSound
PROPERTIES
    
    AttachReturns
CHECK_DEADLOCK FALSE
