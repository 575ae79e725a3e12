SPECIFICATION MCSpec
CONSTANTS
    N = 3
    MaxBatchFaults = 1
    McpServers <- MCServers
    McpOffers = {{"t"}, {"t", "u"}, {"v"}}
    McpToken <- MCToken
    McpCalls = {"x", "y"}
    ExeCalls = {"main", "sub"}
    ExeHooked = {"main"}
    ExeScope <- MCScope
    ExeMaxReplies = 1
    ExeNone = "none"
    StrCalls = 1
    StrMaxChunks = 2
    StrMaxFragments = 1
INVARIANTS
    BatchSound
    McpSound
    
PROPERTIES
    FirstErrorWins
    BatchEnds
    McpReturns
    ExeCancelReturns
    StrLeavesNothing
CHECK_DEADLOCK FALSE
