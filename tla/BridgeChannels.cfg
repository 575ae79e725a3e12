SPECIFICATION FairSpec
CONSTANTS
    Channels = {c1, c2}
    MaxOpens = 2
    MaxCommands = 1
    MaxFatals = 1
    MaxCrashes = 1
    LateCommands = TRUE
INVARIANTS
    ChannelsSound
PROPERTIES
    CloseReturns
CHECK_DEADLOCK FALSE
