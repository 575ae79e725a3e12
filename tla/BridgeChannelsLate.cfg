SPECIFICATION Spec
CONSTANTS
    Channels = {c1, c2}
    MaxOpens = 1
    MaxCommands = 2
    MaxFatals = 1
    MaxCrashes = 0
    LateCommands = FALSE
INVARIANTS
    OthersContinue
CHECK_DEADLOCK FALSE
