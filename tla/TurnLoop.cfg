SPECIFICATION FairSpec
CONSTANTS
    t1 = t1
    t2 = t2
    s1 = s1
    s2 = s2
    j1 = j1
    NoTurn = NoTurn
    Turns = {t1, t2}
    Jobs = {j1}
    Steers = {s1, s2}
    TurnOf <- MCTurnOf
    SteerTurn <- MCSteerTurn
    MaxSends = 2
    MaxRounds = 1
INVARIANTS
    TurnSound
PROPERTIES
    
    KeepsBoard
    ControlsTakeEffect
CHECK_DEADLOCK FALSE
