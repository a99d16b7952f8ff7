CONSTANTS
    NumServers = 2
    Users = {ann}
    MaxSend = 1
    Me = 1
    MaxUpdates = 4
    MaxIndex = 4
    MaxCrash = 1
SPECIFICATION AccountSpec
INVARIANTS TypeOK EffectsSurvive AnsweredIsHeld FreshAfterRestart
CHECK_DEADLOCK FALSE
