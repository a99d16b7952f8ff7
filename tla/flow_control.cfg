SPECIFICATION LoopSpec
CONSTANTS
    NumServers = 2
    Users = {}
    MaxSend = 2
    MaxRange = 2
INVARIANT LoopIsTheBatch
PROPERTY LoopEnds
CHECK_DEADLOCK FALSE
