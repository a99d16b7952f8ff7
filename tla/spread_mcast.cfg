SPECIFICATION FairSpec
CONSTANTS
    Procs = {1, 2, 3}
    NumMessages <- MCNumMessages
    Window = 1
    MaxFails = 1
INVARIANTS TypeOK SlowReaderBounded
PROPERTIES ImplementsMulticastJob AllExit
CHECK_DEADLOCK FALSE
