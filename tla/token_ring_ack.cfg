CONSTANTS
    numProcesses = 3
    NumPackets <- packetsOfEach
    WINDOW_SIZE = 3
    SEND_WINDOW_SIZE = 1
    MAX_MESSAGE = 2
    MAX_NAK = 1
    MaxLoss = 2
SPECIFICATION Spec
INVARIANT ClearedIsHeld
CHECK_DEADLOCK FALSE
