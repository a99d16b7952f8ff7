CONSTANTS
    Hosts = {1, 2}
    NoHost = 0
    FileLen <- packetsOfFile
    WINDOW_SIZE = 2
    RECV_NUM_RETRY_ACK = 1
    MaxWire = 4
    MaxLoss = 2
    MaxEarly = 2
    MaxKill = 2
SPECIFICATION FairSpec
CONSTRAINT EarlyOrKilled
INVARIANTS TypeOK FileIsPrefix GivenUpIsHeld
PROPERTIES ImplementsReliableCopy AllExit
CHECK_DEADLOCK FALSE
