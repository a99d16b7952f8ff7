SPECIFICATION FairApartSpec
CONSTANTS
    NumServers = 2
    Users <- MCUsers
    MaxSend = 1
    HeaderJunk = {0, 1, 2}
    Commands = {"NEWMAILMSG"}
    MaxUpdates = 4
    MaxChanges = 3
INVARIANTS
    TypeOK
    KnowledgeSound
    VectorIsNewest
    StampsUnique
    QuietComponentAgrees
    QuietComponentIsNormal
PROPERTIES
    EventuallyQuiet
    ImplementsUpdateLog
CHECK_DEADLOCK FALSE
