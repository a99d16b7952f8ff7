SPECIFICATION ApartSpec
CONSTANTS
    NumServers = 2
    Users <- MCUsers
    MaxSend = 1
    HeaderJunk = {0}
    Commands = {"NEWMAILMSG"}
    MaxUpdates = 4
    MaxChanges = 3
INVARIANT QuietComponentSame
CHECK_DEADLOCK FALSE
