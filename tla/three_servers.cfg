SPECIFICATION ApartOrTogetherSpec
CONSTANTS
    NumServers = 3
    Users <- MCUsers
    MaxSend = 1
    HeaderJunk = {0}
    Commands = {"NEWUSERMSG", "NEWMAILMSG", "DELETEMAILMSG", "READMAILMSG"}
    MaxUpdates = 4
    MaxChanges = 2
INVARIANTS PurgeSafe QuietComponentAgrees FlowWindow
PROPERTIES MailBeforeItsChanges StampDominates
CHECK_DEADLOCK FALSE
