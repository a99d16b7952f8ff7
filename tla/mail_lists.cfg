SPECIFICATION Spec
CONSTANTS
    Names <- MCNames
    Procs = {1, 2, 3}
    MaxIndex = 2
    MaxMails = 4
INVARIANTS UpdatesAreTheStoredSet MailsAreTheMailbox
PROPERTY UsersOnce
CONSTRAINT OneListInUse
CHECK_DEADLOCK FALSE
