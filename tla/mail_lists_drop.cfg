SPECIFICATION InOrderSpec
CONSTANTS
    Names <- MCNames
    Procs = {1, 2, 3}
    MaxIndex = 3
    MaxMails = 5
INVARIANT NewMailIsKept
CONSTRAINT OneListInUse
CHECK_DEADLOCK FALSE
