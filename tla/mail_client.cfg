CONSTANTS
    Servers = {1, 2}
    None = None
    Unknown = Unknown
    Users = {ann}
    MaxMails = 2
    MaxCommands = 4
    MaxSplits = 1
SPECIFICATION LoggedInSpec
INVARIANTS DisplayedIsMailbox NumbersAreShown
PROPERTY AnsweredIfThere
CHECK_DEADLOCK FALSE
