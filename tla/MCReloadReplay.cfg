CONSTANTS
    MaxMessages = 1
    Own = {}
    PerSnapshot = 1
    MaxCopies = 2
    MaxLoads = 3
SPECIFICATION InboxSpec
PROPERTY CommittedIsNotReplayed
CHECK_DEADLOCK FALSE
