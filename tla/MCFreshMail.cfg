CONSTANTS
    MaxMessages = 2
    Own = {}
    PerSnapshot = 1
    MaxCopies = 2
    MaxLoads = 1
SPECIFICATION InboxSpec
INVARIANTS
    FreshMessageMayWake
CHECK_DEADLOCK FALSE
