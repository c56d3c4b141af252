SPECIFICATION FairSpec
CONSTANTS
    Provider = "claude"
    Sub = {}
    MaxMessages = 2
    MaxExpired = 0
    MaxDaemons = 1
    MaxWorkers = 1
PROPERTY QueuedIsDispatched
