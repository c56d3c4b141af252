SPECIFICATION MailSpec
CONSTANTS
    MaxMail = 2
    MaxDispatchers = 1
    MaxEnrolments = 1
    MaxCollections = 1
    Batch = 1
INVARIANT
    BlockingCanBeAcknowledged
CHECK_DEADLOCK FALSE
