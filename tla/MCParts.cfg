SPECIFICATION Spec
CONSTANTS
    MaxDaemons = 3
    Hook = {h1}
    Client = {c1}
    Contender = {k1, k2, k3}
    Strict = {k1, k2}
    PortCount = 2
    MaxStrangers = 1
    First = first
    Retry = {r1, r2}
    Lister = {l1}
    MaxPowerLoss = 1
    MaxMail = 2
    MaxDispatchers = 2
    MaxEnrolments = 2
    MaxCollections = 1
    Batch = 1
    Bridge = {b1, b2}
    Plain = {p1}
    NoOne = NoOne
    MaxMessages = 3
    Own = {1}
    PerSnapshot = 2
    MaxCopies = 2
    MaxLoads = 2
INVARIANTS
    PartsTypeOK
    SoleOwner
    LockIsExclusive
    JournalIsReadable
    SendIsOnRecord
    NoticeOnce
    OneOutstanding
    OneSession
    LiveChildHoldsPeer
    AckedWasShown
PROPERTIES
    WritesAreFenced
    RequestsStayPut
    CollectedAsPlanned
    LiveGroupIsKept
    ExitIsTrue
    NotSentAgain
CHECK_DEADLOCK FALSE
