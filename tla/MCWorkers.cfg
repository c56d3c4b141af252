SPECIFICATION WorkersSpec
CONSTANTS
    Token = {k1, k2, k3}
    NoToken = NoToken
    Grace = 2
    MaxEpoch = 4
    Provider = "codex"
    Sub = {s1}
    MaxMessages = 2
    MaxExpired = 1
    MaxDaemons = 2
    MaxWorkers = 2
INVARIANTS
    TypeOK
    LeaseTypeOK
    AtMostOneSend
    OneTurnAtATime
    ReplyMatchesReceipt
    UserAuthority
    OneWriterPerEpoch
PROPERTIES
    KeepsPromise
    QueuedIsDispatched
    HolderKeepsTheLease
    AbandonedLeaseEnds
