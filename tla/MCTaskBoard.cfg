CONSTANTS
    p1 = p1
    p2 = p2
    Peer = {p1, p2}
    NoPeer = NoPeer
    Task = {t1, t2}
    NoTask = NoTask
    Mixes <- AllMixes
    Managed = {}
    Statuses = {"pending", "blocked", "done"}
    Policies = {"blocked-or-stale", "any"}
    StaleAfter = 1
    UnknownGrace = 1
    Retention = 1
    DriftThreshold = 1
    MaxTurns = 2
    Tolerance = 0
    GapThreshold = 1
    ClockGrace = 2
SPECIFICATION Spec
SYMMETRY TaskSymmetry
INVARIANTS
    TypeOK
    EvidenceIsFiledOnce
PROPERTIES
    OwnersChangeOpenly
    OnlyLostOwnersLoseTasks
    OnlyLostPeersAreReaped
    SleeperIsNotTakenOver
    SleeperIsNotReaped
CHECK_DEADLOCK FALSE
