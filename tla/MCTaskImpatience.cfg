CONSTANTS
    p1 = p1
    p2 = p2
    Peer = {p1, p2}
    NoPeer = NoPeer
    Task = {t1}
    NoTask = NoTask
    Mixes <- ImpatienceOnly
    Managed = {}
    Statuses = {"pending", "blocked", "done"}
    Policies = {"blocked-or-stale", "stale"}
    StaleAfter = 1
    UnknownGrace = 2
    Retention = 1
    DriftThreshold = 1
    MaxTurns = 2
    Tolerance = 0
    GapThreshold = 1
    ClockGrace = 2
SPECIFICATION Spec
PROPERTIES
    SleeperIsNotTakenOver
CHECK_DEADLOCK FALSE
