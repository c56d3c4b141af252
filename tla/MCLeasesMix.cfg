CONSTANTS
    p1 = p1
    p2 = p2
    Peer = {p1, p2}
    NoPeer = NoPeer
    Scope = {whole, s1}
    Whole = whole
    Tolerance = 0
    GapThreshold = 1
    ClockGrace = 2
    TTL = {1}
    HookCap = 1
    Commands <- AnyCommand
    Probes <- AnyEvidence
    MaxCommands = 3
    MaxTime = 2
    MaxForward = 0
    MaxBackward = 1
    MaxIdentity = 2
SPECIFICATION MixSpec
ACTION_CONSTRAINT KeepsToMix
INVARIANTS
    TypeOK
PROPERTIES
    LiveOwnerKeepsLease
    RunningLeaseIsKept
    HeartbeatCoversLeases
CHECK_DEADLOCK FALSE
