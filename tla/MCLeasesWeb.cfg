CONSTANTS
    p1 = p1
    p2 = p2
    Peer = {p1, p2}
    NoPeer = NoPeer
    Scope = {whole, s1}
    Whole = whole
    Tolerance = 0
    GapThreshold = 1
    ClockGrace = 2
    TTL = {1}
    HookCap = 1
    Commands <- WebOnly
    Probes <- Protected
    MaxCommands = 3
    MaxTime = 5
    MaxForward = 0
    MaxBackward = 0
    MaxIdentity = 1
SPECIFICATION Spec
PROPERTIES
    ProtectedOwnerKeepsLease
CHECK_DEADLOCK FALSE
