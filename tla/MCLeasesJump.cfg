CONSTANTS
    p1 = p1
    p2 = p2
    Peer = {p1, p2}
    NoPeer = NoPeer
    Scope = {whole, s1}
    Whole = whole
    Tolerance = 0
    GapThreshold = 1
    ClockGrace = 2
    TTL = {2}
    HookCap = 1
    Commands <- CollectOrHold
    Probes <- Withheld
    MaxCommands = 3
    MaxTime = 5
    MaxForward = 1
    MaxBackward = 0
    MaxIdentity = 1
SPECIFICATION Spec
PROPERTIES
    OvertakenLeaseGetsGrace
    CommandLineKeepsProtectedOwner
CHECK_DEADLOCK FALSE
