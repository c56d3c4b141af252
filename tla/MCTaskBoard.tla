---------------------------- MODULE MCTaskBoard ----------------------------
(* Small instances of TaskBoard for TLC, in the units of MCLeases: p1 takes *)
(* over, sweeps and claims; p2 may be gone, silent or asleep.               *)
EXTENDS TaskBoard, TLC

CONSTANTS p1, p2

Only(first, second) == [p \in Peer |-> IF p = p1 THEN first ELSE second]
AnyProbe == Only({"live"}, {"live", "dead", "unknown"})

\* A task whose owner is lost, asleep or back again, and a takeover.
Overtaking ==
    [ commands |-> Only({"takeover"}, {"create", "claim"}), sweeps |-> {},
      probes |-> AnyProbe, begun |-> 3, swept |-> 0, jumps |-> 1, clock |-> 3,
      registered |-> Only(1, 2) ]

\* Sweeps of each kind over a peer that comes, goes and sleeps.
Sweeping ==
    [ commands |-> Only({}, {"update"}), sweeps |-> SweepKind,
      probes |-> Only({"live"}, {"live", "dead", "unknown", "protected"}),
      begun |-> 2, swept |-> 2, jumps |-> 1, clock |-> 3, registered |-> Only(0, 2) ]

\* Two peers at the board.
Working ==
    [ commands |-> Only({"create", "team", "next", "update"}, {"claim", "dispatch", "takeover"}),
      sweeps |-> {}, probes |-> Only({"live"}, {"live"}),
      begun |-> 3, swept |-> 0, jumps |-> 0, clock |-> 0, registered |-> Only(1, 1) ]

\* Turns that outlast the task they began under.
Turning ==
    [ commands |-> Only({"create", "next", "update", "turn"}, {"takeover", "next"}),
      sweeps |-> {}, probes |-> Only({"live"}, {"live"}),
      begun |-> 4, swept |-> 0, jumps |-> 0, clock |-> 0, registered |-> Only(0, 0) ]

\* An observer of the clock between the shorter limit and the longer one.
Impatience ==
    [ commands |-> Only({"takeover"}, {"create", "claim"}), sweeps |-> {},
      probes |-> Only({"live"}, {"unknown"}), begun |-> 4, swept |-> 0, jumps |-> 1,
      clock |-> 4, registered |-> Only(1, 1) ]
ImpatienceOnly == {Impatience}

AllMixes == {Overtaking, Sweeping, Working, Turning}
TaskSymmetry == Permutations(Task)
=============================================================================
