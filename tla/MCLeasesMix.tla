----------------------------- MODULE MCLeasesMix -----------------------------
(* Two mixes of commands and probes for Leases in one run: those that       *)
(* displace an owner, and those that renew.  A behaviour keeps to the mix   *)
(* it began with, which shows in what probing p1 finds.                     *)
EXTENDS MCLeases

\* What either mix may use.
AnyCommand ==
    [p \in Peer |-> IF p = p1 THEN {"acquire", "webAcquire", "gc"}
                    ELSE {"acquire", "renew", "heartbeat", "webHeartbeat", "hook"}]
AnyEvidence ==
    [p \in Peer |-> IF p = p1 THEN {"live", "protected"} ELSE {"live", "dead", "unknown"}]

\* p1 is there, but cannot be compared with what its row says.
Displacing ==
    [ commands |-> AcquireOrCollect, probes |-> Mortal, backward |-> 0,
      identity |-> [p \in Peer |-> IF p = p1 THEN 1 ELSE 2] ]
Renewing ==
    [ commands |-> AcquireOrBeat, probes |-> AnyProbe, backward |-> 1,
      identity |-> [p \in Peer |-> 1] ]

Mix == IF proc[p1] = "protected" THEN Displacing ELSE Renewing

Within(m) ==
    /\ jumps.backward <= m.backward
    /\ \A p \in Peer :
        /\ op[p].kind \in m.commands[p] \cup {"none"}
        /\ identity[p] <= m.identity[p]
    /\ proc[p2] \in m.probes[p2]

MixInit == Init /\ Within(Mix)
MixSpec == MixInit /\ [][Next]_vars

\* ACTION_CONSTRAINT
KeepsToMix ==
    /\ proc'[p1] = proc[p1] /\ Within(Mix)'
    /\ "hook" \in Mix.commands[p2] \/ ~NativeHook(p2)
=============================================================================
