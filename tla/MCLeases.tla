------------------------------ MODULE MCLeases ------------------------------
(* Small instances of Leases for TLC.  Time is measured in units in which   *)
(* the clock tolerance is 0 and the forward threshold 1.  p1 acquires and   *)
(* collects what p2 has taken; only p2's process is ever in question.       *)
EXTENDS Leases

CONSTANTS p1, p2

AcquireOrCollect ==
    [p \in Peer |-> IF p = p1 THEN {"acquire", "webAcquire", "gc"} ELSE {"acquire"}]
AcquireOrBeat ==
    [p \in Peer |-> IF p = p1 THEN {"acquire"}
                    ELSE {"acquire", "renew", "heartbeat", "webHeartbeat", "hook"}]
CollectOrHold ==
    [p \in Peer |-> IF p = p1 THEN {"acquire", "gc"} ELSE {"acquire"}]
WebOnly == [p \in Peer |-> IF p = p1 THEN {"webAcquire"} ELSE {"acquire"}]
AcquireOrRenew ==
    [p \in Peer |-> IF p = p1 THEN {"acquire"} ELSE {"acquire", "renew"}]

Withheld == [p \in Peer |-> IF p = p1 THEN {"live"} ELSE {"unknown", "protected"}]
Mortal == [p \in Peer |-> IF p = p1 THEN {"live"} ELSE {"live", "dead"}]
AnyProbe == [p \in Peer |-> IF p = p1 THEN {"live"} ELSE {"live", "unknown"}]
Protected == [p \in Peer |-> IF p = p1 THEN {"live"} ELSE {"protected"}]
=============================================================================
