----------------------------- MODULE ClockSafety -----------------------------
(***************************************************************************)
(* The decision that guards every age- or TTL-based takeover against steps *)
(* of the wall clock (lib/core/coordination/clock-safety.mjs and           *)
(* lib/shared/clock-grace.mjs).                                            *)
(*                                                                         *)
(* Three values live in the meta table, shared by every process of the     *)
(* project: the last observed second, a pending gap (a discontinuity no    *)
(* unknown owner has answered for yet) and the end of the grace window     *)
(* during which unknown owners are left alone.  An observation, made inside*)
(* the transaction of the caller, compares the present second with them.   *)
(* The module has no variables: it maps one such record to the next.       *)
(***************************************************************************)
EXTENDS Integers

CONSTANTS
    Tolerance,      \* BACKWARD_TOLERANCE_SEC
    GapThreshold,   \* FORWARD_GAP_THRESHOLD_SEC
    ClockGrace      \* CLOCK_GRACE_SEC

ASSUME ClockAssumption ==
    /\ Tolerance \in Nat
    /\ GapThreshold \in Nat
    /\ ClockGrace \in Nat \ {0}

\* "Never observed" sorts before every boundary, which is what the code's
\* tests of an undefined previous observation amount to.
Never == -1

Gap == [from : Nat, to : Nat, backward : BOOLEAN, first : BOOLEAN]
NoGap == [from |-> 0, to |-> -1, backward |-> FALSE, first |-> FALSE]

\* The persisted part: clock_last_observed_at, clock_pending_gap and
\* clock_grace_until.
Safety == [seen : Nat \cup {Never}, gap : Gap \cup {NoGap}, grace : Nat]
FreshSafety == [seen |-> Never, gap |-> NoGap, grace |-> 0]

Evidence == {"live", "dead", "unknown", "protected"}

\* An owner whose lease (or silence) reaches its limit at "boundary".  An
\* incompatible process identity counts as unknown evidence here.
Candidate(Owner) == [owner : Owner, boundary : Nat, evidence : Evidence]
Unknown(c) == c.evidence \in {"unknown", "protected"}

\* What the runtime's drift probe reports along with an observation.
NoJump == [kind |-> "none", span |-> 0]
Jump == {NoJump} \cup [kind : {"forward"}, span : Nat]
                 \cup [kind : {"backward"}, span : {0}]

Larger(a, b) == IF a >= b THEN a ELSE b
Smaller(a, b) == IF a <= b THEN a ELSE b

\* clockGraceSuppressed().
Suppressed(t, grace) == grace > t

Crossed(prev, cur, boundary) == prev < boundary /\ cur >= boundary

\* nextObservationGap().
NextGap(prev, t, jump) ==
    IF prev = Never THEN
        [from |-> 0, to |-> t, backward |-> FALSE, first |-> TRUE]
    ELSE IF jump.kind = "forward" THEN
        [ from |-> IF jump.span > 0 THEN Larger(0, t - jump.span) ELSE 0,
          to |-> t, backward |-> FALSE, first |-> FALSE ]
    ELSE IF jump.kind = "backward" \/ t < prev - Tolerance THEN
        [ from |-> Smaller(prev, t), to |-> Larger(prev, t),
          backward |-> TRUE, first |-> FALSE ]
    ELSE IF t - prev > GapThreshold THEN
        [from |-> prev, to |-> t, backward |-> FALSE, first |-> FALSE]
    ELSE NoGap

\* Faulty variant of MergeGap: only the latest discontinuity is remembered.
MergeGapLatest(g, h) == h

\* mergePendingGap().
MergeGap(g, h) ==
    IF g = NoGap THEN h
    ELSE IF h = NoGap THEN g
    ELSE [ from |-> Smaller(g.from, h.from), to |-> Larger(g.to, h.to),
           backward |-> g.backward \/ h.backward, first |-> g.first \/ h.first ]

\* The gap an observation at t has to answer for.
PendingGap(c, t, jump) == MergeGap(c.gap, NextGap(c.seen, t, jump))

\* The interval of seconds whose boundaries count as crossed; empty after a
\* step backwards, which is judged without boundaries.
WindowStart(c, g) ==
    IF g = NoGap THEN c.seen ELSE IF g.first THEN Never ELSE g.from
WindowEnd(t, g) == IF g = NoGap THEN t ELSE g.to

InWindow(c, t, g, boundary) ==
    /\ ~g.backward
    /\ Crossed(WindowStart(c, g), WindowEnd(t, g), boundary)

\* decideClockSafety().enterGrace: unknown owners, and age-based collection,
\* are given a window to recover before anybody acts on their age.
EntersGrace(c, op, cands, cuts, t, jump) ==
    LET g == PendingGap(c, t, jump)
    IN  \/ g.backward /\ (op = "gc" \/ \E x \in cands : Unknown(x))
        \/ \E x \in cands : Unknown(x) /\ InWindow(c, t, g, x.boundary)
        \/ op = "gc" /\ \E b \in cuts : InWindow(c, t, g, b)

\* Owners seen alive although their limit went by: their leases are renewed.
RenewableOwners(c, cands, t, jump) ==
    LET g == PendingGap(c, t, jump)
    IN  { x.owner : x \in { y \in cands :
            /\ y.evidence = "live"
            /\ IF g.backward THEN y.boundary <= t
                             ELSE InWindow(c, t, g, y.boundary) } }

\* observeClockSafetyInTransaction(): what the meta table holds afterwards.
Observed(c, op, cands, cuts, t, jump) ==
    IF EntersGrace(c, op, cands, cuts, t, jump)
    THEN [seen |-> t, gap |-> NoGap, grace |-> Larger(c.grace, t + ClockGrace)]
    ELSE [seen |-> t, gap |-> PendingGap(c, t, jump), grace |-> c.grace]

=============================================================================
