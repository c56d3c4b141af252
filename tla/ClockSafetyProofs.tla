-------------------------- MODULE ClockSafetyProofs --------------------------
(***************************************************************************)
(* What one observation of the clock guarantees, whatever the present      *)
(* second, the candidates and the collector's cutoffs.                     *)
(***************************************************************************)
EXTENDS ClockSafety, TLAPS

\* A discontinuity found by an observation is a gap of the type stored.
LEMMA NextGapType ==
    ASSUME NEW prev \in Nat \cup {Never}, NEW t \in Nat, NEW jump \in Jump
    PROVE  NextGap(prev, t, jump) \in Gap \cup {NoGap}
<1>1. prev = Never \/ prev \in Nat
  OBVIOUS
<1>2. Tolerance \in Nat /\ GapThreshold \in Nat
  BY ClockAssumption
<1>3. jump.kind = "forward" => jump.span \in Nat
  BY DEF Jump, NoJump
<1> QED
  BY <1>1, <1>2, <1>3 DEF NextGap, Gap, NoGap, Larger, Smaller, Never

LEMMA MergeGapType ==
    ASSUME NEW g \in Gap \cup {NoGap}, NEW h \in Gap \cup {NoGap}
    PROVE  MergeGap(g, h) \in Gap \cup {NoGap}
<1>1. CASE g = NoGap
  BY <1>1 DEF MergeGap
<1>2. CASE h = NoGap
  BY <1>2 DEF MergeGap
<1>3. CASE g # NoGap /\ h # NoGap
  <2>1. /\ g.from \in Nat /\ g.to \in Nat /\ h.from \in Nat /\ h.to \in Nat
        /\ g.backward \in BOOLEAN /\ g.first \in BOOLEAN
        /\ h.backward \in BOOLEAN /\ h.first \in BOOLEAN
    BY <1>3 DEF Gap
  <2>2. /\ Smaller(g.from, h.from) \in Nat
        /\ Larger(g.to, h.to) \in Nat
    BY <2>1 DEF Smaller, Larger
  <2>3. /\ (g.backward \/ h.backward) \in BOOLEAN
        /\ (g.first \/ h.first) \in BOOLEAN
    OBVIOUS
  <2> QED
    BY <1>3, <2>2, <2>3 DEF MergeGap, Gap
<1> QED
  BY <1>1, <1>2, <1>3

\* An observation keeps the type of the stored record.
LEMMA ObservedType ==
    ASSUME NEW c \in Safety, NEW op, NEW cands, NEW cuts, NEW t \in Nat,
           NEW jump \in Jump
    PROVE  Observed(c, op, cands, cuts, t, jump) \in Safety
<1>1. c.seen \in Nat \cup {Never} /\ c.gap \in Gap \cup {NoGap} /\ c.grace \in Nat
  BY DEF Safety
<1>2. PendingGap(c, t, jump) \in Gap \cup {NoGap}
  BY <1>1, NextGapType, MergeGapType DEF PendingGap
<1>3. Larger(c.grace, t + ClockGrace) \in Nat
  BY <1>1, ClockAssumption DEF Larger
<1>4. CASE EntersGrace(c, op, cands, cuts, t, jump)
  BY <1>1, <1>3, <1>4 DEF Observed, Safety
<1>5. CASE ~EntersGrace(c, op, cands, cuts, t, jump)
  BY <1>1, <1>2, <1>5 DEF Observed, Safety
<1> QED
  BY <1>4, <1>5

\* The grace window only ever grows, even under observations made with an old
\* reading of the clock (the MAX of writeClockGraceUntil), and an observation
\* that opens one opens it in full.
THEOREM GraceNeverShortens ==
    ASSUME NEW c \in Safety, NEW op, NEW cands, NEW cuts, NEW t \in Nat,
           NEW jump \in Jump
    PROVE  LET d == Observed(c, op, cands, cuts, t, jump)
           IN  /\ d.grace >= c.grace
               /\ EntersGrace(c, op, cands, cuts, t, jump) => d.grace >= t + ClockGrace
<1>1. c.grace \in Nat
  BY DEF Safety
<1>2. /\ Larger(c.grace, t + ClockGrace) >= c.grace
      /\ Larger(c.grace, t + ClockGrace) >= t + ClockGrace
  BY <1>1, ClockAssumption DEF Larger
<1> QED
  BY <1>1, <1>2 DEF Observed

\* A pending gap is not forgotten: an observation that opens no grace window
\* stores a gap at least as wide, so that an owner whose limit fell into it is
\* still found overtaken by whoever asks next (mergePendingGap,
\* writePendingGap).
THEOREM PendingGapIsKept ==
    ASSUME NEW c \in Safety, NEW op, NEW cands, NEW cuts, NEW t \in Nat,
           NEW jump \in Jump, c.gap # NoGap,
           ~EntersGrace(c, op, cands, cuts, t, jump)
    PROVE  LET d == Observed(c, op, cands, cuts, t, jump)
           IN  /\ d.gap \in Gap
               /\ d.gap.from <= c.gap.from /\ d.gap.to >= c.gap.to
               /\ c.gap.backward => d.gap.backward
               /\ c.gap.first => d.gap.first
<1>1. c.gap \in Gap /\ c.seen \in Nat \cup {Never}
  BY DEF Safety
<1> DEFINE h == NextGap(c.seen, t, jump)
           g == MergeGap(c.gap, h)
<1>2. h \in Gap \cup {NoGap}
  BY <1>1, NextGapType
<1>3. g \in Gap \cup {NoGap}
  BY <1>1, <1>2, MergeGapType
<1>4. Observed(c, op, cands, cuts, t, jump).gap = g
  BY DEF Observed, PendingGap
<1> HIDE DEF h
<1>5. CASE h = NoGap
  BY <1>1, <1>4, <1>5 DEF MergeGap, Gap
<1>6. CASE h # NoGap
  <2>1. h \in Gap
    BY <1>2, <1>6
  <2>2. g = [ from |-> Smaller(c.gap.from, h.from), to |-> Larger(c.gap.to, h.to),
              backward |-> c.gap.backward \/ h.backward,
              first |-> c.gap.first \/ h.first ]
    BY <1>6 DEF MergeGap
  <2>3. /\ c.gap.from \in Nat /\ c.gap.to \in Nat /\ h.from \in Nat /\ h.to \in Nat
    BY <1>1, <2>1 DEF Gap
  <2>4. /\ Smaller(c.gap.from, h.from) <= c.gap.from
        /\ Larger(c.gap.to, h.to) >= c.gap.to
        /\ Smaller(c.gap.from, h.from) \in Nat /\ Larger(c.gap.to, h.to) \in Nat
    BY <2>3 DEF Smaller, Larger
  <2>5. g \in Gap
    BY <2>2, <2>4 DEF Gap
  <2>6. /\ g.from <= c.gap.from /\ g.to >= c.gap.to
    BY <2>2, <2>4
  <2>7. /\ c.gap.backward => (c.gap.backward \/ h.backward) = TRUE
        /\ c.gap.first => (c.gap.first \/ h.first) = TRUE
    OBVIOUS
  <2>8. /\ c.gap.backward => g.backward = TRUE
        /\ c.gap.first => g.first = TRUE
    <3>1. /\ g.backward = (c.gap.backward \/ h.backward)
          /\ g.first = (c.gap.first \/ h.first)
      BY <2>2
    <3> QED
      BY <2>7, <3>1
  <2> QED
    BY <1>4, <2>5, <2>6, <2>8
<1> QED
  BY <1>5, <1>6

-----------------------------------------------------------------------------
(* A boundary b that the clock jumped past, to the second j.               *)

\* A pending gap that finds an owner overtaken whose limit is b.
GapCovers(g, b) ==
    /\ g # NoGap
    /\ g.backward \/ ((g.first \/ g.from < b) /\ g.to >= b)

\* The jump past b is not lost on the safety record: either the grace it calls
\* for is granted, until the second given, or nobody has observed the clock
\* since, or the gap is pending.
Covers(c, b, until) == c.grace >= until \/ c.seen < b \/ GapCovers(c.gap, b)

\* A reading of the clock from before or from after the jump.
Clear(r, b, j) == r >= j \/ (r < b /\ r + GapThreshold < j)

\* The runtime that reports a jump with the observation at t last probed the
\* clock before b, so the jump it reports is this one, or more.
Reaches(jump, t, b) == jump = NoJump \/ (jump.kind = "forward" /\ 0 < b /\ t - jump.span < b)

LEMMA MergedGapCovers ==
    ASSUME NEW g \in Gap \cup {NoGap}, NEW h \in Gap \cup {NoGap}, NEW b \in Nat,
           GapCovers(g, b) \/ GapCovers(h, b)
    PROVE  GapCovers(MergeGap(g, h), b)
<1>1. CASE g = NoGap \/ h = NoGap
  BY <1>1 DEF MergeGap, GapCovers
<1>2. CASE g # NoGap /\ h # NoGap
  <2> DEFINE m == [ from |-> Smaller(g.from, h.from), to |-> Larger(g.to, h.to),
                    backward |-> g.backward \/ h.backward,
                    first |-> g.first \/ h.first ]
  <2>1. MergeGap(g, h) = m
    BY <1>2 DEF MergeGap
  <2>2. /\ g.from \in Nat /\ g.to \in Nat /\ h.from \in Nat /\ h.to \in Nat
    BY <1>2 DEF Gap
  <2>3. /\ m.from <= g.from /\ m.from <= h.from /\ m.to >= g.to /\ m.to >= h.to
        /\ m.from \in Nat /\ m.to \in Nat
    BY <2>2 DEF Smaller, Larger
  <2>4. /\ g.backward => m.backward
        /\ h.backward => m.backward
        /\ g.first => m.first
        /\ h.first => m.first
    OBVIOUS
  <2>5. NoGap.to = -1
    BY DEF NoGap
  <2> HIDE DEF m
  <2>6. m # NoGap
    BY <2>3, <2>5
  <2>7. CASE GapCovers(g, b)
    BY <2>1, <2>2, <2>3, <2>4, <2>6, <2>7 DEF GapCovers
  <2>8. CASE GapCovers(h, b)
    BY <2>1, <2>2, <2>3, <2>4, <2>6, <2>8 DEF GapCovers
  <2> QED
    BY <2>1, <2>7, <2>8
<1> QED
  BY <1>1, <1>2

\* The first observation after the jump makes it a pending gap.
LEMMA NextGapCovers ==
    ASSUME NEW prev \in Nat \cup {Never}, NEW t \in Nat, NEW b \in Nat, NEW j \in Nat,
           b <= j, j <= t, prev < b, prev + GapThreshold < j
    PROVE  GapCovers(NextGap(prev, t, NoJump), b)
<1>1. Tolerance \in Nat /\ GapThreshold \in Nat
  BY ClockAssumption
<1>2. CASE prev = Never
  BY <1>2 DEF NextGap, GapCovers, NoGap
<1>3. CASE prev # Never
  <2>1. prev \in Nat
    BY <1>3
  <2>2. t - prev > GapThreshold /\ ~(t < prev - Tolerance)
    BY <1>1, <2>1
  <2>3. NextGap(prev, t, NoJump) =
          [from |-> prev, to |-> t, backward |-> FALSE, first |-> FALSE]
    BY <1>3, <2>2 DEF NextGap, NoJump
  <2>4. NextGap(prev, t, NoJump) # NoGap
    BY <2>3 DEF NoGap
  <2> QED
    BY <2>1, <2>3, <2>4 DEF GapCovers
<1> QED
  BY <1>2, <1>3

\* ... and so does a runtime that reports it.
LEMMA ReportedGapCovers ==
    ASSUME NEW prev \in Nat \cup {Never}, NEW t \in Nat, NEW b \in Nat, NEW jump \in Jump,
           b <= t, jump # NoJump, Reaches(jump, t, b)
    PROVE  GapCovers(NextGap(prev, t, jump), b)
<1>1. jump.kind = "forward" /\ jump.span \in Nat /\ 0 < b /\ t - jump.span < b
  BY DEF Reaches, Jump, NoJump
<1>2. CASE prev = Never
  BY <1>2 DEF NextGap, GapCovers, NoGap
<1>3. CASE prev # Never
  <2> DEFINE from == IF jump.span > 0 THEN Larger(0, t - jump.span) ELSE 0
  <2>1. from \in Nat /\ from < b
    BY <1>1 DEF Larger
  <2>2. NextGap(prev, t, jump) = [from |-> from, to |-> t, backward |-> FALSE, first |-> FALSE]
    BY <1>1, <1>3 DEF NextGap
  <2> HIDE DEF from
  <2>3. NextGap(prev, t, jump) # NoGap
    BY <2>2 DEF NoGap
  <2> QED
    BY <2>1, <2>2, <2>3 DEF GapCovers
<1> QED
  BY <1>2, <1>3

\* After the jump, a gap is pending or the grace is granted.
LEMMA PendingCovers ==
    ASSUME NEW c \in Safety, NEW t \in Nat, NEW b \in Nat, NEW j \in Nat, NEW until,
           NEW jump \in Jump, Reaches(jump, t, b),
           b <= j, j <= t, Covers(c, b, until), Clear(c.seen, b, j)
    PROVE  c.grace >= until \/ GapCovers(PendingGap(c, t, jump), b)
<1>1. c.seen \in Nat \cup {Never} /\ c.gap \in Gap \cup {NoGap}
  BY DEF Safety
<1>2. NextGap(c.seen, t, jump) \in Gap \cup {NoGap}
  BY <1>1, NextGapType
<1>3. CASE GapCovers(c.gap, b)
  BY <1>1, <1>2, <1>3, MergedGapCovers DEF PendingGap
<1>4. CASE c.seen < b
  <2>1. c.seen + GapThreshold < j
    BY <1>1, <1>4, ClockAssumption DEF Clear, Never
  <2>2. CASE jump = NoJump
    <3>1. GapCovers(NextGap(c.seen, t, NoJump), b)
      BY <1>1, <1>4, <2>1, NextGapCovers
    <3> QED
      BY <1>1, <1>2, <2>2, <3>1, MergedGapCovers DEF PendingGap
  <2>3. CASE jump # NoJump
    <3>1. b <= t
      OBVIOUS
    <3>2. GapCovers(NextGap(c.seen, t, jump), b)
      BY <1>1, <2>3, <3>1, ReportedGapCovers
    <3> QED
      BY <1>1, <1>2, <3>2, MergedGapCovers DEF PendingGap
  <2> QED
    BY <2>2, <2>3
<1> QED
  BY <1>3, <1>4 DEF Covers

\* No observation loses the jump, whoever makes it and however old its reading
\* (mergePendingGap and the MAX of writeClockGraceUntil).
LEMMA ObservedCovers ==
    ASSUME NEW c \in Safety, NEW op, NEW cands, NEW cuts, NEW t \in Nat, NEW b \in Nat,
           NEW j \in Nat, b <= j, Clear(t, b, j), Clear(c.seen, b, j),
           NEW jump \in Jump, t >= j => Reaches(jump, t, b),
           Covers(c, b, j + ClockGrace)
    PROVE  Covers(Observed(c, op, cands, cuts, t, jump), b, j + ClockGrace)
<1> DEFINE d == Observed(c, op, cands, cuts, t, jump)
<1>1. d.seen = t
  BY DEF Observed
<1>2. c.grace \in Nat /\ ClockGrace \in Nat
  BY ClockAssumption DEF Safety
<1>3. CASE t < b
  BY <1>1, <1>3 DEF Covers
<1>4. CASE t >= j
  <2>1. CASE EntersGrace(c, op, cands, cuts, t, jump)
    <3>1. d.grace >= t + ClockGrace
      BY <2>1, GraceNeverShortens
    <3>2. d.grace = Larger(c.grace, t + ClockGrace)
      BY <2>1 DEF Observed
    <3>3. d.grace \in Nat
      BY <1>2, <3>2 DEF Larger
    <3> HIDE DEF d
    <3>4. d.grace >= j + ClockGrace
      BY <1>2, <1>4, <3>1, <3>3
    <3> QED
      BY <3>4 DEF Covers, d
  <2>2. CASE ~EntersGrace(c, op, cands, cuts, t, jump)
    <3>1. d.gap = PendingGap(c, t, jump) /\ d.grace = c.grace
      BY <2>2 DEF Observed
    <3>2. c.grace >= j + ClockGrace \/ GapCovers(PendingGap(c, t, jump), b)
      BY <1>4, PendingCovers
    <3> QED
      BY <3>1, <3>2 DEF Covers
  <2> QED
    BY <2>1, <2>2
<1> QED
  BY <1>3, <1>4 DEF Clear

\* ... and one made after it about an owner overtaken, of whom nothing is
\* known, leaves the grace granted.
LEMMA UnknownIsGivenGrace ==
    ASSUME NEW c \in Safety, NEW op, NEW cands, NEW cuts, NEW t \in Nat, NEW b \in Nat,
           NEW j \in Nat, b <= j, j <= t, Clear(c.seen, b, j),
           NEW jump \in Jump, Reaches(jump, t, b), Covers(c, b, j + ClockGrace),
           NEW x \in cands, Unknown(x), x.boundary = b
    PROVE  Observed(c, op, cands, cuts, t, jump).grace >= j + ClockGrace
<1> DEFINE d == Observed(c, op, cands, cuts, t, jump)
           g == PendingGap(c, t, jump)
<1>1. c.grace \in Nat /\ ClockGrace \in Nat
  BY ClockAssumption DEF Safety
<1>2. d \in Safety
  BY ObservedType
<1>3. d.grace \in Nat
  BY <1>2 DEF Safety
<1>4. CASE c.grace >= j + ClockGrace
  <2>1. d.grace >= c.grace
    BY GraceNeverShortens
  <2> HIDE DEF d
  <2> QED
    BY <1>1, <1>3, <1>4, <2>1 DEF d
<1>5. CASE ~(c.grace >= j + ClockGrace)
  <2>1. GapCovers(g, b)
    BY <1>5, PendingCovers
  <2> HIDE DEF g
  <2>2. g.backward \/ InWindow(c, t, g, b)
    BY <2>1 DEF GapCovers, InWindow, Crossed, WindowStart, WindowEnd, Never
  <2>3. EntersGrace(c, op, cands, cuts, t, jump)
    BY <2>2 DEF EntersGrace, g
  <2>4. d.grace >= t + ClockGrace
    BY <2>3, GraceNeverShortens
  <2> HIDE DEF d
  <2> QED
    BY <1>1, <1>3, <2>4 DEF d
<1> QED
  BY <1>4, <1>5
=============================================================================
