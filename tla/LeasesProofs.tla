---------------------------- MODULE LeasesProofs ----------------------------
(***************************************************************************)
(* Proofs about Leases, for every set of peers and scopes, every length of *)
(* lease and of grace, and every bound.                                    *)
(*                                                                         *)
(* What a command may do to another peer's row rests on evidence gathered  *)
(* before its transaction.  The evidence may be out of date, but not in    *)
(* the dangerous direction: as long as the peer row still names the        *)
(* process that was probed, that process can only have died since          *)
(* (EvidenceHolds).  A registration in between changes the row, and the    *)
(* second capture notices.                                                 *)
(***************************************************************************)
EXTENDS Leases, ClockSafetyProofs

\* No captured peer row is newer than the present one.
RowsAreOld ==
    \A p, o \in Peer : op[p].subject.owners[o] <= identity[o]

\* Evidence about a row that is still as captured is out of date only where the
\* process has died since.
EvidenceHolds ==
    \A p, o \in Peer :
        op[p].subject.owners[o] = identity[o] =>
            (proc[o] # "dead" => op[p].evidence[o] = proc[o])

IInv == TypeOK /\ RowsAreOld /\ EvidenceHolds

-----------------------------------------------------------------------------
(* Types of what the steps are built from.                                 *)

LEMMA NoSubjectType == NoSubject \in Subject /\ NoEvidence \in [Peer -> Evidence]
  BY DEF NoSubject, NoEvidence, Subject, LockTable, Evidence

LEMMA IdleType == Idle \in Op
  BY NoSubjectType, LeasesAssumption DEF Idle, Op

LEMMA BegunType ==
    ASSUME NEW k \in Command, NEW t \in Nat, NEW s \in Scope, NEW ttl \in Nat,
           NEW n \in Nat
    PROVE  Begun(k, t, s, ttl, n) \in Op
  BY NoSubjectType DEF Begun, Op

LEMMA OnwardType ==
    ASSUME NEW c \in Op, NEW step \in {"observed", "judged"}, NEW x \in Subject,
           NEW e \in [Peer -> Evidence], NEW r \in BOOLEAN
    PROVE  /\ Onward(c, step, x, e, r) \in Op
           /\ Onward(c, step, x, e, r).kind = c.kind
           /\ Onward(c, step, x, e, r).ttl = c.ttl
           /\ Onward(c, step, x, e, r).subject = x
           /\ Onward(c, step, x, e, r).evidence = e
  BY DEF Onward, Op

LEMMA CaptureType ==
    ASSUME TypeOK, NEW p \in Peer, NEW c \in Op
    PROVE  /\ Capture(p, c) \in Subject
           /\ Probe(p, c) \in [Peer -> Evidence]
<1>1. [s \in Scope |-> IF InSubject(p, c, s) THEN locks[s] ELSE NoLock] \in LockTable
  BY DEF TypeOK, LockTable
<1>2. [o \in Peer |-> IF o \in Judged(p, c) THEN identity[o] ELSE 0] \in [Peer -> Nat]
  BY DEF TypeOK
<1>3. safety.grace \in Nat
  BY DEF TypeOK, Safety
<1>4. Capture(p, c) \in Subject
  BY <1>1, <1>2, <1>3 DEF Capture, Subject
<1>5. Probe(p, c) \in [Peer -> Evidence]
  BY DEF Probe, TypeOK, Evidence
<1> QED
  BY <1>4, <1>5

\* A renewal maps lock tables to lock tables.
LEMMA RenewOwnedType ==
    ASSUME NEW table \in LockTable, NEW owners \in SUBSET Peer, NEW t \in Nat,
           NEW all \in BOOLEAN, NEW override \in Nat, NEW cap \in Nat
    PROVE  RenewOwned(table, owners, t, all, override, cap) \in LockTable
<1> DEFINE length(row) ==
        IF override > 0 THEN override
        ELSE IF cap > 0 THEN Smaller(row.ttl, cap) ELSE row.ttl
    new(row) == [ owner |-> row.owner, expires |-> Larger(row.expires, t + length(row)),
                  ttl |-> IF override > 0 THEN override ELSE row.ttl ]
<1>1. ASSUME NEW row \in Lock
      PROVE  new(row) \in Lock
  <2>1. row.owner \in Peer /\ row.expires \in Nat /\ row.ttl \in Nat \ {0}
    BY DEF Lock
  <2>2. length(row) \in Nat
    BY <2>1 DEF Smaller
  <2>3. Larger(row.expires, t + length(row)) \in Nat
    <3> HIDE DEF length
    <3> QED
      BY <2>1, <2>2 DEF Larger
  <2>4. (IF override > 0 THEN override ELSE row.ttl) \in Nat \ {0}
    BY <2>1
  <2> HIDE DEF length
  <2> QED
    BY <2>1, <2>3, <2>4 DEF Lock
<1>2. ASSUME NEW s \in Scope, table[s].owner \in owners
      PROVE  table[s] \in Lock
  BY <1>2, LeasesAssumption DEF LockTable, NoLock
<1>3. ASSUME NEW s \in Scope
      PROVE  table[s] \in Lock \cup {NoLock}
  BY DEF LockTable
<1>4. RenewOwned(table, owners, t, all, override, cap) =
        [s \in Scope |-> IF table[s].owner \in owners /\ (all \/ table[s].expires > t)
                         THEN new(table[s]) ELSE table[s]]
  BY DEF RenewOwned
<1> HIDE DEF new
<1>5. ASSUME NEW s \in Scope
      PROVE  (IF table[s].owner \in owners /\ (all \/ table[s].expires > t)
              THEN new(table[s]) ELSE table[s]) \in Lock \cup {NoLock}
  BY <1>1, <1>2, <1>3
<1> QED
  BY <1>4, <1>5 DEF LockTable

\* What an observation leaves behind.
LEMMA VerdictType ==
    ASSUME TypeOK, NEW p \in Peer, NEW c \in Op, NEW cuts
    PROVE  /\ Verdict(p, c, cuts) \in Safety
           /\ Rescued(p, c) \in SUBSET Peer
           /\ Extended(p, c) \in LockTable
<1>1. c.at \in Nat
  BY DEF Op
<1>2. Verdict(p, c, cuts) \in Safety
  BY <1>1, ObservedType DEF TypeOK, Verdict, Jump
<1>3. ASSUME NEW x \in Candidates(p, c)
      PROVE  x.owner \in Peer
  <2>1. PICK s \in Scope :
          /\ c.subject.rows[s] # NoLock
          /\ x = [ owner |-> c.subject.rows[s].owner,
                   boundary |-> c.subject.rows[s].expires,
                   evidence |-> c.evidence[c.subject.rows[s].owner] ]
    BY <1>3 DEF Candidates
  <2>2. c.subject.rows[s] \in Lock
    BY <2>1 DEF Op, Subject, LockTable
  <2> QED
    BY <2>1, <2>2 DEF Lock
<1>4. Rescued(p, c) \in SUBSET Peer
  BY <1>3 DEF Rescued, RenewableOwners
<1>5. Extended(p, c) \in LockTable
  <2>1. locks \in LockTable
    BY DEF TypeOK
  <2> QED
    BY <1>1, <1>4, <2>1, RenewOwnedType DEF Extended
<1> QED
  BY <1>2, <1>4, <1>5

LEMMA SetLocksType ==
    ASSUME TypeOK, NEW table \in LockTable, SetLocks(table)
    PROVE  locks' \in LockTable /\ owed' \in [Scope -> Nat]
  BY DEF TypeOK, SetLocks

LEMMA SetOpType ==
    ASSUME TypeOK, NEW p \in Peer, NEW c \in Op, SetOp(p, c),
           c.kind \in Acquiring \cup {"renew"} => c.ttl # 0
    PROVE  /\ op' \in [Peer -> Op]
           /\ \A q \in Peer : op'[q] = IF q = p THEN c ELSE op[q]
           /\ \A q \in Peer : op'[q].kind \in Acquiring \cup {"renew"} => op'[q].ttl # 0
<1>1. op \in [Peer -> Op]
  BY DEF TypeOK
<1>2. \A q \in Peer : op'[q] = IF q = p THEN c ELSE op[q]
  BY <1>1 DEF SetOp
<1>3. op' \in [Peer -> Op]
  BY <1>1 DEF SetOp
<1> QED
  BY <1>2, <1>3 DEF TypeOK

-----------------------------------------------------------------------------
(* The inductive invariant.                                                *)

\* Evidence that is sound for the present rows and processes.
Sound(c) ==
    \A o \in Peer :
        /\ c.subject.owners[o] <= identity[o]
        /\ c.subject.owners[o] = identity[o] =>
              (proc[o] # "dead" => c.evidence[o] = proc[o])

\* A step that moves one command to a sound state keeps every command sound.
LEMMA CommandStep ==
    ASSUME IInv, NEW p \in Peer, NEW c \in Op, SetOp(p, c), Sound(c),
           c.kind \in Acquiring \cup {"renew"} => c.ttl # 0,
           identity' = identity, proc' = proc
    PROVE  /\ op' \in [Peer -> Op]
           /\ \A q \in Peer : op'[q].kind \in Acquiring \cup {"renew"} => op'[q].ttl # 0
           /\ RowsAreOld' /\ EvidenceHolds'
<1>1. TypeOK
  BY DEF IInv
<1>2. /\ op' \in [Peer -> Op]
      /\ \A q \in Peer : op'[q] = IF q = p THEN c ELSE op[q]
      /\ \A q \in Peer : op'[q].kind \in Acquiring \cup {"renew"} => op'[q].ttl # 0
  BY <1>1, SetOpType
<1>3. RowsAreOld'
  BY <1>2 DEF IInv, RowsAreOld, Sound
<1>4. EvidenceHolds'
  BY <1>2 DEF IInv, EvidenceHolds, Sound
<1> QED
  BY <1>2, <1>3, <1>4

\* A command that has captured nothing is sound.
LEMMA NothingCapturedIsSound ==
    ASSUME TypeOK, NEW c, c.subject = NoSubject
    PROVE  Sound(c)
<1>1. \A o \in Peer : c.subject.owners[o] = 0 /\ identity[o] \in Nat \ {0}
  BY DEF NoSubject, TypeOK
<1> QED
  BY <1>1 DEF Sound

LEMMA IdleIsSound == ASSUME TypeOK PROVE Sound(Idle)
<1>1. Idle.subject = NoSubject
  BY DEF Idle
<1> QED
  BY <1>1, NothingCapturedIsSound

\* What is captured and probed in one step is sound.
LEMMA CapturedIsSound ==
    ASSUME TypeOK, NEW p \in Peer, NEW c \in Op, NEW d,
           d.subject = Capture(p, c), d.evidence = Probe(p, c)
    PROVE  Sound(d)
<1>1. ASSUME NEW o \in Peer
      PROVE  /\ d.subject.owners[o] = IF o \in Judged(p, c) THEN identity[o] ELSE 0
             /\ d.evidence[o] = IF o \in Judged(p, c) THEN proc[o] ELSE "unknown"
             /\ identity[o] \in Nat \ {0}
  BY DEF Capture, Probe, TypeOK
<1> QED
  BY <1>1 DEF Sound

LEMMA InitIInv == Init => IInv
<1> SUFFICES ASSUME Init PROVE IInv
  OBVIOUS
<1>1. Idle.subject = NoSubject /\ Idle.kind = "none" /\ Idle \in Op
  BY IdleType DEF Idle
<1>2. TypeOK
  <2>1. locks \in LockTable
    BY DEF Init, LockTable
  <2>2. safety \in Safety
    BY DEF Init, FreshSafety, Safety
  <2> QED
    BY <1>1, <2>1, <2>2 DEF Init, TypeOK, Acquiring
<1>3. \A p \in Peer : op[p] = Idle
  BY DEF Init
<1>4. \A o \in Peer : Idle.subject.owners[o] = 0 /\ identity[o] = 1
  BY <1>1 DEF Init, NoSubject
<1>5. RowsAreOld
  BY <1>3, <1>4 DEF RowsAreOld
<1>6. EvidenceHolds
  BY <1>3, <1>4 DEF EvidenceHolds
<1> QED
  BY <1>2, <1>5, <1>6 DEF IInv

\* A step that ends or advances one command, leaves peers and processes alone
\* and writes well-typed tables keeps the invariant.
LEMMA DatabaseStep ==
    ASSUME IInv, NEW p \in Peer, NEW c \in Op, SetOp(p, c), Sound(c),
           c.kind \in Acquiring \cup {"renew"} => c.ttl # 0,
           UNCHANGED Environment, safety' \in Safety,
           locks' \in LockTable, owed' \in [Scope -> Nat]
    PROVE  IInv'
<1>1. UNCHANGED <<clock, jumps, begun, identity, proc>>
  BY DEF Environment, Clock
<1>2. /\ op' \in [Peer -> Op]
      /\ \A q \in Peer : op'[q].kind \in Acquiring \cup {"renew"} => op'[q].ttl # 0
      /\ RowsAreOld' /\ EvidenceHolds'
  BY <1>1, CommandStep
<1>3. TypeOK'
  BY <1>1, <1>2 DEF IInv, TypeOK
<1> QED
  BY <1>2, <1>3 DEF IInv

\* Steps of the environment touch no command.
LEMMA EnvironmentStep ==
    ASSUME IInv, UNCHANGED <<op, locks, safety>>,
           clock' \in Nat, jumps' \in [forward : Nat, backward : Nat],
           begun' \in Nat, identity' \in [Peer -> Nat \ {0}],
           proc' \in [Peer -> Evidence], owed' \in [Scope -> Nat],
           \A o \in Peer :
              \/ identity'[o] > identity[o]
              \/ identity'[o] = identity[o] /\ proc'[o] \in {"dead", proc[o]}
    PROVE  IInv'
<1>1. TypeOK'
  BY DEF IInv, TypeOK
<1>2. \A p, o \in Peer : op[p].subject.owners[o] \in Nat /\ identity[o] \in Nat
                         /\ identity'[o] \in Nat
  BY DEF IInv, TypeOK, Op, Subject
<1>3. RowsAreOld'
  BY <1>2 DEF IInv, RowsAreOld
<1>4. EvidenceHolds'
  BY <1>2 DEF IInv, RowsAreOld, EvidenceHolds
<1> QED
  BY <1>1, <1>3, <1>4 DEF IInv

\* The row an acquisition or a plain renewal writes.
LEMMA WrittenRowType ==
    ASSUME TypeOK, NEW p \in Peer, op[p].kind \in Acquiring \cup {"renew"}
    PROVE  /\ [owner |-> p, expires |-> op[p].at + op[p].ttl, ttl |-> op[p].ttl] \in Lock
           /\ op[p].scope \in Scope
<1>1. op[p] \in Op /\ op[p].ttl # 0
  BY DEF TypeOK
<1>2. op[p].at \in Nat /\ op[p].ttl \in Nat \ {0} /\ op[p].scope \in Scope
  BY <1>1 DEF Op
<1> QED
  BY <1>2 DEF Lock

LEMMA StepIInv == IInv /\ [Next]_vars => IInv'
<1> SUFFICES ASSUME IInv, [Next]_vars PROVE IInv'
  OBVIOUS
<1>1. TypeOK
  BY DEF IInv
<1>2. /\ locks \in LockTable /\ owed \in [Scope -> Nat] /\ safety \in Safety
      /\ clock \in Nat /\ jumps \in [forward : Nat, backward : Nat] /\ begun \in Nat
      /\ identity \in [Peer -> Nat \ {0}] /\ proc \in [Peer -> Evidence]
  BY <1>1 DEF TypeOK
<1>3. Idle \in Op /\ Idle.kind = "none" /\ Sound(Idle)
  BY <1>1, IdleType, IdleIsSound DEF Idle
<1>4. "none" \notin Acquiring \cup {"renew"}
  BY DEF Acquiring
<1>5. ASSUME NEW p \in Peer
      PROVE  op[p] \in Op /\ (op[p].kind \in Acquiring \cup {"renew"} => op[p].ttl # 0)
  BY <1>1 DEF TypeOK
<1>6. ASSUME NEW p \in Peer, Begin(p)
      PROVE  IInv'
  <2>1. PICK k \in Command, s \in Scope, ttl \in Nat :
          /\ SetOp(p, Begun(k, clock, s, ttl, 0))
          /\ k \in Acquiring \cup {"renew"} => ttl # 0
    <3>1. /\ Whole \in Scope /\ TTL \subseteq Nat \ {0}
          /\ Commands[p] \subseteq Command
      BY LeasesAssumption
    <3>2. /\ "webHeartbeat" \notin Acquiring \cup {"renew"}
          /\ "heartbeat" \notin Acquiring \cup {"renew"}
          /\ "hook" \notin Acquiring \cup {"renew"}
          /\ "gc" \notin Acquiring \cup {"renew"}
      BY DEF Acquiring
    <3>3. CASE \E k \in Commands[p] \ (Heartbeat \cup {"gc"}), s \in Scope, ttl \in TTL :
                  SetOp(p, Begun(k, clock, s, ttl, 0))
      BY <3>1, <3>3
    <3>4. CASE \E k \in Commands[p] \cap {"webHeartbeat", "heartbeat"}, ttl \in TTL \cup {0} :
                  SetOp(p, Begun(k, clock, Whole, ttl, 0))
      BY <3>1, <3>2, <3>4
    <3>5. CASE \E k \in Commands[p] \cap {"hook", "gc"} :
                  SetOp(p, Begun(k, clock, Whole, 0, 0))
      BY <3>1, <3>2, <3>5
    <3> QED
      BY <1>6, <3>3, <3>4, <3>5 DEF Begin
  <2> DEFINE c == Begun(k, clock, s, ttl, 0)
  <2>2. /\ c \in Op /\ c.kind = k /\ c.ttl = ttl /\ c.subject = NoSubject
    BY <1>2, BegunType DEF Begun
  <2>3. Sound(c)
    BY <1>1, <2>2, NothingCapturedIsSound
  <2>4. /\ begun' = begun + 1
        /\ UNCHANGED <<clock, jumps, identity, proc, locks, owed, safety>>
    BY <1>6 DEF Begin, Clock, Database
  <2> HIDE DEF c
  <2>5. /\ op' \in [Peer -> Op]
        /\ \A q \in Peer : op'[q].kind \in Acquiring \cup {"renew"} => op'[q].ttl # 0
        /\ RowsAreOld' /\ EvidenceHolds'
    BY <2>1, <2>2, <2>3, <2>4, CommandStep DEF c
  <2>6. TypeOK'
    BY <1>2, <2>4, <2>5 DEF TypeOK
  <2> QED
    BY <2>5, <2>6 DEF IInv
<1>7. ASSUME NEW p \in Peer, Observe(p)
      PROVE  IInv'
  <2> DEFINE c == op[p]
             r == FALSE
             d == Onward(c, "observed", Capture(p, c), Probe(p, c), r)
  <2>1. c \in Op /\ r \in BOOLEAN
    BY <1>5
  <2>2. Capture(p, c) \in Subject /\ Probe(p, c) \in [Peer -> Evidence]
    BY <1>1, <2>1, CaptureType
  <2>3. /\ d \in Op /\ d.kind = c.kind /\ d.ttl = c.ttl
        /\ d.subject = Capture(p, c) /\ d.evidence = Probe(p, c)
    <3> HIDE DEF r
    <3> QED
      BY <2>1, <2>2, OnwardType
  <2>4. SetOp(p, d) /\ UNCHANGED <<Environment, Database>>
    BY <1>7 DEF Observe
  <2> HIDE DEF d
  <2>5. Sound(d)
    BY <1>1, <2>1, <2>3, CapturedIsSound
  <2>6. d.kind \in Acquiring \cup {"renew"} => d.ttl # 0
    BY <1>5, <2>3
  <2> QED
    BY <1>2, <2>3, <2>4, <2>5, <2>6, DatabaseStep DEF Database
<1>8. ASSUME NEW p \in Peer, StartOver(p)
      PROVE  IInv'
  <2> DEFINE c == op[p]
             d == IF c.tries + 1 < Attempts(c.kind)
                  THEN Begun(c.kind, c.at, c.scope, c.ttl, c.tries + 1) ELSE Idle
  <2>1. /\ c \in Op /\ c.kind \in Command
        /\ SetOp(p, d) /\ UNCHANGED <<Environment, Database>>
    BY <1>5, <1>8 DEF StartOver, Command
  <2>2. /\ c.at \in Nat /\ c.scope \in Scope /\ c.ttl \in Nat /\ c.tries + 1 \in Nat
    BY <2>1 DEF Op
  <2>3. /\ d \in Op /\ d.subject = NoSubject
        /\ d.kind \in Acquiring \cup {"renew"} => d.ttl # 0
    <3>1. CASE c.tries + 1 < Attempts(c.kind)
      <4>1. d = Begun(c.kind, c.at, c.scope, c.ttl, c.tries + 1)
        BY <3>1
      <4>2. d \in Op
        BY <2>1, <2>2, <4>1, BegunType
      <4>3. d.subject = NoSubject /\ d.kind = c.kind /\ d.ttl = c.ttl
        BY <4>1 DEF Begun
      <4> QED
        BY <1>5, <4>2, <4>3
    <3>2. CASE ~(c.tries + 1 < Attempts(c.kind))
      <4>1. d = Idle
        BY <3>2
      <4> HIDE DEF d
      <4> QED
        BY <1>3, <1>4, <4>1 DEF Idle
    <3> QED
      BY <3>1, <3>2
  <2> HIDE DEF d
  <2>4. Sound(d)
    BY <1>1, <2>3, NothingCapturedIsSound
  <2> QED
    BY <1>2, <2>1, <2>3, <2>4, DatabaseStep DEF Database
<1>9. ASSUME NEW p \in Peer, Refuse(p)
      PROVE  IInv'
  <2>1. /\ Verdict(p, op[p], {}) \in Safety /\ Extended(p, op[p]) \in LockTable
    BY <1>1, <1>5, VerdictType
  <2>2. /\ safety' = Verdict(p, op[p], {}) /\ SetLocks(Extended(p, op[p]))
        /\ SetOp(p, Idle) /\ UNCHANGED Environment
    BY <1>9 DEF Refuse
  <2>3. locks' \in LockTable /\ owed' \in [Scope -> Nat]
    BY <1>1, <2>1, <2>2, SetLocksType
  <2> QED
    BY <1>3, <1>4, <2>1, <2>2, <2>3, DatabaseStep
<1>10. ASSUME NEW p \in Peer, Grant(p)
       PROVE  IInv'
  <2> DEFINE row == [owner |-> p, expires |-> op[p].at + op[p].ttl, ttl |-> op[p].ttl]
             table == [Extended(p, op[p]) EXCEPT ![op[p].scope] = row]
  <2>1. /\ Verdict(p, op[p], {}) \in Safety /\ Extended(p, op[p]) \in LockTable
    BY <1>1, <1>5, VerdictType
  <2>2. /\ op[p].kind \in Acquiring
        /\ safety' = Verdict(p, op[p], {}) /\ SetLocks(table)
        /\ SetOp(p, Idle) /\ UNCHANGED Environment
    BY <1>10 DEF Grant
  <2>3. row \in Lock /\ op[p].scope \in Scope
    BY <1>1, <2>2, WrittenRowType
  <2> HIDE DEF row
  <2>4. table \in LockTable
    BY <2>1, <2>3 DEF LockTable
  <2> HIDE DEF table
  <2>5. locks' \in LockTable /\ owed' \in [Scope -> Nat]
    BY <1>1, <2>2, <2>4, SetLocksType
  <2> QED
    BY <1>3, <1>4, <2>1, <2>2, <2>5, DatabaseStep
<1>11. ASSUME NEW p \in Peer, Renew(p)
       PROVE  IInv'
  <2> DEFINE row == [owner |-> p, expires |-> op[p].at + op[p].ttl, ttl |-> op[p].ttl]
             table == IF locks[op[p].scope].owner = p
                      THEN [locks EXCEPT ![op[p].scope] = row] ELSE locks
  <2>1. /\ op[p].kind = "renew" /\ SetLocks(table)
        /\ SetOp(p, Idle) /\ UNCHANGED <<Environment, safety>>
    BY <1>11 DEF Renew
  <2>2. row \in Lock /\ op[p].scope \in Scope
    BY <1>1, <2>1, WrittenRowType
  <2> HIDE DEF row
  <2>3. table \in LockTable
    BY <1>2, <2>2 DEF LockTable
  <2> HIDE DEF table
  <2>4. locks' \in LockTable /\ owed' \in [Scope -> Nat]
    BY <1>1, <2>1, <2>3, SetLocksType
  <2> QED
    BY <1>2, <1>3, <1>4, <2>1, <2>4, DatabaseStep
<1>12. ASSUME NEW p \in Peer, WebHeartbeat(p)
       PROVE  IInv'
  <2> DEFINE table == RenewOwned(Extended(p, op[p]), {p}, op[p].at,
                                 op[p].evidence[p] = "live", op[p].ttl, 0)
  <2>1. /\ Verdict(p, op[p], {}) \in Safety /\ Extended(p, op[p]) \in LockTable
    BY <1>1, <1>5, VerdictType
  <2>2. /\ safety' = Verdict(p, op[p], {}) /\ SetLocks(table)
        /\ SetOp(p, Idle) /\ UNCHANGED Environment
    BY <1>12 DEF WebHeartbeat
  <2>3. op[p].at \in Nat /\ op[p].ttl \in Nat /\ (op[p].evidence[p] = "live") \in BOOLEAN
    BY <1>5 DEF Op
  <2>4. table \in LockTable
    BY <2>1, <2>3, RenewOwnedType
  <2> HIDE DEF table
  <2>5. locks' \in LockTable /\ owed' \in [Scope -> Nat]
    BY <1>1, <2>2, <2>4, SetLocksType
  <2> QED
    BY <1>3, <1>4, <2>1, <2>2, <2>5, DatabaseStep
<1>13. ASSUME NEW p \in Peer, ObserveClock(p)
       PROVE  IInv'
  <2> DEFINE r == \E s \in Scope : locks[s].owner \in Rescued(p, op[p])
             d == Onward(op[p], "judged", NoSubject, NoEvidence, r)
  <2>1. /\ Verdict(p, op[p], {}) \in Safety /\ Extended(p, op[p]) \in LockTable
    BY <1>1, <1>5, VerdictType
  <2>2. /\ safety' = Verdict(p, op[p], {}) /\ SetLocks(Extended(p, op[p]))
        /\ SetOp(p, d) /\ UNCHANGED Environment
    BY <1>13 DEF ObserveClock
  <2>3. locks' \in LockTable /\ owed' \in [Scope -> Nat]
    BY <1>1, <2>1, <2>2, SetLocksType
  <2>4. r \in BOOLEAN
    OBVIOUS
  <2> HIDE DEF r
  <2>5. /\ d \in Op /\ d.kind = op[p].kind /\ d.ttl = op[p].ttl
        /\ d.subject = NoSubject
    BY <1>5, <2>4, OnwardType, NoSubjectType
  <2> HIDE DEF d
  <2>6. Sound(d)
    BY <1>1, <2>5, NothingCapturedIsSound
  <2>7. d.kind \in Acquiring \cup {"renew"} => d.ttl # 0
    BY <1>5, <2>5
  <2> QED
    BY <2>1, <2>2, <2>3, <2>5, <2>6, <2>7, DatabaseStep
<1>14. ASSUME NEW p \in Peer, RenewAfterwards(p)
       PROVE  IInv'
  <2> DEFINE t1 == RenewOwned(locks, {p}, op[p].at, TRUE, 0, HookCap)
             t2 == RenewOwned(locks, {p}, op[p].at, proc[p] = "live", op[p].ttl, 0)
             table == IF op[p].renewed /\ op[p].ttl = 0 THEN locks
                      ELSE IF op[p].kind = "hook" THEN t1 ELSE t2
  <2>1. /\ SetLocks(table) /\ SetOp(p, Idle) /\ UNCHANGED <<Environment, safety>>
    BY <1>14 DEF RenewAfterwards
  <2>2. /\ op[p].at \in Nat /\ op[p].ttl \in Nat /\ HookCap \in Nat
        /\ (proc[p] = "live") \in BOOLEAN
    BY <1>5, LeasesAssumption DEF Op
  <2>3. t1 \in LockTable /\ t2 \in LockTable
    BY <1>2, <2>2, RenewOwnedType
  <2> HIDE DEF t1, t2
  <2>4. table \in LockTable
    BY <1>2, <2>3
  <2> HIDE DEF table
  <2>5. locks' \in LockTable /\ owed' \in [Scope -> Nat]
    BY <1>1, <2>1, <2>4, SetLocksType
  <2> QED
    BY <1>2, <1>3, <1>4, <2>1, <2>5, DatabaseStep
<1>15. ASSUME NEW p \in Peer, PlanGc(p)
       PROVE  IInv'
  <2>1. PICK cuts \in Cutoffs(op[p]) :
          /\ safety' = Verdict(p, op[p], cuts)
          /\ SetOp(p, IF Suppressed(op[p].at, Verdict(p, op[p], cuts).grace) THEN Idle
                      ELSE Onward(op[p], "judged", op[p].subject, op[p].evidence, FALSE))
    BY <1>15 DEF PlanGc
  <2>2. SetLocks(Extended(p, op[p])) /\ UNCHANGED Environment
    BY <1>15 DEF PlanGc
  <2>3. /\ Verdict(p, op[p], cuts) \in Safety /\ Extended(p, op[p]) \in LockTable
    BY <1>1, <1>5, VerdictType
  <2>4. locks' \in LockTable /\ owed' \in [Scope -> Nat]
    BY <1>1, <2>2, <2>3, SetLocksType
  <2> DEFINE r == FALSE
             d == Onward(op[p], "judged", op[p].subject, op[p].evidence, r)
  <2>5. /\ op[p].subject \in Subject /\ op[p].evidence \in [Peer -> Evidence]
        /\ r \in BOOLEAN
    BY <1>5 DEF Op
  <2>6. /\ d \in Op /\ d.kind = op[p].kind /\ d.ttl = op[p].ttl
        /\ d.subject = op[p].subject /\ d.evidence = op[p].evidence
    <3> HIDE DEF r
    <3> QED
      BY <1>5, <2>5, OnwardType
  <2>7. SetOp(p, Idle) \/ SetOp(p, d)
    BY <2>1
  <2> HIDE DEF d
  <2>8. Sound(d)
    BY <2>6 DEF Sound, IInv, RowsAreOld, EvidenceHolds
  <2>9. d.kind \in Acquiring \cup {"renew"} => d.ttl # 0
    BY <1>5, <2>6
  <2>10. CASE SetOp(p, Idle)
    BY <1>3, <1>4, <2>1, <2>2, <2>3, <2>4, <2>10, DatabaseStep
  <2>11. CASE SetOp(p, d)
    BY <2>1, <2>2, <2>3, <2>4, <2>6, <2>8, <2>9, <2>11, DatabaseStep
  <2> QED
    BY <2>7, <2>10, <2>11
<1>16. ASSUME NEW p \in Peer, CollectGc(p)
       PROVE  IInv'
  <2> DEFINE table == [ s \in Scope |->
               IF ~Suppressed(clock, safety.grace) /\ Collectable(op[p], s)
               THEN NoLock ELSE locks[s] ]
  <2>1. SetLocks(table) /\ SetOp(p, Idle) /\ UNCHANGED <<Environment, safety>>
    BY <1>16 DEF CollectGc
  <2>2. table \in LockTable
    BY <1>2 DEF LockTable
  <2> HIDE DEF table
  <2>3. locks' \in LockTable /\ owed' \in [Scope -> Nat]
    BY <1>1, <2>1, <2>2, SetLocksType
  <2> QED
    BY <1>2, <1>3, <1>4, <2>1, <2>3, DatabaseStep
<1>17. ASSUME NEW p \in Peer, Crash(p)
       PROVE  IInv'
  <2>1. SetOp(p, Idle) /\ UNCHANGED <<Environment, Database>>
    BY <1>17 DEF Crash
  <2> QED
    BY <1>2, <1>3, <1>4, <2>1, DatabaseStep DEF Database
<1>18. ASSUME NEW p \in Peer, NativeHook(p)
       PROVE  IInv'
  <2> DEFINE table == RenewOwned(locks, {p}, clock, TRUE, 0, HookCap)
  <2>1. SetLocks(table) /\ UNCHANGED <<Environment, op, safety>>
    BY <1>18 DEF NativeHook
  <2>2. table \in LockTable
    BY <1>2, LeasesAssumption, RenewOwnedType
  <2> HIDE DEF table
  <2>3. locks' \in LockTable /\ owed' \in [Scope -> Nat]
    BY <1>1, <2>1, <2>2, SetLocksType
  <2>4. UNCHANGED <<clock, jumps, begun, identity, proc, op, safety>>
    BY <2>1 DEF Environment, Clock
  <2> QED
    BY <2>3, <2>4 DEF IInv, TypeOK, RowsAreOld, EvidenceHolds
<1>19. ASSUME NEW p \in Peer, NEW s \in Scope, NEW force \in BOOLEAN, Release(p, s, force)
       PROVE  IInv'
  <2> DEFINE table == [locks EXCEPT ![s] = NoLock]
  <2>1. SetLocks(table) /\ UNCHANGED <<Environment, op, safety>>
    BY <1>19 DEF Release
  <2>2. table \in LockTable
    BY <1>2 DEF LockTable
  <2> HIDE DEF table
  <2>3. locks' \in LockTable /\ owed' \in [Scope -> Nat]
    BY <1>1, <2>1, <2>2, SetLocksType
  <2>4. UNCHANGED <<clock, jumps, begun, identity, proc, op, safety>>
    BY <2>1 DEF Environment, Clock
  <2> QED
    BY <2>3, <2>4 DEF IInv, TypeOK, RowsAreOld, EvidenceHolds
<1>20. ASSUME NEW p \in Peer, ProcessDies(p)
       PROVE  IInv'
  <2>1. /\ proc' = [proc EXCEPT ![p] = "dead"]
        /\ UNCHANGED <<clock, jumps, begun, identity, op, locks, owed, safety>>
    BY <1>20 DEF ProcessDies, Clock, Database
  <2>2. /\ proc' \in [Peer -> Evidence]
        /\ \A o \in Peer : proc'[o] \in {"dead", proc[o]}
    BY <1>2, <2>1 DEF Evidence
  <2> QED
    BY <1>2, <2>1, <2>2, EnvironmentStep
<1>21. ASSUME NEW p \in Peer, Register(p)
       PROVE  IInv'
  <2>1. /\ identity' = [identity EXCEPT ![p] = identity[p] + 1]
        /\ UNCHANGED <<clock, jumps, begun, op, locks, owed, safety>>
    BY <1>21 DEF Register, Clock, Database
  <2>2. PICK e \in Probes[p] \ {"dead"} : proc' = [proc EXCEPT ![p] = e]
    BY <1>21 DEF Register
  <2>3. e \in Evidence
    BY <2>2, LeasesAssumption
  <2>4. proc' \in [Peer -> Evidence]
    BY <1>2, <2>2, <2>3
  <2>5. identity' \in [Peer -> Nat \ {0}]
    BY <1>2, <2>1
  <2>6. \A o \in Peer :
          \/ identity'[o] > identity[o]
          \/ identity'[o] = identity[o] /\ proc'[o] \in {"dead", proc[o]}
    BY <1>2, <2>1, <2>2
  <2> QED
    BY <1>2, <2>1, <2>4, <2>5, <2>6, EnvironmentStep
<1>22. CASE Tick
  <2>1. clock' = clock + 1 /\ UNCHANGED <<jumps, begun, identity, proc, op, locks, owed, safety>>
    BY <1>22 DEF Tick, Database
  <2>2. clock' \in Nat
    BY <1>2, <2>1
  <2> QED
    BY <1>2, <2>1, <2>2, EnvironmentStep
<1>23. CASE JumpForward
  <2>1. /\ clock' \in (clock + GapThreshold + 1)..MaxTime
        /\ jumps' = [jumps EXCEPT !.forward = @ + 1]
        /\ owed' = [ s \in Scope |->
             IF Held(s) /\ Crossed(clock, clock', locks[s].expires)
             THEN clock' + ClockGrace ELSE owed[s] ]
        /\ UNCHANGED <<begun, identity, proc, op, locks, safety>>
    BY <1>23 DEF JumpForward
  <2>2. clock' \in Nat
    BY <1>2, <2>1, ClockAssumption, LeasesAssumption
  <2>3. jumps' \in [forward : Nat, backward : Nat]
    BY <1>2, <2>1
  <2>4. owed' \in [Scope -> Nat]
    BY <1>2, <2>1, <2>2, ClockAssumption
  <2> QED
    BY <1>2, <2>1, <2>2, <2>3, <2>4, EnvironmentStep
<1>24. CASE JumpBackward
  <2>1. /\ clock' \in 0..(clock - 1)
        /\ jumps' = [jumps EXCEPT !.backward = @ + 1]
        /\ owed' = [s \in Scope |-> 0]
        /\ UNCHANGED <<begun, identity, proc, op, locks, safety>>
    BY <1>24 DEF JumpBackward
  <2>2. clock' \in Nat
    BY <2>1
  <2>3. jumps' \in [forward : Nat, backward : Nat]
    BY <1>2, <2>1
  <2>4. owed' \in [Scope -> Nat]
    BY <2>1
  <2> QED
    BY <1>2, <2>1, <2>2, <2>3, <2>4, EnvironmentStep
<1>25. CASE UNCHANGED vars
  BY <1>25 DEF vars, IInv, TypeOK, RowsAreOld, EvidenceHolds
<1> QED
  BY <1>6, <1>7, <1>8, <1>9, <1>10, <1>11, <1>12, <1>13, <1>14, <1>15, <1>16,
     <1>17, <1>18, <1>19, <1>20, <1>21, <1>22, <1>23, <1>24, <1>25 DEF Next

\* The variables of Leases have their types, whatever the commands do.
THEOREM TypeCorrect == Spec => []TypeOK
<1>1. IInv => TypeOK
  BY DEF IInv
<1> QED
  BY InitIInv, StepIInv, <1>1, PTL DEF Spec

-----------------------------------------------------------------------------
(* Who may lose a lease.                                                   *)

\* The row an acquisition displaces is expired in the eyes of the command, and
\* the evidence about its owner, which the second capture has confirmed to be
\* about the process the peer row names, lets it go.
LEMMA GrantDisplaces ==
    ASSUME IInv, NEW p \in Peer, Grant(p), NEW s \in Displaced(p)
    PROVE  /\ locks[s].owner \in Peer
           /\ Expired(locks[s], op[p].at)
           /\ proc[locks[s].owner] # "live"
           /\ op[p].kind = "acquire" => proc[locks[s].owner] # "protected"
<1> DEFINE c == op[p]
           o == locks[s].owner
           grace == Verdict(p, c, {}).grace
<1>1. /\ c.kind \in Acquiring /\ Unchanged(p, c) /\ ~Refused(p, c, grace)
  BY DEF Grant
<1>2. /\ s \in Scope /\ Held(s) /\ o # p /\ Conflict(s, c.scope)
  BY <1>1 DEF Displaced, Acquiring
<1>3. locks[s] \in Lock /\ o \in Peer
  BY <1>2 DEF IInv, TypeOK, LockTable, Held, Lock
<1>4. InSubject(p, c, s)
  BY <1>1, <1>2 DEF InSubject, Acquiring
<1>5. c.subject.rows[s] = locks[s]
  BY <1>1, <1>2, <1>4 DEF Unchanged, Capture
<1>6. ~Blocks(p, c, locks[s], grace)
  BY <1>1, <1>2, <1>5 DEF Refused
<1> HIDE DEF grace
<1>7. /\ Expired(locks[s], c.at)
      /\ c.evidence[o] # "live"
      /\ c.kind = "acquire" => c.evidence[o] # "protected"
  BY <1>2, <1>6 DEF Blocks, Held
<1>8. o \in Judged(p, c)
  BY <1>1, <1>2, <1>4, <1>7 DEF Judged, Acquiring
<1>9. c.subject.owners[o] = identity[o]
  BY <1>1, <1>3, <1>8 DEF Unchanged, Capture
<1>10. proc[o] # "dead" => c.evidence[o] = proc[o]
  BY <1>3, <1>9 DEF IInv, EvidenceHolds
<1> QED
  BY <1>3, <1>7, <1>10

\* The row a collection deletes is the row it planned to delete.
LEMMA CollectDisplaces ==
    ASSUME IInv, NEW p \in Peer, CollectGc(p), NEW s \in Displaced(p)
    PROVE  /\ s \in Scope
           /\ locks[s].owner \in Peer
           /\ locks[s] = op[p].subject.rows[s] /\ locks[s] # NoLock
           /\ proc[locks[s].owner] \notin {"live", "protected"}
<1> DEFINE c == op[p]
           o == locks[s].owner
<1>1. c.kind = "gc"
  BY DEF CollectGc
<1>2. s \in Scope /\ Held(s) /\ locks'[s] = NoLock
  BY <1>1 DEF Displaced
<1>3. locks'[s] = IF ~Suppressed(clock, safety.grace) /\ Collectable(c, s)
                  THEN NoLock ELSE locks[s]
  BY <1>2 DEF CollectGc, SetLocks
<1>4. Collectable(c, s) /\ locks[s] # NoLock
  BY <1>2, <1>3 DEF Held
<1>5. locks[s] \in Lock /\ o \in Peer
  BY <1>2, <1>4 DEF IInv, TypeOK, LockTable, Lock
<1>6. /\ locks[s] = c.subject.rows[s]
      /\ identity[o] = c.subject.owners[o]
      /\ c.evidence[o] \notin {"live", "protected"}
  BY <1>4 DEF Collectable
<1>7. proc[o] # "dead" => c.evidence[o] = proc[o]
  BY <1>5, <1>6 DEF IInv, EvidenceHolds
<1> QED
  BY <1>2, <1>4, <1>5, <1>6, <1>7

\* Whatever happens between its capture and its transaction, no acquisition
\* and no collection takes a lease from a peer whose process is verifiably
\* there (runOptimisticEvidenceMutation, finalizeGcLockSubjects).
THEOREM LiveOwnerKept == Spec => LiveOwnerKeepsLease
<1> DEFINE Kept == \A p \in Peer : Displaces(p) =>
                     \A s \in Displaced(p) : proc[locks[s].owner] # "live"
<1>1. IInv /\ [Next]_vars => [Kept]_vars
  BY GrantDisplaces, CollectDisplaces DEF Displaces
<1> QED
  BY <1>1, InitIInv, StepIInv, PTL DEF Spec, LiveOwnerKeepsLease

\* Nor do those of the command line take one from a peer whose process is
\* there but cannot be compared with the recorded one (lockAcquire's
\* isPeerEvidenceCompatibilityProtected, planGcLockCandidates).
THEOREM ProtectedOwnerKept == Spec => CommandLineKeepsProtectedOwner
<1> DEFINE Kept == \A p \in Peer : Displaces(p) /\ op[p].kind # "webAcquire" =>
                     \A s \in Displaced(p) : proc[locks[s].owner] # "protected"
<1>1. ASSUME IInv, NEW p \in Peer, Displaces(p), op[p].kind # "webAcquire",
             NEW s \in Displaced(p)
      PROVE  proc[locks[s].owner] # "protected"
  <2>1. CASE Grant(p)
    <3>1. op[p].kind = "acquire"
      BY <1>1, <2>1 DEF Grant, Acquiring
    <3> QED
      BY <1>1, <2>1, <3>1, GrantDisplaces
  <2>2. CASE CollectGc(p)
    BY <1>1, <2>2, CollectDisplaces
  <2> QED
    BY <1>1, <2>1, <2>2 DEF Displaces
<1>2. IInv /\ [Next]_vars => [Kept]_vars
  BY <1>1
<1> QED
  BY <1>2, InitIInv, StepIInv, PTL DEF Spec, CommandLineKeepsProtectedOwner

-----------------------------------------------------------------------------
(* Readings of the clock.                                                  *)

\* Unless the clock has stepped back, no command has a reading from the
\* future; and what gc has captured had ended by its reading.
ReadBefore(c) == jumps.backward = 0 => c.at <= clock
CapturedAfterEnd(c) ==
    c.kind = "gc" =>
        \A s \in Scope : c.subject.rows[s] # NoLock => c.subject.rows[s].expires < c.at

ClockInv == \A p \in Peer : ReadBefore(op[p]) /\ CapturedAfterEnd(op[p])

\* A step of one command, to a state with the same properties.
LEMMA ClockCommandStep ==
    ASSUME TypeOK, ClockInv, NEW p \in Peer, NEW c \in Op, SetOp(p, c),
           ReadBefore(c), CapturedAfterEnd(c), UNCHANGED <<clock, jumps>>
    PROVE  ClockInv'
<1>1. \A q \in Peer : op'[q] = IF q = p THEN c ELSE op[q]
  BY DEF TypeOK, SetOp
<1>2. ASSUME NEW q \in Peer
      PROVE  ReadBefore(op[q])' /\ CapturedAfterEnd(op[q])'
  <2>1. CASE q = p
    <3>1. op'[q] = c
      BY <1>1, <2>1
    <3> QED
      BY <3>1 DEF ReadBefore, CapturedAfterEnd
  <2>2. CASE q # p
    <3>1. op'[q] = op[q]
      BY <1>1, <2>2
    <3>2. ReadBefore(op[q]) /\ CapturedAfterEnd(op[q])
      BY DEF ClockInv
    <3> QED
      BY <3>1, <3>2 DEF ReadBefore, CapturedAfterEnd
  <2> QED
    BY <2>1, <2>2
<1> QED
  BY <1>2 DEF ClockInv

LEMMA IdleIsTimed == ASSUME TypeOK PROVE ReadBefore(Idle) /\ CapturedAfterEnd(Idle)
<1>1. Idle.at = 0 /\ Idle.kind = "none"
  BY DEF Idle
<1>2. clock \in Nat
  BY DEF TypeOK
<1> QED
  BY <1>1, <1>2 DEF ReadBefore, CapturedAfterEnd

\* A command that has captured nothing has captured nothing that runs.
LEMMA NothingCaptured ==
    ASSUME NEW c, c.subject = NoSubject
    PROVE  CapturedAfterEnd(c)
  BY DEF CapturedAfterEnd, NoSubject

LEMMA InitClockInv == Init => ClockInv
<1> SUFFICES ASSUME Init PROVE ClockInv
  OBVIOUS
<1>1. TypeOK
  BY InitIInv DEF IInv
<1>2. \A p \in Peer : op[p] = Idle
  BY DEF Init
<1> QED
  BY <1>1, <1>2, IdleIsTimed DEF ClockInv

LEMMA StepClockInv == IInv /\ ClockInv /\ [Next]_vars => ClockInv'
<1> SUFFICES ASSUME IInv, ClockInv, [Next]_vars PROVE ClockInv'
  OBVIOUS
<1>1. TypeOK /\ Idle \in Op /\ ReadBefore(Idle) /\ CapturedAfterEnd(Idle)
  BY IdleType, IdleIsTimed DEF IInv
<1>2. /\ clock \in Nat /\ jumps \in [forward : Nat, backward : Nat]
  BY <1>1 DEF TypeOK
<1>3. ASSUME NEW p \in Peer
      PROVE  op[p] \in Op /\ ReadBefore(op[p]) /\ CapturedAfterEnd(op[p])
  BY <1>1 DEF TypeOK, ClockInv
\* Most steps end a command.
<1>4. ASSUME NEW p \in Peer, SetOp(p, Idle), UNCHANGED Environment
      PROVE  ClockInv'
  BY <1>1, <1>4, ClockCommandStep DEF Environment, Clock
\* ... some begin one, with a reading of the clock that is not from the future.
<1>5. ASSUME NEW p \in Peer, NEW k \in Command, NEW t \in Nat, NEW s \in Scope,
             NEW ttl \in Nat, NEW n \in Nat, SetOp(p, Begun(k, t, s, ttl, n)),
             jumps.backward = 0 => t <= clock, UNCHANGED <<clock, jumps>>
      PROVE  ClockInv'
  <2> DEFINE c == Begun(k, t, s, ttl, n)
  <2>1. c \in Op /\ c.at = t /\ c.subject = NoSubject
    BY BegunType DEF Begun
  <2> HIDE DEF c
  <2>2. ReadBefore(c) /\ CapturedAfterEnd(c)
    BY <1>5, <2>1, NothingCaptured DEF ReadBefore
  <2> QED
    BY <1>1, <1>5, <2>1, <2>2, ClockCommandStep DEF c
\* ... and some move one on, keeping its reading.
<1>6. ASSUME NEW p \in Peer, NEW step \in {"observed", "judged"}, NEW x \in Subject,
             NEW e \in [Peer -> Evidence], NEW r \in BOOLEAN,
             SetOp(p, Onward(op[p], step, x, e, r)), UNCHANGED <<clock, jumps>>,
             op[p].kind = "gc" => \A s \in Scope :
                x.rows[s] # NoLock => x.rows[s].expires < op[p].at
      PROVE  ClockInv'
  <2> DEFINE c == Onward(op[p], step, x, e, r)
  <2>1. c \in Op /\ c.kind = op[p].kind /\ c.subject = x /\ c.at = op[p].at
    BY <1>3, OnwardType DEF Onward
  <2> HIDE DEF c
  <2>2. ReadBefore(c) /\ CapturedAfterEnd(c)
    BY <1>3, <1>6, <2>1 DEF ReadBefore, CapturedAfterEnd
  <2> QED
    BY <1>1, <1>6, <2>1, <2>2, ClockCommandStep DEF c
\* ... the rest leave commands alone.
<1>7. ASSUME UNCHANGED op, clock' \in Nat,
             jumps'.backward = 0 => jumps.backward = 0 /\ clock <= clock'
      PROVE  ClockInv'
  <2>1. \A p \in Peer : op[p].at \in Nat
    BY <1>3 DEF Op
  <2> QED
    BY <1>2, <1>7, <2>1 DEF ClockInv, ReadBefore, CapturedAfterEnd
<1>8. ASSUME NEW p \in Peer, Begin(p)
      PROVE  ClockInv'
  <2>1. Whole \in Scope /\ TTL \subseteq Nat \ {0} /\ Commands[p] \subseteq Command
    BY LeasesAssumption
  <2>2. PICK k \in Command, s \in Scope, ttl \in Nat :
          SetOp(p, Begun(k, clock, s, ttl, 0))
    <3>1. CASE \E k \in Commands[p] \ (Heartbeat \cup {"gc"}), s \in Scope, ttl \in TTL :
                  SetOp(p, Begun(k, clock, s, ttl, 0))
      BY <2>1, <3>1
    <3>2. CASE \E k \in Commands[p] \cap {"webHeartbeat", "heartbeat"}, ttl \in TTL \cup {0} :
                  SetOp(p, Begun(k, clock, Whole, ttl, 0))
      BY <2>1, <3>2
    <3>3. CASE \E k \in Commands[p] \cap {"hook", "gc"} :
                  SetOp(p, Begun(k, clock, Whole, 0, 0))
      BY <2>1, <3>3
    <3> QED
      BY <1>8, <3>1, <3>2, <3>3 DEF Begin
  <2>3. UNCHANGED <<clock, jumps>>
    BY <1>8 DEF Begin, Clock
  <2> QED
    BY <1>2, <1>5, <2>2, <2>3
<1>9. ASSUME NEW p \in Peer, Observe(p)
      PROVE  ClockInv'
  <2> DEFINE r == FALSE
  <2>1. /\ Capture(p, op[p]) \in Subject /\ Probe(p, op[p]) \in [Peer -> Evidence]
        /\ r \in BOOLEAN
    BY <1>1, <1>3, CaptureType
  <2>2. /\ SetOp(p, Onward(op[p], "observed", Capture(p, op[p]), Probe(p, op[p]), r))
        /\ UNCHANGED <<clock, jumps>>
    BY <1>9 DEF Observe, Environment, Clock
  <2>3. ASSUME op[p].kind = "gc", NEW s \in Scope, Capture(p, op[p]).rows[s] # NoLock
        PROVE  Capture(p, op[p]).rows[s].expires < op[p].at
    <3>1. Capture(p, op[p]).rows[s] =
            IF InSubject(p, op[p], s) THEN locks[s] ELSE NoLock
      BY DEF Capture
    <3>2. InSubject(p, op[p], s) /\ Capture(p, op[p]).rows[s] = locks[s]
      BY <2>3, <3>1
    <3> QED
      BY <2>3, <3>2 DEF InSubject
  <2> HIDE DEF r
  <2> QED
    BY <1>6, <2>1, <2>2, <2>3
<1>10. ASSUME NEW p \in Peer, StartOver(p)
       PROVE  ClockInv'
  <2>1. op[p].kind \in Command /\ UNCHANGED Environment
    BY <1>10 DEF StartOver, Command
  <2>2. /\ op[p].at \in Nat /\ op[p].scope \in Scope /\ op[p].ttl \in Nat
        /\ op[p].tries + 1 \in Nat /\ (jumps.backward = 0 => op[p].at <= clock)
    BY <1>3 DEF Op, ReadBefore
  <2>3. \/ SetOp(p, Idle)
        \/ SetOp(p, Begun(op[p].kind, op[p].at, op[p].scope, op[p].ttl, op[p].tries + 1))
    BY <1>10 DEF StartOver
  <2>4. UNCHANGED <<clock, jumps>>
    BY <2>1 DEF Environment, Clock
  <2> QED
    BY <1>4, <1>5, <2>1, <2>2, <2>3, <2>4
<1>11. ASSUME NEW p \in Peer, ObserveClock(p)
       PROVE  ClockInv'
  <2> DEFINE r == \E s \in Scope : locks[s].owner \in Rescued(p, op[p])
  <2>1. /\ SetOp(p, Onward(op[p], "judged", NoSubject, NoEvidence, r))
        /\ op[p].kind # "gc" /\ UNCHANGED <<clock, jumps>>
    BY <1>11 DEF ObserveClock, Environment, Clock
  <2>2. r \in BOOLEAN
    OBVIOUS
  <2> HIDE DEF r
  <2> QED
    BY <1>6, <2>1, <2>2, NoSubjectType
<1>12. ASSUME NEW p \in Peer, PlanGc(p)
       PROVE  ClockInv'
  <2> DEFINE r == FALSE
  <2>1. /\ \/ SetOp(p, Idle)
           \/ SetOp(p, Onward(op[p], "judged", op[p].subject, op[p].evidence, r))
        /\ UNCHANGED Environment
    BY <1>12 DEF PlanGc
  <2>2. /\ op[p].subject \in Subject /\ op[p].evidence \in [Peer -> Evidence]
        /\ r \in BOOLEAN
    BY <1>3 DEF Op
  <2>3. UNCHANGED <<clock, jumps>>
    BY <2>1 DEF Environment, Clock
  <2> HIDE DEF r
  <2>4. op[p].kind = "gc" => \A s \in Scope :
          op[p].subject.rows[s] # NoLock => op[p].subject.rows[s].expires < op[p].at
    BY <1>3 DEF CapturedAfterEnd
  <2> QED
    BY <1>4, <1>6, <2>1, <2>2, <2>3, <2>4
<1>13. ASSUME NEW p \in Peer,
              Refuse(p) \/ Grant(p) \/ Renew(p) \/ WebHeartbeat(p)
                \/ RenewAfterwards(p) \/ CollectGc(p) \/ Crash(p)
       PROVE  ClockInv'
  BY <1>4, <1>13 DEF Refuse, Grant, Renew, WebHeartbeat, RenewAfterwards,
                     CollectGc, Crash
<1>14. ASSUME NEW p \in Peer,
              \/ NativeHook(p) \/ ProcessDies(p) \/ Register(p)
              \/ \E s \in Scope, force \in BOOLEAN : Release(p, s, force)
       PROVE  ClockInv'
  <2>1. UNCHANGED <<clock, jumps, op>>
    BY <1>14 DEF NativeHook, ProcessDies, Register, Release, Environment, Clock
  <2> QED
    BY <1>2, <1>7, <2>1
<1>15. CASE Tick
  BY <1>2, <1>7, <1>15 DEF Tick
<1>16. CASE JumpForward
  <2>1. clock' \in (clock + GapThreshold + 1)..MaxTime /\ UNCHANGED op
    BY <1>16 DEF JumpForward
  <2>2. jumps'.backward = jumps.backward
    BY <1>2, <1>16 DEF JumpForward
  <2>3. clock' \in Nat /\ clock <= clock'
    BY <1>2, <2>1, ClockAssumption, LeasesAssumption
  <2> QED
    BY <1>7, <2>1, <2>2, <2>3
<1>17. CASE JumpBackward
  <2>1. clock' \in 0..(clock - 1) /\ UNCHANGED op
    BY <1>17 DEF JumpBackward
  <2>2. jumps'.backward = jumps.backward + 1 /\ jumps.backward \in Nat
    BY <1>2, <1>17 DEF JumpBackward
  <2>3. clock' \in Nat /\ jumps'.backward # 0
    BY <1>2, <2>1, <2>2
  <2> QED
    BY <1>7, <2>1, <2>3
<1>18. CASE UNCHANGED vars
  <2>1. UNCHANGED <<clock, jumps, op>>
    BY <1>18 DEF vars
  <2> QED
    BY <1>2, <1>7, <2>1
<1> QED
  BY <1>8, <1>9, <1>10, <1>11, <1>12, <1>13, <1>14, <1>15, <1>16, <1>17, <1>18 DEF Next

\* While the clock has not stepped back, nothing displaces a lease that still
\* runs, however long a command or a gc plan has been waiting (the tests of
\* expiry on observedAt in lockAcquire and captureGcLockSubjects).
THEOREM RunningLeaseKept == Spec => RunningLeaseIsKept
<1> DEFINE Kept == \A p \in Peer : Displaces(p) /\ jumps.backward = 0 =>
                     \A s \in Displaced(p) : Expired(locks[s], clock)
<1>1. ASSUME IInv, ClockInv, NEW p \in Peer, Displaces(p), jumps.backward = 0,
             NEW s \in Displaced(p)
      PROVE  Expired(locks[s], clock)
  <2>1. op[p].at \in Nat /\ clock \in Nat /\ op[p].at <= clock
    BY <1>1 DEF IInv, TypeOK, Op, ClockInv, ReadBefore
  <2>2. s \in Scope /\ locks[s] \in Lock
    BY <1>1 DEF Displaced, Held, IInv, TypeOK, LockTable
  <2>3. locks[s].expires \in Nat
    BY <2>2 DEF Lock
  <2>4. locks[s].expires <= op[p].at
    <3>1. CASE Grant(p)
      BY <1>1, <3>1, GrantDisplaces DEF Expired
    <3>2. CASE CollectGc(p)
      <4>1. op[p].kind = "gc"
        BY <3>2 DEF CollectGc
      <4>2. /\ locks[s] = op[p].subject.rows[s] /\ locks[s] # NoLock
        BY <1>1, <3>2, CollectDisplaces
      <4> QED
        BY <1>1, <2>1, <2>2, <2>3, <4>1, <4>2 DEF ClockInv, CapturedAfterEnd
    <3> QED
      BY <1>1, <3>1, <3>2 DEF Displaces
  <2> QED
    BY <2>1, <2>3, <2>4 DEF Expired
<1>2. IInv /\ ClockInv /\ [Next]_vars => [Kept]_vars
  BY <1>1
<1> QED
  BY <1>2, InitIInv, StepIInv, InitClockInv, StepClockInv, PTL DEF Spec, RunningLeaseIsKept

-----------------------------------------------------------------------------
(* Heartbeats.                                                             *)

\* A renewal leaves every row to its owner and shortens none; a row it is for
\* runs on after the second of the renewal, and it touches no other.
LEMMA RenewOwnedRow ==
    ASSUME NEW table \in LockTable, NEW owners \in SUBSET Peer, NEW t \in Nat,
           NEW all \in BOOLEAN, NEW override \in Nat, NEW cap \in Nat, NEW s \in Scope
    PROVE  LET old == table[s]
               new == RenewOwned(table, owners, t, all, override, cap)[s]
               due == old.owner \in owners /\ (all \/ old.expires > t)
           IN  /\ new.owner = old.owner
               /\ new.expires >= old.expires
               /\ due => new.expires > t
               /\ ~due => new = old
<1> DEFINE old == table[s]
           new == RenewOwned(table, owners, t, all, override, cap)[s]
           due == old.owner \in owners /\ (all \/ old.expires > t)
           length == IF override > 0 THEN override
                     ELSE IF cap > 0 THEN Smaller(old.ttl, cap) ELSE old.ttl
           keep == IF override > 0 THEN override ELSE old.ttl
<1>1. new = IF due
            THEN [ owner |-> old.owner, expires |-> Larger(old.expires, t + length),
                   ttl |-> keep ]
            ELSE old
  BY DEF RenewOwned
<1>2. old.expires \in Nat
  BY DEF LockTable, Lock, NoLock
<1>3. CASE due
  <2>1. old \in Lock
    BY <1>3, LeasesAssumption DEF LockTable, NoLock
  <2>2. length \in Nat \ {0}
    BY <2>1 DEF Lock, Smaller
  <2> HIDE DEF length, old
  <2>3. /\ Larger(old.expires, t + length) >= old.expires
        /\ Larger(old.expires, t + length) > t
    BY <1>2, <2>2 DEF Larger
  <2>4. new.owner = old.owner /\ new.expires = Larger(old.expires, t + length)
    BY <1>1, <1>3
  <2> HIDE DEF new, due
  <2> QED
    BY <1>3, <2>3, <2>4 DEF old, new, due
<1>4. CASE ~due
  <2>1. new = old
    BY <1>1, <1>4
  <2> HIDE DEF new, due
  <2>2. new.expires >= old.expires
    BY <1>2, <2>1
  <2> QED
    BY <1>4, <2>1, <2>2 DEF old, new, due
<1> QED
  BY <1>3, <1>4

\* Renewing all of p's rows leaves p none that has ended.
LEMMA RenewedRunsOn ==
    ASSUME NEW table \in LockTable, NEW p \in Peer, NEW t \in Nat,
           NEW override \in Nat, NEW cap \in Nat, NEW s \in Scope,
           RenewOwned(table, {p}, t, TRUE, override, cap)[s].owner = p
    PROVE  RenewOwned(table, {p}, t, TRUE, override, cap)[s].expires > t
<1>1. ASSUME NEW all \in BOOLEAN, all, NEW owners \in SUBSET Peer, p \in owners,
             RenewOwned(table, owners, t, all, override, cap)[s].owner = p
      PROVE  RenewOwned(table, owners, t, all, override, cap)[s].expires > t
  BY <1>1, RenewOwnedRow
<1> QED
  BY <1>1

\* A heartbeat whose observation has renewed and whose renewal is to follow.
Beating(c) ==
    c.step = "judged" /\ c.kind \in {"heartbeat", "hook"} /\ c.renewed

\* ... has nothing left to renew: what its observation has done stays done.
Beats ==
    \A p \in Peer : Beating(op[p]) =>
        \A s \in Scope : locks[s].owner = p => locks[s].expires > op[p].at

\* A table that gives p no new row and shortens none of p's.
NoWorse(p, table) ==
    \A s \in Scope : table[s].owner = p =>
        locks[s].owner = p /\ table[s].expires >= locks[s].expires

LEMMA BeatsKept ==
    ASSUME IInv, Beats, locks' \in LockTable,
           \A p \in Peer :
              (op'[p] = op[p] /\ NoWorse(p, locks')) \/ ~Beating(op'[p])
    PROVE  Beats'
<1> SUFFICES ASSUME NEW p \in Peer, Beating(op'[p]), NEW s \in Scope, locks'[s].owner = p
             PROVE  locks'[s].expires > op'[p].at
  BY DEF Beats, Beating
<1>1. op'[p] = op[p] /\ NoWorse(p, locks')
  OBVIOUS
<1>2. locks[s].owner = p /\ locks'[s].expires >= locks[s].expires
  BY <1>1 DEF NoWorse
<1>3. locks[s].expires > op[p].at
  BY <1>1, <1>2 DEF Beats
<1>4. op[p].at \in Nat
  BY DEF IInv, TypeOK, Op
<1>5. locks[s].expires \in Nat /\ locks'[s].expires \in Nat
  BY DEF IInv, TypeOK, LockTable, Lock, NoLock
<1> QED
  BY <1>1, <1>2, <1>3, <1>4, <1>5

LEMMA SameIsNoWorse ==
    ASSUME IInv, NEW p \in Peer PROVE NoWorse(p, locks)
<1>1. \A s \in Scope : locks[s].expires \in Nat
  BY DEF IInv, TypeOK, LockTable, Lock, NoLock
<1> QED
  BY <1>1 DEF NoWorse

LEMMA RenewedIsNoWorse ==
    ASSUME IInv, NEW p \in Peer, NEW table \in LockTable, NoWorse(p, table),
           NEW owners \in SUBSET Peer, NEW t \in Nat,
           NEW all \in BOOLEAN, NEW override \in Nat, NEW cap \in Nat
    PROVE  NoWorse(p, RenewOwned(table, owners, t, all, override, cap))
<1> DEFINE new == RenewOwned(table, owners, t, all, override, cap)
<1>1. new \in LockTable
  BY RenewOwnedType
<1>2. \A s \in Scope : new[s].owner = table[s].owner /\ new[s].expires >= table[s].expires
  BY RenewOwnedRow
<1> HIDE DEF new
<1>3. \A s \in Scope :
        locks[s].expires \in Nat /\ new[s].expires \in Nat /\ table[s].expires \in Nat
  BY <1>1 DEF IInv, TypeOK, LockTable, Lock, NoLock
<1>4. NoWorse(p, new)
  BY <1>2, <1>3 DEF NoWorse
<1> QED
  BY <1>4 DEF new

\* The row a command of q writes is no row of p's.
LEMMA WrittenIsNoWorse ==
    ASSUME IInv, NEW p \in Peer, NEW table \in LockTable, NoWorse(p, table),
           NEW r \in Scope, NEW row, row.owner # p
    PROVE  NoWorse(p, [table EXCEPT ![r] = row])
<1>1. \A s \in Scope : [table EXCEPT ![r] = row][s] = IF s = r THEN row ELSE table[s]
  BY DEF LockTable
<1> QED
  BY <1>1 DEF NoWorse

LEMMA ExtendedIsNoWorse ==
    ASSUME IInv, NEW p \in Peer, NEW q \in Peer
    PROVE  NoWorse(p, Extended(q, op[q])) /\ Extended(q, op[q]) \in LockTable
<1>1. op[q] \in Op /\ op[q].at \in Nat /\ locks \in LockTable
  BY DEF IInv, TypeOK, Op
<1>2. Rescued(q, op[q]) \in SUBSET Peer /\ Extended(q, op[q]) \in LockTable
  BY <1>1, VerdictType DEF IInv
<1> QED
  BY <1>1, <1>2, SameIsNoWorse, RenewedIsNoWorse DEF Extended

\* A heartbeat of p's looks at p's rows only, so what it finds to renew is p's.
LEMMA HeartbeatRescuesItself ==
    ASSUME NEW p, NEW c, c.kind \in Heartbeat
    PROVE  Rescued(p, c) \subseteq {p}
<1>1. \A x \in Candidates(p, c) : x.owner = p
  BY DEF Candidates
<1> QED
  BY <1>1 DEF Rescued, RenewableOwners

LEMMA InitBeats == Init => Beats
  BY DEF Init, Beats, Beating, Idle

LEMMA StepBeats == IInv /\ IInv' /\ Beats /\ [Next]_vars => Beats'
<1> SUFFICES ASSUME IInv, IInv', Beats, [Next]_vars PROVE Beats'
  OBVIOUS
<1>1. /\ locks \in LockTable /\ locks' \in LockTable /\ clock \in Nat
      /\ ~Beating(Idle)
  BY DEF IInv, TypeOK, Beating, Idle
<1>2. ASSUME NEW p \in Peer
      PROVE  /\ op[p] \in Op /\ op[p].at \in Nat /\ op[p].ttl \in Nat
             /\ NoWorse(p, locks)
  BY SameIsNoWorse DEF IInv, TypeOK, Op
\* A command's step to a state in which it is not beating.
<1>3. ASSUME NEW p \in Peer, NEW c, SetOp(p, c), ~Beating(c),
             \A q \in Peer : q # p => NoWorse(q, locks')
      PROVE  Beats'
  <2>1. \A q \in Peer : op'[q] = IF q = p THEN c ELSE op[q]
    BY <1>3 DEF SetOp, IInv, TypeOK
  <2>2. ASSUME NEW q \in Peer
        PROVE  (op'[q] = op[q] /\ NoWorse(q, locks')) \/ ~Beating(op'[q])
    <3>1. CASE q = p
      BY <1>3, <2>1, <3>1
    <3>2. CASE q # p
      BY <1>3, <2>1, <3>2
    <3> QED
      BY <3>1, <3>2
  <2> QED
    BY <1>1, <2>2, BeatsKept
<1>4. ASSUME UNCHANGED op, \A q \in Peer : NoWorse(q, locks')
      PROVE  Beats'
  BY <1>1, <1>4, BeatsKept
<1>5. ASSUME NEW p \in Peer, Begin(p) \/ Observe(p) \/ StartOver(p) \/ Crash(p)
      PROVE  Beats'
  <2>1. UNCHANGED locks
    BY <1>5 DEF Begin, Observe, StartOver, Crash, Database
  <2>2. PICK c : SetOp(p, c) /\ ~Beating(c)
    <3>1. CASE Begin(p)
      <4>1. \E k, s, ttl : SetOp(p, Begun(k, clock, s, ttl, 0))
        BY <3>1 DEF Begin
      <4>2. \A k, s, ttl : ~Beating(Begun(k, clock, s, ttl, 0))
        BY DEF Begun, Beating
      <4> QED
        BY <4>1, <4>2
    <3>2. CASE Observe(p)
      BY <3>2 DEF Observe, Onward, Beating
    <3>3. CASE StartOver(p)
      BY <1>1, <3>3 DEF StartOver, Begun, Beating
    <3>4. CASE Crash(p)
      BY <1>1, <3>4 DEF Crash
    <3> QED
      BY <1>5, <3>1, <3>2, <3>3, <3>4
  <2> QED
    BY <1>2, <1>3, <2>1, <2>2
<1>6. ASSUME NEW p \in Peer, Refuse(p) \/ PlanGc(p)
      PROVE  Beats'
  <2>1. locks' = Extended(p, op[p])
    BY <1>6 DEF Refuse, PlanGc, SetLocks
  <2>2. PICK c : SetOp(p, c) /\ ~Beating(c)
    <3>1. CASE Refuse(p)
      BY <1>1, <3>1 DEF Refuse
    <3>2. CASE PlanGc(p)
      <4> DEFINE d == Onward(op[p], "judged", op[p].subject, op[p].evidence, FALSE)
      <4>1. ~Beating(d)
        BY <3>2 DEF PlanGc, Onward, Beating
      <4>2. SetOp(p, Idle) \/ SetOp(p, d)
        BY <3>2 DEF PlanGc
      <4> QED
        BY <1>1, <4>1, <4>2
    <3> QED
      BY <1>6, <3>1, <3>2
  <2> QED
    BY <1>3, <2>1, <2>2, ExtendedIsNoWorse
<1>7. ASSUME NEW p \in Peer, Grant(p)
      PROVE  Beats'
  <2> DEFINE row == [owner |-> p, expires |-> op[p].at + op[p].ttl, ttl |-> op[p].ttl]
  <2>1. /\ locks' = [Extended(p, op[p]) EXCEPT ![op[p].scope] = row]
        /\ SetOp(p, Idle)
    BY <1>7 DEF Grant, SetLocks
  <2>2. row.owner = p /\ op[p].scope \in Scope
    BY <1>2 DEF Op
  <2> HIDE DEF row
  <2>3. ASSUME NEW q \in Peer, q # p
        PROVE  NoWorse(q, locks')
    BY <2>1, <2>2, <2>3, ExtendedIsNoWorse, WrittenIsNoWorse
  <2> QED
    BY <1>1, <1>3, <2>1, <2>3
<1>8. ASSUME NEW p \in Peer, Renew(p)
      PROVE  Beats'
  <2> DEFINE row == [owner |-> p, expires |-> op[p].at + op[p].ttl, ttl |-> op[p].ttl]
  <2>1. /\ locks' = [locks EXCEPT ![op[p].scope] = row] \/ locks' = locks
        /\ SetOp(p, Idle)
    BY <1>8 DEF Renew, SetLocks
  <2>2. row.owner = p /\ op[p].scope \in Scope
    BY <1>2 DEF Op
  <2> HIDE DEF row
  <2>3. ASSUME NEW q \in Peer, q # p
        PROVE  NoWorse(q, locks')
    BY <1>1, <1>2, <2>1, <2>2, <2>3, WrittenIsNoWorse
  <2> QED
    BY <1>1, <1>3, <2>1, <2>3
<1>9. ASSUME NEW p \in Peer, WebHeartbeat(p)
      PROVE  Beats'
  <2> DEFINE live == op[p].evidence[p] = "live"
  <2>1. /\ locks' = RenewOwned(Extended(p, op[p]), {p}, op[p].at, live, op[p].ttl, 0)
        /\ SetOp(p, Idle)
    BY <1>9 DEF WebHeartbeat, SetLocks
  <2>2. live \in BOOLEAN /\ 0 \in Nat
    OBVIOUS
  <2> HIDE DEF live
  <2>3. \A q \in Peer : NoWorse(q, locks')
    BY <1>2, <2>1, <2>2, ExtendedIsNoWorse, RenewedIsNoWorse
  <2> QED
    BY <1>1, <1>3, <2>1, <2>3
<1>10. ASSUME NEW p \in Peer, ObserveClock(p)
       PROVE  Beats'
  <2> DEFINE r == \E s \in Scope : locks[s].owner \in Rescued(p, op[p])
             c == Onward(op[p], "judged", NoSubject, NoEvidence, r)
  <2>1. /\ locks' = Extended(p, op[p]) /\ SetOp(p, c)
        /\ op[p].kind \in Heartbeat
    BY <1>10 DEF ObserveClock, SetLocks, Heartbeat
  <2>2. c.at = op[p].at /\ (c.renewed = r)
    BY DEF Onward
  <2>3. CASE r
    <3>1. Rescued(p, op[p]) = {p}
      BY <2>1, <2>3, HeartbeatRescuesItself
    <3>2. ASSUME NEW s \in Scope, locks'[s].owner = p
          PROVE  locks'[s].expires > op[p].at
      <4>1. locks' = RenewOwned(locks, {p}, op[p].at, TRUE, 0, 0)
        BY <2>1, <3>1 DEF Extended
      <4>2. 0 \in Nat
        OBVIOUS
      <4> QED
        BY <1>1, <1>2, <3>2, <4>1, <4>2, RenewedRunsOn
    <3> HIDE DEF c
    <3>3. \A q \in Peer : op'[q] = IF q = p THEN c ELSE op[q]
      BY <2>1 DEF SetOp, IInv, TypeOK
    <3>4. ASSUME NEW q \in Peer, q # p, Beating(op[q]), NEW s \in Scope,
                 locks'[s].owner = q
          PROVE  locks'[s].expires > op[q].at
      <4>1. locks[s].owner = q /\ locks'[s].expires >= locks[s].expires
        BY <2>1, <3>4, ExtendedIsNoWorse DEF NoWorse
      <4>2. locks[s].expires \in Nat /\ locks'[s].expires \in Nat
        BY <1>1 DEF LockTable, Lock, NoLock
      <4>3. locks[s].expires > op[q].at /\ op[q].at \in Nat
        BY <1>2, <3>4, <4>1 DEF Beats
      <4> QED
        BY <4>1, <4>2, <4>3
    <3>5. ASSUME NEW q \in Peer, Beating(op'[q]), NEW s \in Scope, locks'[s].owner = q
          PROVE  locks'[s].expires > op'[q].at
      <4>1. CASE q = p
        BY <2>2, <3>2, <3>3, <3>5, <4>1
      <4>2. CASE q # p
        BY <3>3, <3>4, <3>5, <4>2
      <4> QED
        BY <4>1, <4>2
    <3> QED
      BY <3>5 DEF Beats, Beating
  <2>4. CASE ~r
    <3>1. ~Beating(c)
      BY <2>2, <2>4 DEF Beating
    <3> HIDE DEF c
    <3> QED
      BY <1>3, <2>1, <3>1, ExtendedIsNoWorse
  <2> QED
    BY <2>3, <2>4
<1>11. ASSUME NEW p \in Peer, RenewAfterwards(p)
       PROVE  Beats'
  <2> DEFINE live == proc[p] = "live"
  <2>1. /\ \/ locks' = locks
           \/ locks' = RenewOwned(locks, {p}, op[p].at, TRUE, 0, HookCap)
           \/ locks' = RenewOwned(locks, {p}, op[p].at, live, op[p].ttl, 0)
        /\ SetOp(p, Idle)
    BY <1>11 DEF RenewAfterwards, SetLocks
  <2>2. live \in BOOLEAN /\ TRUE \in BOOLEAN /\ 0 \in Nat /\ HookCap \in Nat
    BY LeasesAssumption
  <2> HIDE DEF live
  <2>3. ASSUME NEW q \in Peer
        PROVE  NoWorse(q, locks')
    <3>1. CASE locks' = locks
      BY <1>2, <3>1
    <3>2. CASE locks' = RenewOwned(locks, {p}, op[p].at, TRUE, 0, HookCap)
      <4>1. NoWorse(q, RenewOwned(locks, {p}, op[p].at, TRUE, 0, HookCap))
        BY <1>1, <1>2, <2>2, RenewedIsNoWorse
      <4> QED
        BY <3>2, <4>1
    <3>3. CASE locks' = RenewOwned(locks, {p}, op[p].at, live, op[p].ttl, 0)
      <4>1. NoWorse(q, RenewOwned(locks, {p}, op[p].at, live, op[p].ttl, 0))
        BY <1>1, <1>2, <2>2, RenewedIsNoWorse
      <4> QED
        BY <3>3, <4>1
    <3> QED
      BY <2>1, <3>1, <3>2, <3>3
  <2> QED
    BY <1>1, <1>3, <2>1, <2>3
<1>12. ASSUME NEW p \in Peer, NativeHook(p)
       PROVE  Beats'
  <2>1. locks' = RenewOwned(locks, {p}, clock, TRUE, 0, HookCap) /\ UNCHANGED op
    BY <1>12 DEF NativeHook, SetLocks
  <2>2. \A q \in Peer : NoWorse(q, locks')
    BY <1>1, <1>2, <2>1, LeasesAssumption, RenewedIsNoWorse
  <2> QED
    BY <1>4, <2>1, <2>2
<1>13. ASSUME NEW p \in Peer, CollectGc(p)
       PROVE  Beats'
  <2>1. /\ SetOp(p, Idle)
        /\ \A s \in Scope : locks'[s] \in {NoLock, locks[s]}
    BY <1>13 DEF CollectGc, SetLocks
  <2>2. \A q \in Peer : NoWorse(q, locks')
    BY <1>2, <2>1, LeasesAssumption DEF NoWorse, NoLock
  <2> QED
    BY <1>1, <1>3, <2>1, <2>2
<1>14. ASSUME NEW p \in Peer, NEW s \in Scope, NEW force \in BOOLEAN, Release(p, s, force)
       PROVE  Beats'
  <2>1. locks' = [locks EXCEPT ![s] = NoLock] /\ UNCHANGED op
    BY <1>14 DEF Release, SetLocks
  <2>2. \A q \in Peer : NoLock.owner # q
    BY LeasesAssumption DEF NoLock
  <2>3. \A q \in Peer : NoWorse(q, locks')
    BY <1>1, <1>2, <2>1, <2>2, WrittenIsNoWorse
  <2> QED
    BY <1>4, <2>1, <2>3
<1>15. ASSUME UNCHANGED <<op, locks>>
       PROVE  Beats'
  BY <1>2, <1>4, <1>15
<1>16. ASSUME \/ Tick \/ JumpForward \/ JumpBackward \/ UNCHANGED vars
              \/ \E p \in Peer : ProcessDies(p) \/ Register(p)
       PROVE  UNCHANGED <<op, locks>>
  BY <1>16 DEF Tick, JumpForward, JumpBackward, vars, ProcessDies, Register, Database
<1> QED
  BY <1>5, <1>6, <1>7, <1>8, <1>9, <1>10, <1>11, <1>12, <1>13, <1>14, <1>15,
     <1>16 DEF Next

\* A heartbeat that finds its peer's process there, and any hook, leaves that
\* peer no lease expired by the second it began, whatever other commands did
\* between its observation and its renewal (cmdHeartbeat, webPeerHeartbeat and
\* the hook: each skips its own renewal only when the observation has renewed).
THEOREM HeartbeatCovers == Spec => HeartbeatCoversLeases
<1> DEFINE Covered ==
        \A p \in Peer :
          /\ RenewAfterwards(p) \/ WebHeartbeat(p)
          /\ proc[p] = "live" \/ op[p].kind = "hook"
          => \A s \in Scope :
                locks'[s].owner = p => ~Expired(locks'[s], op[p].at)
<1>1. ASSUME IInv, IInv', Beats, NEW p \in Peer, RenewAfterwards(p) \/ WebHeartbeat(p),
             proc[p] = "live" \/ op[p].kind = "hook", NEW s \in Scope, locks'[s].owner = p
      PROVE  ~Expired(locks'[s], op[p].at)
  <2>1. /\ op[p].at \in Nat /\ op[p].ttl \in Nat /\ locks \in LockTable
        /\ HookCap \in Nat /\ locks' \in LockTable
    BY <1>1, LeasesAssumption DEF IInv, TypeOK, Op
  <2>2. locks'[s].expires \in Nat
    BY <2>1 DEF LockTable, Lock, NoLock
  <2>3. locks'[s].expires > op[p].at
    <3>1. CASE WebHeartbeat(p)
      <4>1. proc[p] = "live"
        BY <1>1, <3>1 DEF WebHeartbeat
      <4>2. op[p].subject.owners[p] = identity[p]
        <5>1. p \in Judged(p, op[p])
          BY <3>1 DEF WebHeartbeat, Judged
        <5> QED
          BY <3>1, <5>1 DEF WebHeartbeat, Unchanged, Capture
      <4>3. op[p].evidence[p] = "live"
        BY <1>1, <4>1, <4>2 DEF IInv, EvidenceHolds
      <4>4. locks' = RenewOwned(Extended(p, op[p]), {p}, op[p].at, TRUE, op[p].ttl, 0)
        BY <3>1, <4>3 DEF WebHeartbeat, SetLocks
      <4>5. Extended(p, op[p]) \in LockTable
        BY <1>1, ExtendedIsNoWorse
      <4>6. RenewOwned(Extended(p, op[p]), {p}, op[p].at, TRUE, op[p].ttl, 0)[s].owner = p
        BY <1>1, <4>4
      <4>7. 0 \in Nat
        OBVIOUS
      <4>8. RenewOwned(Extended(p, op[p]), {p}, op[p].at, TRUE, op[p].ttl, 0)[s].expires
              > op[p].at
        BY <2>1, <4>5, <4>6, <4>7, RenewedRunsOn
      <4> QED
        BY <4>4, <4>8
    <3>2. CASE RenewAfterwards(p)
      <4>1. CASE op[p].renewed /\ op[p].ttl = 0
        <5>1. locks' = locks /\ Beating(op[p])
          BY <3>2, <4>1 DEF RenewAfterwards, SetLocks, Beating
        <5> QED
          BY <1>1, <5>1 DEF Beats
      <4>2. CASE ~(op[p].renewed /\ op[p].ttl = 0)
        <5>1. \/ locks' = RenewOwned(locks, {p}, op[p].at, TRUE, 0, HookCap)
              \/ locks' = RenewOwned(locks, {p}, op[p].at, TRUE, op[p].ttl, 0)
          <6>1. CASE op[p].kind = "hook"
            BY <3>2, <4>2, <6>1 DEF RenewAfterwards, SetLocks
          <6>2. CASE op[p].kind # "hook"
            <7>1. (proc[p] = "live") = TRUE
              BY <1>1, <6>2
            <7> QED
              BY <3>2, <4>2, <6>2, <7>1 DEF RenewAfterwards, SetLocks
          <6> QED
            BY <6>1, <6>2
        <5>2. 0 \in Nat
          OBVIOUS
        <5>3. CASE locks' = RenewOwned(locks, {p}, op[p].at, TRUE, 0, HookCap)
          BY <1>1, <2>1, <5>2, <5>3, RenewedRunsOn
        <5>4. CASE locks' = RenewOwned(locks, {p}, op[p].at, TRUE, op[p].ttl, 0)
          <6>1. RenewOwned(locks, {p}, op[p].at, TRUE, op[p].ttl, 0)[s].owner = p
            BY <1>1, <5>4
          <6>2. RenewOwned(locks, {p}, op[p].at, TRUE, op[p].ttl, 0)[s].expires > op[p].at
            BY <2>1, <5>2, <6>1, RenewedRunsOn
          <6> QED
            BY <5>4, <6>2
        <5> QED
          BY <5>1, <5>3, <5>4
      <4> QED
        BY <4>1, <4>2
    <3> QED
      BY <1>1, <3>1, <3>2
  <2> QED
    BY <2>1, <2>2, <2>3 DEF Expired
<1>2. IInv /\ IInv' /\ Beats /\ [Next]_vars => [Covered]_vars
  BY <1>1
<1> QED
  BY <1>2, InitIInv, StepIInv, InitBeats, StepBeats, PTL
  DEF Spec, HeartbeatCoversLeases

-----------------------------------------------------------------------------
(* Owners overtaken by a jump of the clock.                                *)

\* The second to which the clock jumped past the row of scope s, whose owner
\* has been owed its time since.
Overtook(s) == owed[s] - ClockGrace

\* A reading some step may still write, or compare with, is from before or
\* from after that jump; so the jump cannot be mistaken for ordinary progress.
Account(s) ==
    LET b == locks[s].expires
        j == Overtook(s)
    IN  /\ Held(s) /\ b <= j /\ j <= clock
        /\ Clear(0, b, j) /\ Clear(safety.seen, b, j)
        /\ \A p \in Peer : Clear(op[p].at, b, j)
        /\ Covers(safety, b, owed[s])

\* No jump that overtook an owner is lost on the safety record.
Overtaken == \A s \in Scope : owed[s] > 0 => Account(s)

\* A planned deletion that could still be carried out, of the row of an owner
\* of whom nothing is known.
Planned(p, s) ==
    LET c == op[p]
        o == locks[s].owner
    IN  /\ c.kind = "gc" /\ c.step = "judged"
        /\ owed[s] > 0
        /\ c.subject.rows[s] = locks[s]
        /\ c.subject.owners[o] = identity[o]
        /\ proc[o] = "unknown"

\* ... was planned after the owner's time was up.
PlansWait == \A p \in Peer, s \in Scope : Planned(p, s) => op[p].at >= owed[s]

\* Nothing is from the future.
Forward == jumps.backward = 0 /\ safety.seen <= clock

GraceInv == Forward /\ Overtaken /\ PlansWait

LEMMA RowOfAccount ==
    ASSUME IInv, NEW s \in Scope, owed[s] > 0, Account(s)
    PROVE  /\ locks[s] \in Lock /\ locks[s].owner \in Peer
           /\ locks[s].expires \in Nat /\ owed[s] \in Nat
           /\ Overtook(s) \in Nat /\ ClockGrace \in Nat
           /\ owed[s] = Overtook(s) + ClockGrace
<1>1. locks[s] \in Lock /\ owed[s] \in Nat /\ clock \in Nat
  BY DEF Account, Held, IInv, TypeOK, LockTable
<1>2. locks[s].owner \in Peer /\ locks[s].expires \in Nat
  BY <1>1 DEF Lock
<1>3. locks[s].expires <= Overtook(s) /\ ClockGrace \in Nat
  BY ClockAssumption DEF Account
<1>4. Overtook(s) \in Int /\ owed[s] = Overtook(s) + ClockGrace
  BY <1>1, <1>3 DEF Overtook
<1> QED
  BY <1>1, <1>2, <1>3, <1>4

\* A step at one second of the clock that reads nothing but the clock, and
\* writes the safety record only through an observation.
Observing ==
    \/ safety' = safety
    \/ \E p \in Peer : \E kind, cands, cuts :
         safety' = Observed(safety, kind, cands, cuts, op[p].at, NoJump)

\* A table in which a row either is as it was or owes its owner nothing.
Accounting ==
    \A s \in Scope : owed'[s] > 0 => owed'[s] = owed[s] /\ locks'[s] = locks[s]

LEMMA OvertakenKept ==
    ASSUME IInv, ClockInv, Forward, Overtaken, UNCHANGED <<clock, jumps>>,
           Accounting, Observing,
           \A p \in Peer : \/ op'[p].at \in {0, clock}
                           \/ \E q \in Peer : op'[p].at = op[q].at
    PROVE  Forward' /\ Overtaken'
<1>1. /\ clock \in Nat /\ safety \in Safety
      /\ safety.seen \in Nat \cup {Never}
  BY DEF IInv, TypeOK, Safety
<1>2. ASSUME NEW p \in Peer
      PROVE  op[p].at \in Nat /\ op[p].at <= clock
  BY DEF Forward, ClockInv, ReadBefore, IInv, TypeOK, Op
<1>3. Forward'
  <2>1. CASE safety' = safety
    BY <2>1 DEF Forward
  <2>2. ASSUME NEW p \in Peer, NEW kind, NEW cands, NEW cuts,
               safety' = Observed(safety, kind, cands, cuts, op[p].at, NoJump)
        PROVE  Forward'
    <3>1. safety'.seen = op[p].at
      BY <2>2 DEF Observed
    <3> QED
      BY <1>2, <3>1 DEF Forward
  <2> QED
    BY <2>1, <2>2 DEF Observing
<1>4. ASSUME NEW s \in Scope, owed'[s] > 0
      PROVE  Account(s)'
  <2> DEFINE b == locks[s].expires
             j == Overtook(s)
  <2>1. owed'[s] = owed[s] /\ locks'[s] = locks[s]
    BY <1>4 DEF Accounting
  <2>2. owed[s] > 0 /\ Account(s)
    BY <1>4, <2>1 DEF Overtaken
  <2>3. /\ b \in Nat /\ j \in Nat /\ ClockGrace \in Nat /\ owed[s] = j + ClockGrace
    BY <2>2, RowOfAccount
  <2>4. /\ Held(s) /\ b <= j /\ j <= clock
        /\ Clear(0, b, j) /\ Clear(safety.seen, b, j)
        /\ \A p \in Peer : Clear(op[p].at, b, j)
        /\ Covers(safety, b, owed[s])
    BY <2>2 DEF Account
  <2>5. Overtook(s)' = j /\ (locks[s].expires)' = b /\ Held(s)'
    BY <2>1, <2>4 DEF Overtook, Held
  <2> HIDE DEF b, j
  <2>6. Clear(clock, b, j)
    BY <2>4 DEF Clear
  <2>7. \A p \in Peer : Clear(op'[p].at, b, j)
    BY <2>4, <2>6
  <2>8. Clear(safety'.seen, b, j) /\ Covers(safety', b, owed[s])
    <3>1. CASE safety' = safety
      BY <2>4, <3>1
    <3>2. ASSUME NEW p \in Peer, NEW kind, NEW cands, NEW cuts,
                 safety' = Observed(safety, kind, cands, cuts, op[p].at, NoJump)
          PROVE  Clear(safety'.seen, b, j) /\ Covers(safety', b, owed[s])
      <4>1. safety'.seen = op[p].at
        BY <3>2 DEF Observed
      <4>2. Covers(safety', b, j + ClockGrace)
        BY <1>1, <1>2, <2>3, <2>4, <3>2, ObservedCovers DEF Reaches, Jump
      <4> QED
        BY <2>3, <2>4, <4>1, <4>2
    <3> QED
      BY <3>1, <3>2 DEF Observing
  <2> QED
    BY <2>1, <2>4, <2>5, <2>7, <2>8 DEF Account, Clear, Covers, GapCovers
<1> QED
  BY <1>3, <1>4 DEF Overtaken

LEMMA SetLocksAccounts ==
    ASSUME NEW table, SetLocks(table) PROVE Accounting
  BY DEF SetLocks, Accounting

LEMMA VerdictObserves ==
    ASSUME NEW p \in Peer, NEW cuts, safety' = Verdict(p, op[p], cuts)
    PROVE  Observing
  BY DEF Observing, Verdict

LEMMA PlansKept ==
    ASSUME IInv, PlansWait, Accounting, UNCHANGED <<identity, proc>>,
           \A p \in Peer : \/ op'[p] = op[p]
                           \/ ~(op'[p].kind = "gc" /\ op'[p].step = "judged")
    PROVE  PlansWait'
<1> SUFFICES ASSUME NEW p \in Peer, NEW s \in Scope, Planned(p, s)'
             PROVE  op'[p].at >= owed'[s]
  BY DEF PlansWait
<1>1. op'[p] = op[p]
  BY DEF Planned
<1>2. owed'[s] = owed[s] /\ locks'[s] = locks[s]
  BY DEF Planned, Accounting
<1>3. Planned(p, s)
  BY <1>1, <1>2 DEF Planned
<1> QED
  BY <1>1, <1>2, <1>3 DEF PlansWait

\* A command's step that plans no deletion.
LEMMA GraceCommandStep ==
    ASSUME IInv, ClockInv, GraceInv, UNCHANGED <<clock, jumps, identity, proc>>,
           NEW p \in Peer, NEW c, SetOp(p, c), c.at \in {0, clock, op[p].at},
           ~(c.kind = "gc" /\ c.step = "judged"), Accounting, Observing
    PROVE  GraceInv'
<1>1. \A q \in Peer : op'[q] = IF q = p THEN c ELSE op[q]
  BY DEF SetOp, IInv, TypeOK
<1>2. ASSUME NEW q \in Peer
      PROVE  \/ op'[q].at \in {0, clock}
             \/ \E r \in Peer : op'[q].at = op[r].at
  BY <1>1
<1>3. Forward' /\ Overtaken'
  BY <1>2, OvertakenKept DEF GraceInv
<1>4. PlansWait'
  <2>1. \A q \in Peer : \/ op'[q] = op[q]
                        \/ ~(op'[q].kind = "gc" /\ op'[q].step = "judged")
    BY <1>1
  <2> QED
    BY <2>1, PlansKept DEF GraceInv
<1> QED
  BY <1>3, <1>4 DEF GraceInv

\* A step that touches no command and not the clock.
LEMMA GraceTableStep ==
    ASSUME IInv, ClockInv, GraceInv, UNCHANGED <<clock, jumps, identity, proc, op, safety>>,
           Accounting
    PROVE  GraceInv'
<1>1. Observing
  BY DEF Observing
<1>2. \A q \in Peer : \E r \in Peer : op'[q].at = op[r].at
  OBVIOUS
<1>3. Forward' /\ Overtaken'
  BY <1>1, <1>2, OvertakenKept DEF GraceInv
<1>4. PlansWait'
  BY PlansKept DEF GraceInv
<1> QED
  BY <1>3, <1>4 DEF GraceInv

\* An observation about an owner overtaken of whom nothing is known: by an
\* acquisition that asks for his scope, or by gc.
LEMMA OvertakenIsGivenGrace ==
    ASSUME IInv, ClockInv, GraceInv, NEW p \in Peer, NEW cuts, NEW s \in Scope,
           op[p].kind \notin Heartbeat, owed[s] > 0,
           op[p].subject.rows[s] = locks[s], Expired(locks[s], op[p].at),
           op[p].subject.owners[locks[s].owner] = identity[locks[s].owner],
           proc[locks[s].owner] = "unknown"
    PROVE  Verdict(p, op[p], cuts).grace >= owed[s]
<1> DEFINE c == op[p]
           o == locks[s].owner
           b == locks[s].expires
           j == Overtook(s)
           x == [ owner |-> c.subject.rows[s].owner, boundary |-> c.subject.rows[s].expires,
                  evidence |-> c.evidence[c.subject.rows[s].owner] ]
<1>1. Account(s)
  BY DEF GraceInv, Overtaken
<1>2. /\ o \in Peer /\ b \in Nat /\ j \in Nat /\ owed[s] = j + ClockGrace
  BY <1>1, RowOfAccount
<1>3. c.evidence[o] = "unknown"
  BY <1>2 DEF IInv, EvidenceHolds
<1>4. c.subject.rows[s] # NoLock
  BY <1>1 DEF Account, Held
<1>5. x \in Candidates(p, c)
  BY <1>4 DEF Candidates
<1>6. Unknown(x) /\ x.boundary = b
  BY <1>3 DEF Unknown
<1>7. safety \in Safety /\ c.at \in Nat
  BY DEF IInv, TypeOK, Op
<1>8. /\ b <= j /\ Clear(c.at, b, j) /\ Clear(safety.seen, b, j)
      /\ Covers(safety, b, j + ClockGrace)
  BY <1>1, <1>2 DEF Account
<1>9. c.at >= b
  BY <1>2, <1>7 DEF Expired
<1> HIDE DEF b, j, x, c
<1>10. j <= c.at
  BY <1>2, <1>7, <1>8, <1>9 DEF Clear
<1>11. Observed(safety, Operation(c), Candidates(p, c), cuts, c.at, NoJump).grace
         >= j + ClockGrace
  BY <1>2, <1>5, <1>6, <1>7, <1>8, <1>10, UnknownIsGivenGrace DEF Reaches, Jump
<1> QED
  BY <1>2, <1>11 DEF Verdict, c

LEMMA InitGraceInv == Init => GraceInv
<1> SUFFICES ASSUME Init PROVE GraceInv
  OBVIOUS
<1>1. Forward
  BY DEF Init, Forward, FreshSafety, Never
<1>2. Overtaken /\ PlansWait
  BY DEF Init, Overtaken, PlansWait, Planned
<1> QED
  BY <1>1, <1>2 DEF GraceInv

\* A deletion is planned only when the grace the plan's observation leaves has
\* passed.
LEMMA PlanGcKeepsGrace ==
    ASSUME IInv, ClockInv, GraceInv, NEW p \in Peer, PlanGc(p)
    PROVE  GraceInv'
<1> DEFINE c == op[p]
           d == Onward(c, "judged", c.subject, c.evidence, FALSE)
<1>1. PICK cuts \in Cutoffs(c) :
        /\ safety' = Verdict(p, c, cuts)
        /\ SetOp(p, IF Suppressed(c.at, Verdict(p, c, cuts).grace) THEN Idle ELSE d)
  BY DEF PlanGc
<1>2. /\ SetLocks(Extended(p, c)) /\ c.kind = "gc"
      /\ UNCHANGED <<clock, jumps, identity, proc>>
  BY DEF PlanGc, Environment, Clock
<1>3. Accounting /\ Observing
  BY <1>1, <1>2, SetLocksAccounts, VerdictObserves
<1>4. CASE Suppressed(c.at, Verdict(p, c, cuts).grace)
  <2>1. SetOp(p, Idle) /\ Idle.at = 0 /\ Idle.kind = "none"
    BY <1>1, <1>4 DEF Idle
  <2> QED
    BY <1>2, <1>3, <2>1, GraceCommandStep
<1>5. CASE ~Suppressed(c.at, Verdict(p, c, cuts).grace)
  <2>1. SetOp(p, d)
    BY <1>1, <1>5
  <2>2. d.at = c.at /\ d.subject = c.subject
    BY DEF Onward
  <2> HIDE DEF d
  <2>3. \A q \in Peer : op'[q] = IF q = p THEN d ELSE op[q]
    BY <2>1 DEF SetOp, IInv, TypeOK
  <2>4. \A q \in Peer : \E r \in Peer : op'[q].at = op[r].at
    BY <2>2, <2>3
  <2>5. Forward' /\ Overtaken'
    BY <1>2, <1>3, <2>4, OvertakenKept DEF GraceInv
  <2>6. ASSUME NEW q \in Peer, NEW s \in Scope, Planned(q, s)'
        PROVE  op'[q].at >= owed'[s]
    <3>1. owed'[s] = owed[s] /\ locks'[s] = locks[s] /\ owed[s] > 0
      BY <1>3, <2>6 DEF Planned, Accounting
    <3>2. CASE q # p
      <4>1. op'[q] = op[q]
        BY <2>3, <3>2
      <4>2. Planned(q, s)
        BY <1>2, <2>6, <3>1, <4>1 DEF Planned
      <4> QED
        BY <3>1, <4>1, <4>2 DEF GraceInv, PlansWait
    <3>3. CASE q = p
      <4>1. op'[p].subject = c.subject /\ op'[p].at = c.at
        BY <2>2, <2>3
      <4>2. /\ c.subject.rows[s] = locks[s]
            /\ c.subject.owners[locks[s].owner] = identity[locks[s].owner]
            /\ proc[locks[s].owner] = "unknown"
        BY <1>2, <2>6, <3>1, <3>3, <4>1 DEF Planned
      <4>3. Held(s) /\ locks[s].expires \in Nat
        BY <3>1, RowOfAccount DEF GraceInv, Overtaken, Account
      <4>4. c.at \in Nat /\ c \in Op
        BY DEF IInv, TypeOK, Op
      <4>5. locks[s].expires < c.at
        BY <1>2, <4>2, <4>3 DEF ClockInv, CapturedAfterEnd, Held
      <4>6. Expired(locks[s], c.at)
        BY <4>3, <4>4, <4>5 DEF Expired
      <4>7. Verdict(p, c, cuts).grace >= owed[s]
        BY <1>2, <3>1, <4>2, <4>6, OvertakenIsGivenGrace DEF Heartbeat
      <4>8. Verdict(p, c, cuts).grace \in Nat /\ owed[s] \in Nat
        <5>1. Verdict(p, c, cuts) \in Safety
          BY <4>4, VerdictType DEF IInv
        <5> QED
          BY <5>1 DEF Safety, IInv, TypeOK
      <4>9. ~(Verdict(p, c, cuts).grace > c.at)
        BY <1>5 DEF Suppressed
      <4>10. c.at >= owed[s]
        BY <4>4, <4>7, <4>8, <4>9
      <4> QED
        BY <3>1, <3>3, <4>1, <4>10
    <3> QED
      BY <3>2, <3>3
  <2> QED
    BY <2>5, <2>6 DEF GraceInv, PlansWait
<1> QED
  BY <1>4, <1>5

\* The clock goes on, or jumps: whoever is overtaken is owed his time from now.
LEMMA ClockForwardKeepsGrace ==
    ASSUME IInv, ClockInv, GraceInv, Tick \/ JumpForward
    PROVE  GraceInv'
<1>1. UNCHANGED <<identity, proc, op, locks, safety>> /\ jumps'.backward = jumps.backward
  <2>1. jumps \in [forward : Nat, backward : Nat]
    BY DEF IInv, TypeOK
  <2> QED
    BY <2>1 DEF Tick, JumpForward, Database
<1>2. /\ clock \in Nat /\ safety.seen \in Nat \cup {Never} /\ jumps.backward = 0
      /\ safety.seen <= clock /\ GapThreshold \in Nat /\ ClockGrace \in Nat \ {0}
  BY ClockAssumption DEF IInv, TypeOK, Safety, GraceInv, Forward
<1>3. clock' \in Nat /\ clock <= clock'
  <2>1. CASE Tick
    BY <1>2, <2>1 DEF Tick
  <2>2. CASE JumpForward
    <3>1. clock' \in (clock + GapThreshold + 1)..MaxTime
      BY <2>2 DEF JumpForward
    <3> QED
      BY <1>2, <3>1, LeasesAssumption
  <2> QED
    BY <2>1, <2>2
<1>4. ASSUME NEW p \in Peer
      PROVE  op[p].at \in Nat /\ op[p].at <= clock
  BY <1>2 DEF ClockInv, ReadBefore, IInv, TypeOK, Op
<1>5. Forward'
  BY <1>1, <1>2, <1>3 DEF Forward, Never
\* Rows whose owners have just been overtaken.
<1>6. ASSUME NEW s \in Scope, owed'[s] # owed[s]
      PROVE  /\ JumpForward /\ Held(s)
             /\ clock < locks[s].expires /\ locks[s].expires <= clock'
             /\ owed'[s] = clock' + ClockGrace
  <2>1. JumpForward
    BY <1>6 DEF Tick, Database
  <2>2. owed'[s] = IF Held(s) /\ Crossed(clock, clock', locks[s].expires)
                   THEN clock' + ClockGrace ELSE owed[s]
    BY <2>1 DEF JumpForward
  <2>3. Held(s) /\ Crossed(clock, clock', locks[s].expires)
    BY <1>6, <2>2
  <2>4. locks[s].expires \in Nat
    BY DEF IInv, TypeOK, LockTable, Lock, NoLock
  <2> QED
    BY <1>3, <2>1, <2>2, <2>3, <2>4 DEF Crossed
<1>7. ASSUME NEW s \in Scope, owed'[s] > 0
      PROVE  Account(s)'
  <2>1. CASE owed'[s] = owed[s]
    <3>1. Account(s) /\ owed[s] > 0
      BY <1>7, <2>1 DEF GraceInv, Overtaken
    <3>2. Overtook(s) \in Nat /\ Overtook(s)' = Overtook(s)
      BY <2>1, <3>1, RowOfAccount DEF Overtook
    <3>3. Overtook(s) <= clock'
      BY <1>2, <1>3, <3>1, <3>2 DEF Account
    <3> QED
      BY <1>1, <2>1, <3>1, <3>2, <3>3 DEF Account, Held, Clear, Covers, GapCovers
  <2>2. CASE owed'[s] # owed[s]
    <3> DEFINE b == locks[s].expires
    <3>1. /\ Held(s) /\ clock < b /\ b <= clock' /\ owed'[s] = clock' + ClockGrace
          /\ b \in Nat
      BY <1>6, <2>2 DEF IInv, TypeOK, LockTable, Lock, NoLock
    <3>2. clock + GapThreshold < clock'
      <4>1. clock' \in (clock + GapThreshold + 1)..MaxTime
        BY <1>6, <2>2 DEF JumpForward
      <4> QED
        BY <1>2, <4>1, LeasesAssumption
    <3>3. Overtook(s)' = clock'
      BY <1>2, <1>3, <3>1 DEF Overtook
    <3>4. ASSUME NEW r \in Nat \cup {Never}, r <= clock
          PROVE  r < b /\ r + GapThreshold < clock'
      BY <1>2, <1>3, <3>1, <3>2, <3>4 DEF Never
    <3>5. /\ Clear(0, b, clock') /\ Clear(safety.seen, b, clock')
          /\ \A p \in Peer : Clear(op[p].at, b, clock')
      <4>1. \A r \in Nat \cup {Never} : r <= clock => Clear(r, b, clock')
        BY <3>4 DEF Clear
      <4>2. 0 \in Nat /\ 0 <= clock
        BY <1>2
      <4> QED
        BY <1>2, <1>4, <4>1, <4>2
    <3>6. Covers(safety, b, owed'[s])
      BY <1>2, <3>4 DEF Covers
    <3>7. clock' <= clock'
      BY <1>3
    <3> QED
      BY <1>1, <3>1, <3>3, <3>5, <3>6, <3>7 DEF Account, Held, Clear, Covers, GapCovers
  <2> QED
    BY <2>1, <2>2
<1>8. ASSUME NEW p \in Peer, NEW s \in Scope, Planned(p, s)'
      PROVE  op'[p].at >= owed'[s]
  <2>1. CASE owed'[s] = owed[s]
    <3>1. Planned(p, s)
      BY <1>1, <1>8, <2>1 DEF Planned
    <3> QED
      BY <1>1, <2>1, <3>1 DEF GraceInv, PlansWait
  <2>2. CASE owed'[s] # owed[s]
    <3>1. /\ op[p].kind = "gc" /\ op[p].subject.rows[s] = locks[s]
          /\ Held(s) /\ clock < locks[s].expires
      BY <1>1, <1>6, <1>8, <2>2 DEF Planned
    <3>2. locks[s].expires < op[p].at
      BY <3>1 DEF ClockInv, CapturedAfterEnd, Held
    <3>3. locks[s].expires \in Nat
      BY DEF IInv, TypeOK, LockTable, Lock, NoLock
    <3> QED
      BY <1>2, <1>4, <3>1, <3>2, <3>3
  <2> QED
    BY <2>1, <2>2
<1> QED
  BY <1>5, <1>7, <1>8 DEF GraceInv, Overtaken, PlansWait

LEMMA StepGraceInv ==
    ASSUME MaxBackward = 0, IInv, ClockInv, GraceInv, [Next]_vars
    PROVE  GraceInv'
<1>1. ASSUME NEW p \in Peer
      PROVE  op[p] \in Op
  BY DEF IInv, TypeOK
<1>2. Idle.at = 0 /\ Idle.kind = "none"
  BY DEF Idle
<1>3. ASSUME UNCHANGED <<locks, owed>>
      PROVE  Accounting
  BY <1>3 DEF Accounting
\* Steps that end a command.
<1>4. ASSUME NEW p \in Peer, SetOp(p, Idle), UNCHANGED Environment, Accounting, Observing
      PROVE  GraceInv'
  BY <1>2, <1>4, GraceCommandStep DEF Environment, Clock
<1>5. ASSUME NEW p \in Peer, Begin(p)
      PROVE  GraceInv'
  <2>1. \E k, s, ttl : SetOp(p, Begun(k, clock, s, ttl, 0))
    BY <1>5 DEF Begin
  <2>2. PICK k, s, ttl : SetOp(p, Begun(k, clock, s, ttl, 0))
    BY <2>1
  <2>3. /\ Begun(k, clock, s, ttl, 0).at = clock
        /\ Begun(k, clock, s, ttl, 0).step # "judged"
    BY DEF Begun
  <2>4. UNCHANGED <<clock, jumps, identity, proc>> /\ Accounting /\ Observing
    BY <1>3, <1>5 DEF Begin, Clock, Database, Observing
  <2> QED
    BY <2>2, <2>3, <2>4, GraceCommandStep
<1>6. ASSUME NEW p \in Peer, Observe(p)
      PROVE  GraceInv'
  <2> DEFINE c == Onward(op[p], "observed", Capture(p, op[p]), Probe(p, op[p]), FALSE)
  <2>1. SetOp(p, c) /\ c.at = op[p].at /\ c.step # "judged"
    BY <1>6 DEF Observe, Onward
  <2>2. UNCHANGED <<clock, jumps, identity, proc>> /\ Accounting /\ Observing
    BY <1>3, <1>6 DEF Observe, Environment, Clock, Database, Observing
  <2> HIDE DEF c
  <2> QED
    BY <2>1, <2>2, GraceCommandStep
<1>7. ASSUME NEW p \in Peer, StartOver(p)
      PROVE  GraceInv'
  <2> DEFINE c == Begun(op[p].kind, op[p].at, op[p].scope, op[p].ttl, op[p].tries + 1)
  <2>1. SetOp(p, c) \/ SetOp(p, Idle)
    BY <1>7 DEF StartOver
  <2>2. c.at = op[p].at /\ c.step # "judged"
    BY DEF Begun
  <2>3. UNCHANGED Environment /\ Accounting /\ Observing
    BY <1>3, <1>7 DEF StartOver, Database, Observing
  <2>4. UNCHANGED <<clock, jumps, identity, proc>>
    BY <2>3 DEF Environment, Clock
  <2> HIDE DEF c
  <2> QED
    BY <1>4, <2>1, <2>2, <2>3, <2>4, GraceCommandStep
<1>8. ASSUME NEW p \in Peer, Refuse(p) \/ Grant(p) \/ WebHeartbeat(p)
      PROVE  GraceInv'
  <2>1. /\ safety' = Verdict(p, op[p], {}) /\ SetOp(p, Idle) /\ UNCHANGED Environment
        /\ \E table : SetLocks(table)
    BY <1>8 DEF Refuse, Grant, WebHeartbeat
  <2> QED
    BY <1>4, <2>1, SetLocksAccounts, VerdictObserves
<1>9. ASSUME NEW p \in Peer, Renew(p) \/ RenewAfterwards(p) \/ CollectGc(p)
      PROVE  GraceInv'
  <2>1. /\ SetOp(p, Idle) /\ UNCHANGED <<Environment, safety>>
        /\ \E table : SetLocks(table)
    BY <1>9 DEF Renew, RenewAfterwards, CollectGc
  <2> QED
    BY <1>4, <2>1, SetLocksAccounts DEF Observing
<1>10. ASSUME NEW p \in Peer, ObserveClock(p)
       PROVE  GraceInv'
  <2> DEFINE r == \E s \in Scope : locks[s].owner \in Rescued(p, op[p])
             c == Onward(op[p], "judged", NoSubject, NoEvidence, r)
  <2>1. /\ SetOp(p, c) /\ op[p].kind # "gc"
        /\ safety' = Verdict(p, op[p], {}) /\ SetLocks(Extended(p, op[p]))
    BY <1>10 DEF ObserveClock
  <2>2. c.at = op[p].at /\ c.kind = op[p].kind
    BY DEF Onward
  <2>3. UNCHANGED <<clock, jumps, identity, proc>>
    BY <1>10 DEF ObserveClock, Environment, Clock
  <2> HIDE DEF c
  <2> QED
    BY <2>1, <2>2, <2>3, SetLocksAccounts, VerdictObserves, GraceCommandStep
<1>11. ASSUME NEW p \in Peer, PlanGc(p)
       PROVE  GraceInv'
  BY <1>11, PlanGcKeepsGrace
<1>12. ASSUME NEW p \in Peer, Crash(p)
       PROVE  GraceInv'
  <2>1. SetOp(p, Idle) /\ UNCHANGED Environment /\ UNCHANGED <<locks, owed, safety>>
    BY <1>12 DEF Crash, Database
  <2> QED
    BY <1>3, <1>4, <2>1 DEF Observing
<1>13. ASSUME NEW p \in Peer,
              NativeHook(p) \/ \E s \in Scope, force \in BOOLEAN : Release(p, s, force)
       PROVE  GraceInv'
  <2>1. /\ \E table : SetLocks(table)
        /\ UNCHANGED <<clock, jumps, identity, proc, op, safety>>
    BY <1>13 DEF NativeHook, Release, Environment, Clock
  <2> QED
    BY <2>1, SetLocksAccounts, GraceTableStep
\* A row that named the process before names no other without being seen to.
<1>14. ASSUME NEW p \in Peer, ProcessDies(p) \/ Register(p)
       PROVE  GraceInv'
  <2>1. UNCHANGED <<clock, jumps, op, locks, owed, safety>>
    BY <1>14 DEF ProcessDies, Register, Clock, Database
  <2>2. Forward' /\ Overtaken'
    <3>1. Accounting /\ Observing /\ \A q \in Peer : \E r \in Peer : op'[q].at = op[r].at
      BY <1>3, <2>1 DEF Observing
    <3> QED
      BY <2>1, <3>1, OvertakenKept DEF GraceInv
  <2>3. ASSUME NEW q \in Peer, NEW s \in Scope, Planned(q, s)'
        PROVE  Planned(q, s)
    <3> DEFINE o == locks[s].owner
    <3>1. o \in Peer /\ owed[s] > 0
      <4>1. owed[s] > 0
        BY <2>1, <2>3 DEF Planned
      <4> QED
        BY <4>1, RowOfAccount DEF GraceInv, Overtaken
    <3>2. /\ op[q].subject.owners[o] = identity'[o] /\ proc'[o] = "unknown"
      BY <2>1, <2>3 DEF Planned
    <3>3. /\ op[q].subject.owners[o] <= identity[o] /\ identity[o] \in Nat
          /\ op[q].subject.owners[o] \in Nat
      BY <1>1, <3>1 DEF IInv, RowsAreOld, TypeOK, Op, Subject
    <3>4. identity \in [Peer -> Nat \ {0}] /\ proc \in [Peer -> Evidence]
      BY DEF IInv, TypeOK
    <3> HIDE DEF o
    <3>5. identity'[o] = identity[o] /\ proc'[o] = proc[o]
      <4>1. CASE ProcessDies(p)
        BY <3>1, <3>2, <3>4, <4>1 DEF ProcessDies
      <4>2. CASE Register(p)
        <5>1. PICK e \in Probes[p] \ {"dead"} : proc' = [proc EXCEPT ![p] = e]
          BY <4>2 DEF Register
        <5>2. identity' = [identity EXCEPT ![p] = identity[p] + 1]
          BY <4>2 DEF Register
        <5>3. o # p
          BY <3>1, <3>2, <3>3, <3>4, <5>2
        <5> QED
          BY <3>1, <3>4, <5>1, <5>2, <5>3
      <4> QED
        BY <1>14, <4>1, <4>2
    <3> QED
      BY <2>1, <2>3, <3>5 DEF Planned, o
  <2>4. PlansWait'
    BY <2>1, <2>3 DEF GraceInv, PlansWait
  <2> QED
    BY <2>2, <2>4 DEF GraceInv
<1>15. CASE Tick \/ JumpForward
  BY <1>15, ClockForwardKeepsGrace
<1>16. CASE JumpBackward
  <2>1. jumps.backward < 0 /\ jumps.backward = 0
    BY <1>16 DEF JumpBackward, GraceInv, Forward
  <2> QED
    BY <2>1
<1>17. CASE UNCHANGED vars
  <2>1. UNCHANGED <<clock, jumps, identity, proc, op, safety, locks, owed>>
    BY <1>17 DEF vars
  <2> QED
    BY <1>3, <2>1, GraceTableStep
<1> QED
  BY <1>5, <1>6, <1>7, <1>8, <1>9, <1>10, <1>11, <1>12, <1>13, <1>14, <1>15,
     <1>16, <1>17 DEF Next

\* While the clock only ever goes forward, by steps or by jumps, an owner of
\* whom nothing is known, and whose lease a jump has run past, keeps it for a
\* full grace period from the jump, whoever observes the clock in between and
\* with whatever reading, and whenever a deletion of the row was planned
\* (mergePendingGap, clearPendingGap, writeClockGraceUntil, and the second look
\* at the grace in gc).
THEOREM OvertakenOwnerGetsGrace ==
    ASSUME MaxBackward = 0
    PROVE  Spec => OvertakenLeaseGetsGrace
<1> DEFINE Waits ==
        \A p \in Peer : Displaces(p) =>
          \A s \in Displaced(p) :
             proc[locks[s].owner] = "unknown" => clock >= owed[s]
<1>1. ASSUME IInv, ClockInv, GraceInv, NEW p \in Peer, Displaces(p),
             NEW s \in Displaced(p), proc[locks[s].owner] = "unknown"
      PROVE  clock >= owed[s]
  <2> DEFINE c == op[p]
             o == locks[s].owner
  <2>1. s \in Scope /\ Held(s) /\ o # p
    BY <1>1 DEF Displaced
  <2>2. /\ owed[s] \in Nat /\ clock \in Nat /\ c \in Op /\ c.at \in Nat /\ c.at <= clock
    BY <1>1, <2>1 DEF IInv, TypeOK, Op, GraceInv, Forward, ClockInv, ReadBefore
  <2>3. CASE owed[s] = 0
    BY <2>2, <2>3
  <2>4. CASE owed[s] > 0
    <3>1. c.at >= owed[s]
      <4>1. CASE Grant(p)
        <5> DEFINE grace == Verdict(p, c, {}).grace
        <5>1. /\ c.kind \in Acquiring /\ Unchanged(p, c) /\ ~Refused(p, c, grace)
          BY <4>1 DEF Grant
        <5>2. /\ Expired(locks[s], c.at) /\ o \in Peer
          BY <1>1, <4>1, GrantDisplaces
        <5>3. InSubject(p, c, s)
          BY <1>1, <2>1, <5>1 DEF InSubject, Acquiring, Displaced
        <5>4. c.subject.rows[s] = locks[s]
          BY <2>1, <5>1, <5>3 DEF Unchanged, Capture
        <5>5. o \in Judged(p, c)
          BY <2>1, <5>1, <5>2, <5>3 DEF Judged, Acquiring
        <5>6. c.subject.owners[o] = identity[o]
          BY <5>1, <5>2, <5>5 DEF Unchanged, Capture
        <5>7. c.evidence[o] = "unknown"
          BY <1>1, <5>2, <5>6 DEF IInv, EvidenceHolds
        <5>8. ~Blocks(p, c, locks[s], grace)
          BY <2>1, <5>1, <5>4 DEF Refused
        <5> HIDE DEF grace
        <5>9. ~(grace > c.at)
          BY <2>1, <5>7, <5>8 DEF Blocks, Suppressed, Held
        <5>10. grace >= owed[s]
          BY <1>1, <2>1, <2>4, <5>1, <5>2, <5>4, <5>6, OvertakenIsGivenGrace
          DEF Acquiring, Heartbeat, grace
        <5>11. grace \in Nat
          BY <1>1, <2>2, VerdictType DEF IInv, Safety, grace
        <5> QED
          BY <2>2, <5>9, <5>10, <5>11
      <4>2. CASE CollectGc(p)
        <5>1. c.kind = "gc" /\ c.step = "judged"
          BY <4>2 DEF CollectGc
        <5>2. locks'[s] = NoLock /\ locks[s] # NoLock
          BY <1>1, <2>1, <5>1 DEF Displaced, Held
        <5>3. Collectable(c, s)
          BY <2>1, <4>2, <5>2 DEF CollectGc, SetLocks
        <5>4. Planned(p, s)
          BY <1>1, <2>4, <5>1, <5>3 DEF Collectable, Planned
        <5> QED
          BY <1>1, <2>1, <5>4 DEF GraceInv, PlansWait
      <4> QED
        BY <1>1, <4>1, <4>2 DEF Displaces
    <3> QED
      BY <2>2, <3>1
  <2> QED
    BY <2>2, <2>3, <2>4
<1>2. IInv /\ ClockInv /\ GraceInv /\ [Next]_vars => [Waits]_vars
  BY <1>1
<1>3. IInv /\ ClockInv /\ GraceInv /\ [Next]_vars => GraceInv'
  BY StepGraceInv
<1> QED
  BY <1>2, <1>3, InitIInv, StepIInv, InitClockInv, StepClockInv, InitGraceInv, PTL
  DEF Spec, OvertakenLeaseGetsGrace
=============================================================================
