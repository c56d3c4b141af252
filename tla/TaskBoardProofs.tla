--------------------------- MODULE TaskBoardProofs ---------------------------
(***************************************************************************)
(* Proofs about TaskBoard, for any peers, tasks, limits and mixes of what  *)
(* happens.                                                                *)
(*                                                                         *)
(* What a takeover or a sweep has found out about a process stays true of  *)
(* the row it captured: as long as the row names the same process, that    *)
(* process can only have died since (Holds).  A turn that is bound to a    *)
(* task was begun under it (ScopesAreTurns).  What is known of the sleeps  *)
(* of the machine is an invariant of its own (SleepInv), on top of it.     *)
(***************************************************************************)
EXTENDS TaskBoard, ClockSafetyProofs

\* What the process of a row, which a probe shows as e, says with its status.
Settled(e, status) ==
    IF e \notin {"live", "protected"} /\ status = "exited" THEN "dead" ELSE e

Holds(o, x, e) ==
    x.status # "none" =>
        /\ x.identity <= peers[o].identity
        /\ x.identity = peers[o].identity =>
             \E f \in Evidence : e = Settled(f, x.status) /\ proc[o] \in {f, "dead"}

TakeoversHold == \A p \in Peer :
    op[p].step \in {"looked", "judged"} /\ op[p].subject.task.owner \in Peer =>
        Holds(op[p].subject.task.owner, op[p].subject.peer, op[p].evidence)

TasksAsked == \A p \in Peer : op[p].step # "idle" => op[p].task \in Task

SweepHolds ==
    sweep.step = "looked" =>
        /\ sweep.peer \in Peer /\ sweep.rows[sweep.peer].status # "none"
        /\ Holds(sweep.peer, sweep.rows[sweep.peer], sweep.evidence[sweep.peer])

ScopesAreTurns == \A s \in scopes :
    s.turn \in 1..Len(turns[s.peer]) /\ turns[s.peer][s.turn] = s.task

FiledAsBegun == \A i \in 1..Len(results) :
    LET r == results[i] IN r.turn \in 1..Len(turns[r.peer]) /\ turns[r.peer][r.turn] = r.task

\* What the runtime probed, it probed in the past.
ProbedBefore == drift.since <= clock

FiledOnce == \A i, j \in 1..Len(results) : results[i] = results[j] => i = j

Inv == /\ TypeOK /\ TasksAsked /\ TakeoversHold /\ SweepHolds /\ ScopesAreTurns /\ FiledAsBegun
       /\ FiledOnce /\ ProbedBefore

-----------------------------------------------------------------------------
(* Types of what the steps are built from.                                 *)

\* The last probe of the clock.
Drift == [jumped : BOOLEAN, since : Nat]

Subject == [task : Row \cup {NoRow}, peer : RowOrNone, grace : Nat]

LEMMA RowsAreTyped ==
    /\ \A row \in Row \cup {NoRow}, status \in Status, owner \in PeerOrNone,
          assignee \in PeerOrNone :
         /\ As(row, status, owner, assignee) \in Row
         /\ As(row, status, owner, assignee).owner = owner
    /\ \A row \in Row : row.status \in Status /\ row.owner \in PeerOrNone
                          /\ row.assignee \in PeerOrNone /\ row # NoRow
    /\ NoRow.owner = NoPeer
  BY DEF As, Row, NoRow, Status

LEMMA PeerRowsAreTyped ==
    /\ \A n \in Nat : NoRowAfter(n) \in RowOrNone /\ NoRowAfter(n).identity = n
                       /\ NoRowAfter(n).status = "none"
    /\ Unregistered \in RowOrNone /\ Unregistered.status = "none"
    /\ \A n \in Nat \ {0}, status \in {"idle", "working", "exited"}, seen \in Nat :
         [identity |-> n, status |-> status, seen |-> seen] \in RowOrNone
    /\ \A x \in RowOrNone :
         /\ x.identity \in Nat /\ x.seen \in Nat
         /\ x.status # "none" => x.identity \in Nat \ {0} /\ x.status \in {"idle", "working", "exited"}
  BY DEF NoRowAfter, Unregistered, RowOrNone, PeerRow

LEMMA NoSubjectType == NoSubject \in Subject
  BY PeerRowsAreTyped DEF NoSubject, Subject

LEMMA BegunType ==
    ASSUME NEW kind \in Command \cup {"none"}, NEW t \in Task \cup {NoTask}, NEW policy \in Policy,
           NEW force \in BOOLEAN, NEW tries \in 0..1
    PROVE  /\ Begun(kind, t, policy, force, tries) \in Op
           /\ Begun(kind, t, policy, force, tries).step = "begun"
  BY NoSubjectType DEF Begun, Op, Subject, Evidence

LEMMA FurtherType ==
    ASSUME NEW c \in Op, NEW step \in {"idle", "begun", "looked", "judged"}, NEW x \in Subject,
           NEW e \in Evidence, NEW at \in Nat
    PROVE  /\ Further(c, step, x, e, at) \in Op
           /\ Further(c, step, x, e, at).step = step
           /\ Further(c, step, x, e, at).subject = x
           /\ Further(c, step, x, e, at).evidence = e
  BY DEF Further, Op, Subject

LEMMA IdleType == Idle \in Op /\ Idle.step = "idle"
  BY NoSubjectType DEF Idle, Begun, Further, Op, Policy, Subject, Evidence

LEMMA SetOpType ==
    ASSUME op \in [Peer -> Op], NEW p \in Peer, NEW c \in Op, SetOp(p, c)
    PROVE  /\ op' \in [Peer -> Op] /\ op'[p] = c
           /\ \A q \in Peer \ {p} : op'[q] = op[q]
  BY DEF SetOp

LEMMA SweptType ==
    ASSUME NEW s \in Sweep, NEW step \in {"judged", "looked"}, NEW rows \in [Peer -> RowOrNone],
           NEW evidence \in [Peer -> Evidence], NEW todo \in SUBSET Peer, NEW q \in PeerOrNone,
           NEW tries \in 0..1
    PROVE  LET n == Swept(s, step, rows, evidence, todo, q, tries)
           IN  n \in Sweep /\ n.step = step /\ n.rows = rows /\ n.evidence = evidence /\ n.peer = q
  BY DEF Swept, Sweep

LEMMA NoSweepType == NoSweep \in Sweep /\ NoSweep.step = "idle"
  BY PeerRowsAreTyped DEF NoSweep, Sweep, PeerOrNone, Evidence, Jump

LEMMA EvidenceType ==
    ASSUME TypeOK, NEW p \in Peer
    PROVE  /\ EvidenceOf(p) \in Evidence
           /\ Known(p) => EvidenceOf(p) = Settled(proc[p], peers[p].status)
  BY DEF TypeOK, EvidenceOf, Known, Settled, Evidence

LEMMA CaptureType ==
    ASSUME TypeOK, NEW t \in Task, Exists(t)
    PROVE  /\ Capture(t) \in Subject
           /\ Capture(t).task = tasks[t]
           /\ tasks[t].owner \in PeerOrNone
           /\ tasks[t].owner = NoPeer => Capture(t).peer = Unregistered
           /\ tasks[t].owner \in Peer =>
                Capture(t).peer = IF Known(tasks[t].owner) THEN peers[tasks[t].owner] ELSE Unregistered
<1>1. tasks[t] \in Row
  BY DEF TypeOK, Exists
<1>2. tasks[t].owner \in PeerOrNone
  BY <1>1, RowsAreTyped
<1>3. safety.grace \in Nat
  BY DEF TypeOK, Safety
<1>4. tasks[t].owner \in Peer => peers[tasks[t].owner] \in RowOrNone
  BY DEF TypeOK
<1> QED
  BY <1>1, <1>2, <1>3, <1>4, PeerRowsAreTyped, TaskBoardAssumption DEF Capture, Subject, PeerOrNone

LEMMA TouchedType ==
    ASSUME TypeOK, NEW p \in Peer, NEW status \in {"keep", "idle", "working"}
    PROVE  /\ Touched(p, status) \in [Peer -> RowOrNone]
           /\ \A q \in Peer : q # p => Touched(p, status)[q] = peers[q]
           /\ Touched(p, status)[p].identity \in Nat
           /\ Touched(p, status)[p].identity >= peers[p].identity
<1> DEFINE x == [ identity |-> IF Known(p) THEN peers[p].identity ELSE peers[p].identity + 1,
                  status |-> IF status # "keep" THEN status
                             ELSE IF Known(p) THEN peers[p].status ELSE "idle",
                  seen |-> clock ]
<1>1. peers \in [Peer -> RowOrNone] /\ peers[p] \in RowOrNone /\ clock \in Nat
  BY DEF TypeOK
<1>2. x \in RowOrNone /\ x.identity \in Nat /\ x.identity >= peers[p].identity
  BY <1>1, PeerRowsAreTyped DEF Known, RowOrNone, PeerRow
<1>3. Touched(p, status) = [peers EXCEPT ![p] = x]
  BY DEF Touched
<1> HIDE DEF x
<1> QED
  BY <1>1, <1>2, <1>3

-----------------------------------------------------------------------------
(* Which steps change what.                                                *)

BoardActs(p) ==
    \/ Create(p) \/ StartTeam(p) \/ TakeOver(p)
    \/ \E ids \in SUBSET Task : Claim(p, ids)
    \/ \E count \in 1..Cardinality(Task) : ClaimNext(p, count)
    \/ \E target \in Peer : Dispatch(p, target)
    \/ \E status \in Statuses : Update(p, status)
CommandActs(p) == Begin(p) \/ GiveUp(p) \/ Look(p) \/ Observe(p) \/ LookAgain(p)
SweepActs(p) == SweepLooks(p) \/ Reap(p) \/ Spare(p)
RuntimeActs ==
    \/ \E kind \in SweepKind : StartSweep(kind)
    \/ JudgeSweep \/ EndSweep \/ RuntimeRestarts
TurnActs(p) ==
    \/ \E fresh \in BOOLEAN : StartTurn(p, fresh)
    \/ \E n \in 1..MaxTurns : FileResult(p, n)
WorldActs(p) ==
    ProcessDies(p) \/ \E status \in {"idle", "working"} : Register(p, status)

LEMMA NextActs ==
    Next <=> \/ \E p \in Peer : \/ BoardActs(p) \/ CommandActs(p) \/ SweepActs(p)
                               \/ TurnActs(p) \/ WorldActs(p)
             \/ RuntimeActs \/ Tick \/ JumpForward
  BY DEF Next, BoardActs, CommandActs, SweepActs, RuntimeActs, TurnActs, WorldActs

LEMMA BoardFrame ==
    ASSUME NEW p \in Peer, BoardActs(p)
    PROVE  /\ UNCHANGED << clock, jumps, drift, slept, begun, mix, peers, safety, proc, sweep, swept,
                            scopes, turns, results >>
           /\ SetOp(p, Idle)
  BY DEF BoardActs, Create, StartTeam, TakeOver, Claim, ClaimNext, Dispatch, Update, Ends,
         Aside, Time, Runtime

LEMMA CommandFrame ==
    ASSUME NEW p \in Peer, CommandActs(p)
    PROVE  UNCHANGED <<clock, jumps, drift, slept, mix, tasks, results, proc, sweep, swept, scopes, turns>>
  BY DEF CommandActs, Begin, GiveUp, Look, Observe, LookAgain,
         Aside, Time, Runtime, Board

LEMMA SweepFrame ==
    ASSUME NEW p \in Peer, SweepActs(p)
    PROVE  UNCHANGED << clock, jumps, drift, slept, begun, swept, mix, tasks, results, safety, proc, op,
                        scopes, turns >>
  BY DEF SweepActs, SweepLooks, Reap, Spare, Time, Board

LEMMA RuntimeFrame ==
    ASSUME RuntimeActs
    PROVE  UNCHANGED <<clock, jumps, slept, begun, mix, tasks, results, peers, proc, op, turns>>
  BY DEF RuntimeActs, StartSweep, JudgeSweep, EndSweep, RuntimeRestarts, Time, Board

LEMMA TurnFrame ==
    ASSUME NEW p \in Peer, TurnActs(p)
    PROVE  UNCHANGED << clock, jumps, drift, slept, begun, swept, mix, tasks, peers, safety, proc,
                        op, sweep >>
  BY DEF TurnActs, StartTurn, FileResult, Time, Board, Runtime

LEMMA WorldFrame ==
    ASSUME NEW p \in Peer, WorldActs(p)
    PROVE  UNCHANGED << clock, jumps, drift, slept, begun, swept, mix, tasks, results, safety, op, sweep,
                        scopes, turns >>
  BY DEF WorldActs, ProcessDies, Register, Time, Board, Runtime

-----------------------------------------------------------------------------
(* Tasks                                                                   *)

LEMMA AllTakenType ==
    ASSUME TypeOK, NEW p \in Peer, NEW ids \in SUBSET Task
    PROVE  /\ AllTaken(ids, p) \in [Task -> Row \cup {NoRow}]
           /\ \A t \in Task : AllTaken(ids, p)[t].owner = IF t \in ids THEN p ELSE tasks[t].owner
<1>1. ASSUME NEW t \in ids PROVE Taken(t, p) \in Row /\ Taken(t, p).owner = p
  <2>1. tasks[t] \in Row \cup {NoRow}
    BY DEF TypeOK
  <2>2. tasks[t].assignee \in PeerOrNone /\ p \in PeerOrNone
    BY <2>1, RowsAreTyped DEF PeerOrNone, NoRow
  <2>3. "claimed" \in Status
    BY DEF Status
  <2> QED
    BY <2>1, <2>2, <2>3, RowsAreTyped DEF Taken
<1> QED
  BY <1>1 DEF AllTaken, TypeOK

\* What a transaction of the board makes of the tasks.
LEMMA BoardStep ==
    ASSUME TypeOK, TasksAsked, NEW p \in Peer, BoardActs(p)
    PROVE  /\ tasks' \in [Task -> Row \cup {NoRow}]
           /\ TasksLeaveOpenly
<1> DEFINE Table == [Task -> Row \cup {NoRow}]
           Kept == \A t \in Task : tasks[t].owner \in Peer => tasks'[t].owner = tasks[t].owner
<1>0. /\ tasks \in Table
      /\ \A t \in Task : Exists(t) => tasks[t] \in Row /\ tasks[t].status \in Status
                             /\ tasks[t].owner \in PeerOrNone /\ tasks[t].assignee \in PeerOrNone
      /\ \A t \in Task : ~Exists(t) => tasks[t].owner = NoPeer
  BY RowsAreTyped DEF TypeOK, Exists
<1>a. Kept => TasksLeaveOpenly
  BY DEF TasksLeaveOpenly
<1>b. NoPeer \notin Peer
  BY TaskBoardAssumption
<1>1. CASE Create(p)
  <2> DEFINE t == op[p].task
  <2>1. t \in Task /\ ~Exists(t)
    BY <1>1 DEF Create, Ends, TasksAsked
  <2>2. PICK a \in PeerOrNone, parent \in {u \in Task : Exists(u)} \cup {NoTask} :
          tasks' = [tasks EXCEPT ![t] = [ status |-> "pending", owner |-> NoPeer,
                                          assignee |-> a, parent |-> parent ]]
    BY <1>1 DEF Create
  <2> DEFINE x == [status |-> "pending", owner |-> NoPeer, assignee |-> a, parent |-> parent]
  <2>3. x \in Row /\ tasks' = [tasks EXCEPT ![t] = x]
    BY <2>2 DEF Row, Status, PeerOrNone
  <2> HIDE DEF x
  <2> QED
    BY <1>0, <1>a, <1>b, <2>1, <2>3
<1>2. CASE StartTeam(p)
  <2>1. PICK items \in SUBSET {u \in Task : ~Exists(u)} \ {{}}, worker \in [Task -> PeerOrNone] :
          tasks' = [ u \in Task |->
            IF u \in items
            THEN [ status |-> "pending", owner |-> NoPeer,
                   assignee |-> worker[u], parent |-> op[p].task ]
            ELSE tasks[u] ]
    BY <1>2 DEF StartTeam
  <2>2. op[p].task \in Task
    BY <1>2 DEF StartTeam, Ends, TasksAsked
  <2>3. \A u \in items : [ status |-> "pending", owner |-> NoPeer,
                            assignee |-> worker[u], parent |-> op[p].task ] \in Row
    BY <2>1, <2>2 DEF Row, Status, PeerOrNone
  <2>4. tasks' \in Table
    BY <1>0, <2>1, <2>3
  <2>5. \A u \in Task : u \in items => ~Exists(u)
    BY <2>1
  <2> QED
    BY <1>0, <1>a, <1>b, <2>1, <2>4, <2>5
<1>3. CASE TakeOver(p)
  <2>1. op[p].task \in Task
    BY <1>3 DEF TakeOver, TasksAsked
  <2>2. tasks' = AllTaken({op[p].task}, p)
    BY <1>3 DEF TakeOver
  <2>3. \A t \in Task : tasks'[t].owner # tasks[t].owner => t = op[p].task
    BY <2>1, <2>2, AllTakenType
  <2> QED
    BY <1>3, <2>1, <2>2, <2>3, AllTakenType DEF TasksLeaveOpenly
<1>4. ASSUME NEW ids \in SUBSET Task, Claim(p, ids)
      PROVE  tasks' \in Table /\ TasksLeaveOpenly
  <2>1. /\ tasks' = AllTaken(ids, p)
        /\ \A t \in ids : Exists(t) /\ (Claimable(t, p) \/ op[p].force)
    BY <1>4 DEF Claim
  <2>2. \A t \in Task : tasks'[t].owner # tasks[t].owner => t \in ids
    BY <2>1, AllTakenType
  <2>3. \A t \in ids : tasks[t].owner \in Peer /\ tasks'[t].owner # tasks[t].owner => op[p].force
    BY <1>b, <2>1, AllTakenType DEF Claimable
  <2> QED
    BY <1>4, <2>1, <2>2, <2>3, AllTakenType DEF TasksLeaveOpenly
<1>5. ASSUME NEW count \in 1..Cardinality(Task), ClaimNext(p, count)
      PROVE  tasks' \in Table /\ TasksLeaveOpenly
  <2>1. PICK ids \in SUBSET Offered(p) : tasks' = AllTaken(ids, p)
    BY <1>5 DEF ClaimNext
  <2>2. \A t \in ids : t \in Task /\ Exists(t) /\ tasks[t].owner = NoPeer
    BY <2>1 DEF Offered, Exists, NoRow
  <2> QED
    BY <1>a, <1>b, <2>1, <2>2, AllTakenType
<1>6. ASSUME NEW target \in Peer, Dispatch(p, target)
      PROVE  tasks' \in Table /\ TasksLeaveOpenly
  <2> DEFINE t == op[p].task
             x == As(tasks[t], tasks[t].status, tasks[t].owner, target)
  <2>1. t \in Task /\ Exists(t) /\ tasks' = [tasks EXCEPT ![t] = x]
    BY <1>6 DEF Dispatch, Ends, TasksAsked
  <2>a. target \in PeerOrNone
    BY DEF PeerOrNone
  <2>2. x \in Row /\ x.owner = tasks[t].owner
    BY <1>0, <2>1, <2>a, RowsAreTyped
  <2> HIDE DEF x
  <2> QED
    BY <1>0, <1>a, <2>1, <2>2
<1>7. ASSUME NEW status \in Statuses, Update(p, status)
      PROVE  tasks' \in Table /\ TasksLeaveOpenly
  <2> DEFINE t == op[p].task
             x == As(tasks[t], status, tasks[t].owner, tasks[t].assignee)
  <2>1. t \in Task /\ Exists(t) /\ tasks' = [tasks EXCEPT ![t] = x]
    BY <1>7 DEF Update, Ends, TasksAsked
  <2>2. x \in Row /\ x.owner = tasks[t].owner
    BY <1>0, <2>1, RowsAreTyped, TaskBoardAssumption
  <2> HIDE DEF x
  <2> QED
    BY <1>0, <1>a, <2>1, <2>2
<1> QED
  BY <1>1, <1>2, <1>3, <1>4, <1>5, <1>6, <1>7 DEF BoardActs

-----------------------------------------------------------------------------
(* Peers and their processes                                               *)

\* A row names the process it named, which may have died, or a newer one.
Ages(o) == /\ peers'[o].identity >= peers[o].identity
           /\ peers'[o].identity = peers[o].identity => proc'[o] \in {proc[o], "dead"}

\* ... as does what is known of it after a step.
WillHold(o, x, e) ==
    x.status # "none" =>
        /\ x.identity <= peers'[o].identity
        /\ x.identity = peers'[o].identity =>
             \E f \in Evidence : e = Settled(f, x.status) /\ proc'[o] \in {f, "dead"}

LEMMA HoldsStays ==
    ASSUME TypeOK, NEW o \in Peer, NEW x \in RowOrNone, NEW e \in Evidence,
           peers' \in [Peer -> RowOrNone], Ages(o), Holds(o, x, e)
    PROVE  WillHold(o, x, e)
<1>1. x.identity \in Nat /\ peers[o].identity \in Nat /\ peers'[o].identity \in Nat
  BY PeerRowsAreTyped DEF TypeOK
<1>2. SUFFICES ASSUME x.status # "none"
               PROVE  /\ x.identity <= peers'[o].identity
                      /\ x.identity = peers'[o].identity =>
                           \E f \in Evidence : e = Settled(f, x.status) /\ proc'[o] \in {f, "dead"}
  BY DEF WillHold
<1>3. x.identity <= peers[o].identity
  BY <1>2 DEF Holds
<1>4. ASSUME x.identity = peers'[o].identity
      PROVE  \E f \in Evidence : e = Settled(f, x.status) /\ proc'[o] \in {f, "dead"}
  <2>1. x.identity = peers[o].identity /\ peers'[o].identity = peers[o].identity
    BY <1>1, <1>3, <1>4 DEF Ages
  <2>2. PICK f \in Evidence : e = Settled(f, x.status) /\ proc[o] \in {f, "dead"}
    BY <1>2, <2>1 DEF Holds
  <2> QED
    BY <2>1, <2>2 DEF Ages
<1> QED
  BY <1>1, <1>3, <1>4 DEF Ages

LEMMA SameAges ==
    ASSUME TypeOK, NEW o \in Peer, UNCHANGED <<peers, proc>>
    PROVE  Ages(o)
<1>1. peers[o].identity \in Nat
  BY PeerRowsAreTyped DEF TypeOK
<1> QED
  BY <1>1 DEF Ages

Registered == /\ peers' \in [Peer -> RowOrNone]
              /\ \A o \in Peer : Ages(o)

LEMMA UnchangedRegistered ==
    ASSUME TypeOK, UNCHANGED <<peers, proc>>
    PROVE  Registered
  BY SameAges DEF Registered, TypeOK

LEMMA CommandRegisters ==
    ASSUME TypeOK, NEW p \in Peer, CommandActs(p)
    PROVE  Registered
<1>1. CASE Begin(p)
  <2>1. PICK status \in {"keep", "idle", "working"} : peers' = Touched(p, status)
    BY <1>1 DEF Begin, TouchStatus
  <2>2. UNCHANGED proc
    BY <1>1 DEF Begin
  <2>3. \A q \in Peer : peers[q].identity \in Nat
    BY PeerRowsAreTyped DEF TypeOK
  <2>4. ASSUME NEW q \in Peer PROVE peers'[q].identity >= peers[q].identity
    <3>1. CASE q = p
      BY <2>1, <3>1, TouchedType
    <3>2. CASE q # p
      <4>1. peers'[q] = peers[q]
        BY <2>1, <3>2, TouchedType
      <4> QED
        BY <2>3, <4>1
    <3> QED
      BY <3>1, <3>2
  <2> QED
    BY <2>1, <2>2, <2>4, TouchedType DEF Registered, Ages
<1>2. CASE ~Begin(p)
  <2>1. UNCHANGED <<peers, proc>>
    BY <1>2 DEF CommandActs, GiveUp, Look, Observe, LookAgain, Aside, Time, Runtime, Board
  <2> QED
    BY <2>1, UnchangedRegistered
<1> QED
  BY <1>1, <1>2

LEMMA ReapsOne ==
    ASSUME TypeOK, NEW p \in Peer, NEW x \in RowOrNone, x.identity = peers[p].identity,
           peers' = [peers EXCEPT ![p] = x], UNCHANGED proc
    PROVE  Registered
<1>1. peers' \in [Peer -> RowOrNone]
  BY DEF TypeOK
<1>2. \A q \in Peer : peers[q].identity \in Nat /\ peers'[q].identity = peers[q].identity
  BY PeerRowsAreTyped DEF TypeOK
<1> QED
  BY <1>1, <1>2 DEF Registered, Ages

LEMMA MixType ==
    ASSUME TypeOK
    PROVE  /\ \A p \in Peer : mix.probes[p] \subseteq Evidence /\ mix.commands[p] \subseteq Command
           /\ mix.clock \in Nat
  BY TaskBoardAssumption DEF TypeOK, Mix

LEMMA SweepRegisters ==
    ASSUME TypeOK, SweepHolds, NEW p \in Peer, SweepActs(p)
    PROVE  Registered
<1>1. CASE Reap(p)
  <2> DEFINE x == IF sweep.kind = "collect" THEN NoRowAfter(peers[p].identity)
                  ELSE [identity |-> peers[p].identity, status |-> "exited", seen |-> peers[p].seen]
  <2>1. peers' = [peers EXCEPT ![p] = x]
    BY <1>1 DEF Reap
  <2>2. peers[p] \in RowOrNone /\ peers[p].identity \in Nat /\ peers[p].seen \in Nat
    BY PeerRowsAreTyped DEF TypeOK
  <2>3. CASE sweep.kind = "collect"
    <3>1. x \in RowOrNone /\ x.identity = peers[p].identity
      BY <2>2, <2>3, PeerRowsAreTyped
    <3> HIDE DEF x
    <3> QED
      BY <1>1, <2>1, <2>2, <3>1, ReapsOne DEF Reap
  <2>4. CASE sweep.kind # "collect" /\ peers[p].identity # 0
    <3>1. x \in RowOrNone /\ x.identity = peers[p].identity
      BY <2>2, <2>4, PeerRowsAreTyped
    <3> HIDE DEF x
    <3> QED
      BY <1>1, <2>1, <2>2, <3>1, ReapsOne DEF Reap
  <2>5. peers[p].identity # 0
    BY <1>1, <2>2, PeerRowsAreTyped DEF Reap, RowUnchanged, SweepHolds, TypeOK
  <2> QED
    BY <2>3, <2>4, <2>5
<1>2. CASE ~Reap(p)
  <2>1. UNCHANGED <<peers, proc>>
    BY <1>2, SweepFrame DEF SweepActs, SweepLooks, Spare
  <2> QED
    BY <2>1, UnchangedRegistered
<1> QED
  BY <1>1, <1>2

LEMMA WorldRegisters ==
    ASSUME TypeOK, NEW p \in Peer, WorldActs(p)
    PROVE  Registered /\ proc' \in [Peer -> Evidence]
<1>1. ASSUME NEW status \in {"idle", "working"}, Register(p, status)
      PROVE  Registered /\ proc' \in [Peer -> Evidence]
  <2> DEFINE x == [ identity |-> peers[p].identity + 1, seen |-> clock,
                    status |-> IF status = "idle" /\ peers[p].status = "exited" THEN "exited" ELSE status ]
  <2>1. peers' = [peers EXCEPT ![p] = x]
    BY <1>1 DEF Register
  <2>2. peers[p].identity \in Nat /\ clock \in Nat /\ \A q \in Peer : peers[q].identity \in Nat
    BY PeerRowsAreTyped DEF TypeOK
  <2>3. x \in RowOrNone /\ x.identity = peers[p].identity + 1
    BY <2>2 DEF RowOrNone, PeerRow
  <2> HIDE DEF x
  <2>4. peers' \in [Peer -> RowOrNone]
    BY <2>1, <2>3 DEF TypeOK
  <2>5. PICK e \in mix.probes[p] \ {"dead"} : proc' = [proc EXCEPT ![p] = e]
    BY <1>1 DEF Register
  <2>6. mix.probes[p] \subseteq Evidence
    BY MixType
  <2>7. proc' \in [Peer -> Evidence] /\ \A q \in Peer \ {p} : proc'[q] = proc[q]
    BY <2>5, <2>6 DEF TypeOK
  <2>8. /\ peers'[p].identity = peers[p].identity + 1
        /\ \A q \in Peer \ {p} : peers'[q] = peers[q]
    BY <2>1, <2>3 DEF TypeOK
  <2>9. \A q \in Peer : Ages(q)
    BY <2>2, <2>7, <2>8 DEF Ages
  <2> QED
    BY <2>4, <2>7, <2>9 DEF Registered
<1>2. CASE ProcessDies(p)
  <2>1. proc' = [proc EXCEPT ![p] = "dead"] /\ UNCHANGED peers
    BY <1>2 DEF ProcessDies
  <2>2. \A q \in Peer : peers[q].identity \in Nat
    BY PeerRowsAreTyped DEF TypeOK
  <2> QED
    BY <2>1, <2>2 DEF Registered, Ages, TypeOK, Evidence
<1> QED
  BY <1>1, <1>2 DEF WorldActs

-----------------------------------------------------------------------------
(* Commands and sweeps under way                                           *)

Sound(c) ==
    /\ c.step # "idle" => c.task \in Task
    /\ c.step \in {"looked", "judged"} /\ c.subject.task.owner \in Peer =>
         Holds(c.subject.task.owner, c.subject.peer, c.evidence)

LEMMA AllSound ==
    ASSUME Inv
    PROVE  \A q \in Peer : op[q] \in Op /\ op[q].subject \in Subject /\ Sound(op[q])
  BY DEF Inv, TypeOK, TasksAsked, TakeoversHold, Sound, Op, Subject

LEMMA IdleIsSound == Idle \in Op /\ Sound(Idle)
  BY IdleType DEF Sound

LEMMA BegunIsSound ==
    ASSUME NEW kind \in Command, NEW t \in Task, NEW policy \in Policy,
           NEW force \in BOOLEAN, NEW tries \in 0..1
    PROVE  Begun(kind, t, policy, force, tries) \in Op /\ Sound(Begun(kind, t, policy, force, tries))
<1> DEFINE c == Begun(kind, t, policy, force, tries)
<1>1. c \in Op /\ c.step = "begun"
  BY BegunType
<1>2. c.task = t
  BY DEF Begun
<1> QED
  BY <1>1, <1>2 DEF Sound

LEMMA CommandStep ==
    ASSUME Inv, NEW p \in Peer, CommandActs(p)
    PROVE  /\ op' \in [Peer -> Op] /\ \A q \in Peer : Sound(op'[q])
           /\ safety' \in Safety /\ begun' \in Nat
<1> DEFINE Good == op' \in [Peer -> Op] /\ \A q \in Peer : Sound(op'[q])
           Rest == safety' \in Safety /\ begun' \in Nat
<1>0. TypeOK /\ clock \in Nat /\ safety \in Safety /\ begun \in Nat /\ op \in [Peer -> Op]
  BY DEF Inv, TypeOK
<1>a. ASSUME NEW c \in Op, Sound(c), SetOp(p, c) PROVE Good
  BY <1>0, <1>a, SetOpType, AllSound
<1>b. op[p] \in Op /\ op[p].subject \in Subject /\ Sound(op[p])
  BY AllSound
<1> SUFFICES Good /\ Rest
  OBVIOUS
<1> HIDE DEF Good
<1>1. CASE Begin(p)
  <2> DEFINE none == 0
  <2>1. PICK kind \in mix.commands[p] \ {"turn"}, t \in Task :
             \E policy \in IF kind = "takeover" THEN Policies ELSE {"any"},
                force \in IF kind \in {"team", "claim", "next"} THEN BOOLEAN ELSE {FALSE} :
                   SetOp(p, Begun(kind, t, policy, force, 0))
    BY <1>1 DEF Begin
  <2>2. PICK policy \in Policy, force \in BOOLEAN : SetOp(p, Begun(kind, t, policy, force, none))
    BY <2>1, TaskBoardAssumption DEF Policy
  <2>3. kind \in Command
    BY <1>0, <2>1, MixType
  <2>a. none \in 0..1
    OBVIOUS
  <2>b. Rest
    BY <1>0, <1>1 DEF Begin
  <2> HIDE DEF none
  <2>4. Begun(kind, t, policy, force, none) \in Op /\ Sound(Begun(kind, t, policy, force, none))
    BY <2>2, <2>3, <2>a, BegunIsSound
  <2> QED
    BY <1>a, <2>2, <2>4, <2>b
<1>2. CASE GiveUp(p)
  BY <1>0, <1>2, <1>a, IdleIsSound DEF GiveUp, Aside
<1>3. CASE Look(p)
  <2> DEFINE c == op[p]
             t == op[p].task
             o == tasks[op[p].task].owner
             e == IF o = NoPeer THEN "unknown" ELSE EvidenceOf(o)
             n == Further(c, "looked", Capture(t), e, 0)
  <2>1. SetOp(p, n) /\ Exists(t) /\ t \in Task
    BY <1>3, <1>b DEF Look, Sound
  <2>2. o \in PeerOrNone /\ Capture(t) \in Subject /\ Capture(t).task.owner = o
    BY <1>0, <2>1, CaptureType
  <2>3. e \in Evidence
    <3>1. CASE o = NoPeer
      BY <3>1 DEF Evidence
    <3>2. CASE o \in Peer
      BY <1>0, <3>2, EvidenceType, TaskBoardAssumption
    <3> QED
      BY <2>2, <3>1, <3>2 DEF PeerOrNone
  <2>4. ASSUME o \in Peer PROVE Holds(o, Capture(t).peer, e)
    <3>1. Capture(t).peer = IF Known(o) THEN peers[o] ELSE Unregistered
      BY <1>0, <2>1, <2>4, CaptureType
    <3>2. CASE ~Known(o)
      BY <3>1, <3>2, PeerRowsAreTyped DEF Holds
    <3>3. CASE Known(o)
      <4>1. e = Settled(proc[o], peers[o].status)
        BY <1>0, <2>4, <3>3, EvidenceType, TaskBoardAssumption
      <4>2. proc[o] \in Evidence /\ peers[o].identity \in Nat
        BY <1>0, <2>4, PeerRowsAreTyped DEF TypeOK
      <4> HIDE DEF e
      <4> QED
        BY <3>1, <3>3, <4>1, <4>2 DEF Holds
    <3> QED
      BY <3>2, <3>3
  <2>5. n \in Op /\ n.step = "looked" /\ n.subject = Capture(t) /\ n.evidence = e /\ n.task = t
    <3> HIDE DEF e
    <3>1. Further(op[p], "looked", Capture(t), e, 0).task = t
      BY DEF Further
    <3> QED
      BY <1>b, <2>2, <2>3, <3>1, FurtherType
  <2>6. Sound(n)
    <3> HIDE DEF n, e, o
    <3> QED
      BY <2>1, <2>2, <2>4, <2>5 DEF Sound
  <2> HIDE DEF n
  <2> QED
    BY <1>0, <1>3, <1>a, <2>1, <2>5, <2>6 DEF Look, Aside
<1>4. CASE Observe(p)
  <2> DEFINE c == op[p]
             n == Further(c, "judged", c.subject, c.evidence, clock)
  <2>1. SetOp(p, n) /\ c.step = "looked" /\ UNCHANGED begun
    BY <1>4 DEF Observe
  <2>2. n \in Op /\ n.step = "judged" /\ n.subject = c.subject /\ n.evidence = c.evidence /\ n.task = c.task
    <3>1. c.evidence \in Evidence
      BY <1>b DEF Op
    <3>2. n.task = c.task
      BY DEF Further
    <3> QED
      BY <1>0, <1>b, <3>1, <3>2, FurtherType
  <2>3. Sound(n)
    <3> HIDE DEF n
    <3> QED
      BY <1>b, <2>1, <2>2 DEF Sound
  <2>4. safety' \in Safety
    <3>1. NoJump \in Jump
      BY DEF Jump
    <3> QED
      BY <1>0, <1>4, <3>1, ObservedType DEF Observe
  <2> HIDE DEF n
  <2> QED
    BY <1>0, <1>a, <2>1, <2>2, <2>3, <2>4
<1>5. CASE LookAgain(p)
  <2>1. op[p].task \in Task /\ op[p].policy \in Policy
    BY <1>5, <1>b DEF LookAgain, Sound, Op
  <2> DEFINE kind == "takeover"
             no == FALSE
             once == 1
  <2>2. no \in BOOLEAN /\ kind \in Command /\ once \in 0..1
    BY DEF Command
  <2>3. SetOp(p, Begun(kind, op[p].task, op[p].policy, no, once)) /\ UNCHANGED <<safety, begun>>
    BY <1>5 DEF LookAgain, Aside
  <2> HIDE DEF kind, no, once
  <2>4. /\ Begun(kind, op[p].task, op[p].policy, no, once) \in Op
        /\ Sound(Begun(kind, op[p].task, op[p].policy, no, once))
    BY <2>1, <2>2, BegunIsSound
  <2> QED
    BY <1>0, <1>a, <2>3, <2>4
<1> QED
  BY <1>1, <1>2, <1>3, <1>4, <1>5 DEF CommandActs

Fresh(s) ==
    s.step = "looked" =>
        /\ s.peer \in Peer /\ s.rows[s.peer].status # "none"
        /\ Holds(s.peer, s.rows[s.peer], s.evidence[s.peer])

LEMMA SweepFields ==
    ASSUME TypeOK
    PROVE  /\ sweep \in Sweep /\ sweep.rows \in [Peer -> RowOrNone]
           /\ sweep.evidence \in [Peer -> Evidence] /\ sweep.todo \in SUBSET Peer
           /\ sweep.peer \in PeerOrNone /\ sweep.tries \in 0..1 /\ sweep.jump \in Jump
           /\ sweep.at \in Nat /\ sweep.kind \in SweepKind \cup {"none"}
  BY DEF TypeOK, Sweep

LEMMA GoesType ==
    ASSUME TypeOK, NEW todo \in SUBSET Peer, NEW tries \in 0..1, Goes(todo, tries)
    PROVE  sweep' \in Sweep /\ Fresh(sweep')
<1> DEFINE step == "judged"
           n == Swept(sweep, step, sweep.rows, sweep.evidence, todo, sweep.peer, tries)
<1>1. sweep' = n
  BY DEF Goes
<1>2. step \in {"judged", "looked"} /\ step # "looked"
  OBVIOUS
<1> HIDE DEF step
<1>3. n \in Sweep /\ n.step = step
  BY <1>2, SweepFields, SweptType
<1> HIDE DEF n
<1> QED
  BY <1>1, <1>2, <1>3 DEF Fresh

LEMMA NoSweepIsFresh == NoSweep \in Sweep /\ Fresh(NoSweep)
  BY NoSweepType DEF Fresh

\* What looking at a peer, marking it or leaving it makes of the sweep.
LEMMA SweepStep ==
    ASSUME TypeOK, NEW p \in Peer, SweepActs(p)
    PROVE  sweep' \in Sweep /\ Fresh(sweep')
<1> DEFINE none == 0
           once == 1
<1>a. none \in 0..1 /\ once \in 0..1
  OBVIOUS
<1>b. sweep.todo \ {p} \in SUBSET Peer /\ sweep.todo \in SUBSET Peer
  BY SweepFields
<1>1. CASE Goes(sweep.todo \ {p}, 0)
  <2>1. Goes(sweep.todo \ {p}, none)
    BY <1>1
  <2> HIDE DEF none
  <2> QED
    BY <1>a, <1>b, <2>1, GoesType
<1>2. CASE Goes(sweep.todo, 1)
  <2>1. Goes(sweep.todo, once)
    BY <1>2
  <2> HIDE DEF once
  <2> QED
    BY <1>a, <1>b, <2>1, GoesType
<1>3. CASE /\ SweepLooks(p) /\ Known(p)
           /\ sweep' = Swept(sweep, "looked", [sweep.rows EXCEPT ![p] = peers[p]],
                             [sweep.evidence EXCEPT ![p] = EvidenceOf(p)],
                             sweep.todo, p, sweep.tries)
  <2> DEFINE step == "looked"
             rows == [sweep.rows EXCEPT ![p] = peers[p]]
             evidence == [sweep.evidence EXCEPT ![p] = EvidenceOf(p)]
             n == Swept(sweep, step, rows, evidence, sweep.todo, p, sweep.tries)
  <2>1. sweep' = n
    BY <1>3
  <2>2. step \in {"judged", "looked"} /\ p \in PeerOrNone
    BY DEF PeerOrNone
  <2>3. peers[p] \in RowOrNone /\ peers[p].identity \in Nat /\ proc[p] \in Evidence
    BY PeerRowsAreTyped DEF TypeOK
  <2>4. EvidenceOf(p) \in Evidence /\ EvidenceOf(p) = Settled(proc[p], peers[p].status)
    BY <1>3, EvidenceType
  <2>5. /\ rows \in [Peer -> RowOrNone] /\ rows[p] = peers[p]
        /\ evidence \in [Peer -> Evidence] /\ evidence[p] = EvidenceOf(p)
    BY <2>3, <2>4, SweepFields
  <2> HIDE DEF step, rows, evidence
  <2>6. n \in Sweep /\ n.rows = rows /\ n.evidence = evidence /\ n.peer = p
    BY <2>2, <2>5, SweepFields, SweptType
  <2>7. Holds(p, peers[p], EvidenceOf(p))
    BY <2>3, <2>4 DEF Holds
  <2> HIDE DEF n
  <2> QED
    BY <1>3, <2>1, <2>5, <2>6, <2>7 DEF Fresh, Known
<1> QED
  BY <1>1, <1>2, <1>3 DEF SweepActs, SweepLooks, Reap, Spare

LEMMA DetectedType ==
    ASSUME TypeOK, ProbedBefore
    PROVE  Detected \in Jump
<1>1. drift.since \in Nat /\ clock \in Nat /\ clock - drift.since \in Nat
  BY DEF TypeOK, ProbedBefore
<1> QED
  BY <1>1 DEF Detected, Jump

\* What the steps of the runtime itself make of it, the clock and the turns.
LEMMA RuntimeStep ==
    ASSUME TypeOK, ProbedBefore, RuntimeActs
    PROVE  /\ sweep' \in Sweep /\ Fresh(sweep')
           /\ safety' \in Safety /\ drift' \in Drift /\ swept' \in Nat
           /\ scopes' \subseteq scopes /\ drift' \in {drift, Probed(clock)}
<1>0. /\ safety \in Safety /\ drift \in Drift /\ swept \in Nat /\ clock \in Nat /\ NoJump \in Jump
      /\ Probed(clock) \in Drift
  BY DEF TypeOK, Jump, Drift, Probed
<1>1. ASSUME NEW kind \in SweepKind, StartSweep(kind)
      PROVE  /\ sweep' \in Sweep /\ Fresh(sweep') /\ safety' = safety
             /\ drift' \in Drift /\ swept' \in Nat /\ scopes' = scopes
             /\ drift' \in {drift, Probed(clock)}
  <2> DEFINE read == {p \in Peer : InSweep(kind, p)}
             rows == [p \in Peer |-> IF p \in read THEN peers[p] ELSE Unregistered]
             evidence == [p \in Peer |-> IF p \in read THEN EvidenceOf(p) ELSE "unknown"]
             todo == { p \in read : ~(p \in Managed /\ EvidenceOf(p) = "live") }
             jump == IF kind = "poll" THEN Detected ELSE NoJump
             n == [ kind |-> kind, step |-> "read", at |-> clock, rows |-> rows,
                    evidence |-> evidence, todo |-> todo, peer |-> NoPeer, tries |-> 0,
                    jump |-> jump ]
  <2>1. sweep' = n
    BY <1>1 DEF StartSweep
  <2>2. rows \in [Peer -> RowOrNone]
    BY PeerRowsAreTyped DEF TypeOK
  <2>3. evidence \in [Peer -> Evidence]
    BY EvidenceType DEF Evidence
  <2>4. todo \in SUBSET Peer /\ jump \in Jump
    BY <1>0, DetectedType
  <2>5. n \in Sweep /\ n.step = "read"
    <3> HIDE DEF rows, evidence, todo, jump
    <3> QED
      BY <1>0, <2>2, <2>3, <2>4 DEF Sweep, PeerOrNone
  <2>6. swept' = swept + 1 /\ drift' \in {Probed(clock), drift} /\ UNCHANGED <<safety, scopes>>
    BY <1>1 DEF StartSweep
  <2> HIDE DEF n
  <2> QED
    BY <1>0, <2>1, <2>5, <2>6 DEF Fresh
<1>2. ASSUME JudgeSweep
      PROVE  /\ sweep' \in Sweep /\ Fresh(sweep') /\ safety' \in Safety
             /\ UNCHANGED <<drift, swept, scopes>>
  <2> DEFINE asked == IF sweep.kind = "collect" THEN "gc" ELSE "ownership"
             after == Observed(safety, asked, SweepCandidates, {}, sweep.at, sweep.jump)
             rest == { p \in sweep.todo : sweep.kind = "poll" \/
                         AllowsReap(sweep.evidence[p], sweep.at, sweep.rows[p].seen,
                                    UnknownGrace, after.grace) }
  <2>1. safety' = after /\ UNCHANGED <<drift, swept, scopes>>
    BY <1>2 DEF JudgeSweep, Time
  <2>2. after \in Safety
    BY <1>0, SweepFields, ObservedType
  <2>3. sweep' = NoSweep \/ Goes(rest, sweep.tries)
    BY <1>2 DEF JudgeSweep
  <2>4. rest \in SUBSET Peer /\ sweep.tries \in 0..1
    BY SweepFields
  <2> HIDE DEF rest, after
  <2> QED
    BY <2>1, <2>2, <2>3, <2>4, GoesType, NoSweepIsFresh
<1>3. CASE EndSweep
  BY <1>0, <1>3, NoSweepIsFresh DEF EndSweep, Time
<1>4. CASE RuntimeRestarts
  BY <1>0, <1>4, NoSweepIsFresh DEF RuntimeRestarts
<1> QED
  BY <1>0, <1>1, <1>2, <1>3, <1>4 DEF RuntimeActs

-----------------------------------------------------------------------------
(* Turns and results                                                       *)

LEMMA ElementFacts ==
    ASSUME NEW S, NEW s \in Seq(S)
    PROVE  Len(s) \in Nat /\ \A i \in 1..Len(s) : s[i] \in S
  OBVIOUS

LEMMA AppendFacts ==
    ASSUME NEW S, NEW s \in Seq(S), NEW x \in S
    PROVE  /\ Append(s, x) \in Seq(S) /\ Len(s) \in Nat
           /\ Len(Append(s, x)) = Len(s) + 1
           /\ Append(s, x)[Len(s) + 1] = x
           /\ \A i \in 1..Len(s) : Append(s, x)[i] = s[i]
  OBVIOUS

TurnsTyped ==
    /\ turns \in [Peer -> Seq(Task \cup {NoTask})]
    /\ scopes \subseteq [peer : Peer, turn : Nat, task : Task]
    /\ results \in Seq([peer : Peer, turn : Nat, task : Task])

\* What a turn, or filing what it did, makes of the turns and results.
LEMMA TurnStep ==
    ASSUME Inv, NEW p \in Peer, TurnActs(p)
    PROVE  TurnsTyped' /\ ScopesAreTurns' /\ FiledAsBegun' /\ FiledOnce'
<1>0. /\ TurnsTyped /\ ScopesAreTurns /\ FiledAsBegun /\ FiledOnce /\ MaxTurns \in Nat
      /\ \A i \in 1..Len(results) : results[i] \in [peer : Peer, turn : Nat, task : Task]
      /\ \A q \in Peer : turns[q] \in Seq(Task \cup {NoTask}) /\ Len(turns[q]) \in Nat
      /\ Len(results) \in Nat
  <2>1. TurnsTyped /\ ScopesAreTurns /\ FiledAsBegun /\ FiledOnce
    BY DEF Inv, TypeOK, TurnsTyped
  <2>2. \A q \in Peer : turns[q] \in Seq(Task \cup {NoTask})
    BY <2>1 DEF TurnsTyped
  <2>3. \A q \in Peer : Len(turns[q]) \in Nat
    BY <2>2
  <2>4. \A i \in 1..Len(results) : results[i] \in [peer : Peer, turn : Nat, task : Task]
    BY <2>1, ElementFacts DEF TurnsTyped
  <2>5. Len(results) \in Nat
    BY <2>1 DEF TurnsTyped
  <2>6. MaxTurns \in Nat
    BY TaskBoardAssumption
  <2> QED
    BY <2>1, <2>2, <2>3, <2>4, <2>5, <2>6
<1>1. ASSUME NEW fresh \in BOOLEAN, StartTurn(p, fresh)
      PROVE  TurnsTyped' /\ ScopesAreTurns' /\ FiledAsBegun' /\ FiledOnce'
  <2>1. PICK t \in CurrentTasks(p) :
          /\ turns' = [turns EXCEPT ![p] = Append(turns[p], t)]
          /\ scopes' = IF fresh /\ t # NoTask
                       THEN scopes \cup {[peer |-> p, turn |-> Len(turns[p]) + 1, task |-> t]}
                       ELSE scopes
    BY <1>1 DEF StartTurn
  <2>2. t \in Task \cup {NoTask} /\ results' = results
    BY <1>1, <2>1 DEF StartTurn, CurrentTasks, Board
  <2> DEFINE longer == Append(turns[p], t)
             bound == [peer |-> p, turn |-> Len(turns[p]) + 1, task |-> t]
  <2>3. /\ longer \in Seq(Task \cup {NoTask}) /\ Len(longer) = Len(turns[p]) + 1
        /\ longer[Len(turns[p]) + 1] = t
        /\ \A i \in 1..Len(turns[p]) : longer[i] = turns[p][i]
    BY <1>0, <2>2, AppendFacts
  <2> HIDE DEF longer
  <2>4. /\ turns' \in [Peer -> Seq(Task \cup {NoTask})]
        /\ turns'[p] = longer /\ \A q \in Peer \ {p} : turns'[q] = turns[q]
    BY <1>0, <2>1, <2>3 DEF longer, TurnsTyped
  <2>5. ASSUME NEW q \in Peer, NEW i \in 1..Len(turns[q])
        PROVE  i \in 1..Len(turns'[q]) /\ turns'[q][i] = turns[q][i]
    BY <1>0, <2>3, <2>4
  <2>6. scopes' = scopes \/ (t \in Task /\ scopes' = scopes \cup {bound})
    BY <2>1, <2>2
  <2>7. /\ t \in Task => bound \in [peer : Peer, turn : Nat, task : Task]
        /\ bound.peer = p /\ bound.turn = Len(turns[p]) + 1 /\ bound.task = t
    BY <1>0
  <2> HIDE DEF bound
  <2>8. TurnsTyped'
    BY <1>0, <2>2, <2>4, <2>6, <2>7 DEF TurnsTyped
  <2>9. ASSUME NEW s \in scopes' PROVE s.turn \in 1..Len(turns'[s.peer]) /\ turns'[s.peer][s.turn] = s.task
    <3>1. CASE s \in scopes
      <4>1. s.peer \in Peer /\ s.turn \in 1..Len(turns[s.peer]) /\ turns[s.peer][s.turn] = s.task
        BY <1>0, <3>1 DEF TurnsTyped, ScopesAreTurns
      <4> QED
        BY <2>5, <4>1
    <3>2. CASE s = bound
      BY <1>0, <2>3, <2>4, <2>7, <3>2
    <3> QED
      BY <2>6, <2>9, <3>1, <3>2
  <2>10. FiledAsBegun'
    <3>1. ASSUME NEW i \in 1..Len(results)
          PROVE  /\ results[i].turn \in 1..Len(turns'[results[i].peer])
                 /\ turns'[results[i].peer][results[i].turn] = results[i].task
      <4>1. /\ results[i].peer \in Peer /\ results[i].turn \in 1..Len(turns[results[i].peer])
            /\ turns[results[i].peer][results[i].turn] = results[i].task
        BY <1>0 DEF FiledAsBegun
      <4> QED
        BY <2>5, <4>1
    <3> QED
      BY <2>2, <3>1 DEF FiledAsBegun
  <2> QED
    BY <1>0, <2>2, <2>8, <2>9, <2>10 DEF ScopesAreTurns, FiledOnce
<1>2. ASSUME NEW n \in 1..MaxTurns, FileResult(p, n)
      PROVE  TurnsTyped' /\ ScopesAreTurns' /\ FiledAsBegun' /\ FiledOnce'
  <2>1. PICK t \in Scoped(p, n) :
          ~Filed(p, n, t) /\ results' = Append(results, [peer |-> p, turn |-> n, task |-> t])
    BY <1>2 DEF FileResult
  <2>2. UNCHANGED <<turns, scopes>>
    BY <1>2 DEF FileResult, Runtime
  <2>3. PICK s \in scopes : s.peer = p /\ s.turn = n /\ s.task = t
    BY <2>1 DEF Scoped
  <2>4. t \in Task /\ n \in 1..Len(turns[p]) /\ turns[p][n] = t
    BY <1>0, <2>3 DEF TurnsTyped, ScopesAreTurns
  <2> DEFINE r == [peer |-> p, turn |-> n, task |-> t]
  <2>5. r \in [peer : Peer, turn : Nat, task : Task] /\ r.peer = p /\ r.turn = n /\ r.task = t
    BY <1>0, <2>4
  <2>6. \A i \in 1..Len(results) : results[i] # r
    BY <2>1 DEF Filed
  <2>7. results' = Append(results, r)
    BY <2>1
  <2> HIDE DEF r
  <2>8. /\ results' \in Seq([peer : Peer, turn : Nat, task : Task])
        /\ Len(results') = Len(results) + 1
        /\ results'[Len(results) + 1] = r
        /\ \A i \in 1..Len(results) : results'[i] = results[i]
    BY <1>0, <2>5, <2>7, AppendFacts DEF TurnsTyped
  <2>9. TurnsTyped' /\ ScopesAreTurns'
    BY <1>0, <2>2, <2>8 DEF TurnsTyped, ScopesAreTurns
  <2>10. ASSUME NEW i \in 1..Len(results')
         PROVE  (i \in 1..Len(results) /\ results'[i] = results[i])
                  \/ (i = Len(results) + 1 /\ results'[i] = r)
    BY <1>0, <2>8
  <2>11. FiledAsBegun'
    BY <1>0, <2>2, <2>4, <2>5, <2>10 DEF FiledAsBegun
  <2>12. FiledOnce'
    BY <1>0, <2>6, <2>10 DEF FiledOnce
  <2> QED
    BY <2>9, <2>11, <2>12
<1> QED
  BY <1>1, <1>2 DEF TurnActs

-----------------------------------------------------------------------------
(* The invariant                                                           *)

LEMMA CommandsHold ==
    ASSUME TypeOK, Registered, op' \in [Peer -> Op], \A q \in Peer : Sound(op'[q])
    PROVE  TasksAsked' /\ TakeoversHold'
<1>1. TasksAsked'
  BY DEF TasksAsked, Sound
<1>2. ASSUME NEW q \in Peer, op'[q].step \in {"looked", "judged"}, op'[q].subject.task.owner \in Peer
      PROVE  WillHold(op'[q].subject.task.owner, op'[q].subject.peer, op'[q].evidence)
  <2> DEFINE o == op'[q].subject.task.owner
             x == op'[q].subject.peer
             e == op'[q].evidence
  <2>1. op'[q] \in Op
    OBVIOUS
  <2>2. o \in Peer /\ x \in RowOrNone /\ e \in Evidence
    BY <1>2, <2>1 DEF Op
  <2>3. Holds(o, x, e)
    BY <1>2 DEF Sound
  <2>4. Ages(o) /\ peers' \in [Peer -> RowOrNone]
    BY <2>2 DEF Registered
  <2>5. PICK ko \in Peer, kx \in RowOrNone, ke \in Evidence : ko = o /\ kx = x /\ ke = e
    BY <2>2
  <2>6. Holds(ko, kx, ke)
    BY <2>3, <2>5
  <2>7. Ages(ko)
    BY <2>4, <2>5
  <2>8. WillHold(ko, kx, ke)
    BY <2>4, <2>6, <2>7, HoldsStays
  <2> QED
    BY <2>5, <2>8
<1> QED
  BY <1>1, <1>2 DEF TakeoversHold, Holds, WillHold

LEMMA SweepsHold ==
    ASSUME TypeOK, Registered, sweep' \in Sweep, Fresh(sweep')
    PROVE  SweepHolds'
<1> DEFINE o == sweep'.peer
           x == sweep'.rows[sweep'.peer]
           e == sweep'.evidence[sweep'.peer]
<1> SUFFICES ASSUME sweep'.step = "looked"
             PROVE  o \in Peer /\ x.status # "none" /\ WillHold(o, x, e)
  BY DEF SweepHolds, Holds, WillHold
<1>1. o \in Peer /\ x.status # "none" /\ Holds(o, x, e)
  BY DEF Fresh
<1>2. x \in RowOrNone /\ e \in Evidence
  BY <1>1 DEF Sweep
<1>3. Ages(o) /\ peers' \in [Peer -> RowOrNone]
  BY <1>1 DEF Registered
<1>4. PICK ko \in Peer, kx \in RowOrNone, ke \in Evidence : ko = o /\ kx = x /\ ke = e
  BY <1>1, <1>2
<1>5. Holds(ko, kx, ke)
  BY <1>1, <1>4
<1>6. Ages(ko)
  BY <1>3, <1>4
<1>7. WillHold(ko, kx, ke)
  BY <1>3, <1>5, <1>6, HoldsStays
<1> QED
  BY <1>1, <1>4, <1>7

\* The parts of the state no step of a kind touches keep what they had.
LEMMA CommandsStay ==
    ASSUME Inv, UNCHANGED op
    PROVE  op' \in [Peer -> Op] /\ \A q \in Peer : Sound(op'[q])
  BY AllSound DEF Inv, TypeOK

LEMMA SweepStays ==
    ASSUME Inv, UNCHANGED sweep
    PROVE  sweep' \in Sweep /\ Fresh(sweep')
  BY DEF Inv, TypeOK, SweepHolds, Fresh

LEMMA TurnsStay ==
    ASSUME Inv, UNCHANGED <<turns, results>>, scopes' \subseteq scopes
    PROVE  TurnsTyped' /\ ScopesAreTurns' /\ FiledAsBegun' /\ FiledOnce'
  BY DEF Inv, TypeOK, TurnsTyped, ScopesAreTurns, FiledAsBegun, FiledOnce

\* What is left of the types.
Counted ==
    /\ clock \in Nat /\ jumps \in Nat /\ begun \in Nat /\ swept \in Nat /\ mix \in Mixes
    /\ slept \subseteq [from : Nat, to : Nat] /\ ProbedBefore
    /\ safety \in Safety /\ drift \in Drift /\ proc \in [Peer -> Evidence]
    /\ tasks \in [Task -> Row \cup {NoRow}]

LEMMA PartsMakeInv ==
    ASSUME Inv, Registered, Counted',
           op' \in [Peer -> Op], \A q \in Peer : Sound(op'[q]),
           sweep' \in Sweep, Fresh(sweep'),
           TurnsTyped', ScopesAreTurns', FiledAsBegun', FiledOnce'
    PROVE  Inv'
<1>1. TypeOK'
  BY DEF TypeOK, Counted, TurnsTyped, Registered, Drift
<1>2. TasksAsked' /\ TakeoversHold' /\ SweepHolds'
  BY CommandsHold, SweepsHold DEF Inv
<1> QED
  BY <1>1, <1>2 DEF Inv, Counted

LEMMA InvInit == Init => Inv
<1> SUFFICES ASSUME Init PROVE Inv
  OBVIOUS
<1>1. TypeOK
  <2>1. FreshSafety \in Safety /\ Probed(0) \in Drift
    BY DEF FreshSafety, Safety, Probed, Drift
  <2>2. /\ [p \in Peer |-> Unregistered] \in [Peer -> RowOrNone]
        /\ [p \in Peer |-> Idle] \in [Peer -> Op] /\ NoSweep \in Sweep
    BY PeerRowsAreTyped, IdleType, NoSweepType
  <2>3. [p \in Peer |-> <<>>] \in [Peer -> Seq(Task \cup {NoTask})]
    OBVIOUS
  <2>4. results \in Seq([peer : Peer, turn : Nat, task : Task])
    BY DEF Init
  <2>5. tasks \in [Task -> Row \cup {NoRow}]
    BY DEF Init
  <2> QED
    BY <2>1, <2>2, <2>3, <2>4, <2>5 DEF Init, TypeOK, Drift
<1>2. \A p \in Peer : op[p].step = "idle"
  BY IdleType DEF Init
<1>3. sweep.step = "idle"
  BY NoSweepType DEF Init
<1>4. scopes = {} /\ results = <<>>
  BY DEF Init
<1>5. ProbedBefore
  BY DEF Init, ProbedBefore, Probed
<1> QED
  BY <1>1, <1>2, <1>3, <1>4, <1>5
  DEF Inv, TasksAsked, TakeoversHold, SweepHolds, ScopesAreTurns, FiledAsBegun, FiledOnce

LEMMA InvStep == Inv /\ [Next]_vars => Inv'
<1> SUFFICES ASSUME Inv, [Next]_vars PROVE Inv'
  OBVIOUS
<1>0. TypeOK /\ TasksAsked /\ SweepHolds /\ Counted
  BY DEF Inv, TypeOK, Counted, Drift
<1>1. ASSUME NEW p \in Peer, BoardActs(p) PROVE Inv'
  <2>1. Registered
    BY <1>0, <1>1, BoardFrame, UnchangedRegistered
  <2>2. tasks' \in [Task -> Row \cup {NoRow}]
    BY <1>0, <1>1, BoardStep
  <2>3. Counted'
    BY <1>0, <1>1, <2>2, BoardFrame DEF Counted, ProbedBefore
  <2>4. op' \in [Peer -> Op] /\ \A q \in Peer : Sound(op'[q])
    <3>1. SetOp(p, Idle) /\ op \in [Peer -> Op]
      BY <1>0, <1>1, BoardFrame DEF TypeOK
    <3> QED
      BY <3>1, IdleIsSound, SetOpType, AllSound
  <2> QED
    BY <1>1, <2>1, <2>3, <2>4, BoardFrame, SweepStays, TurnsStay, PartsMakeInv
<1>2. ASSUME NEW p \in Peer, CommandActs(p) PROVE Inv'
  <2>1. Registered
    BY <1>0, <1>2, CommandRegisters
  <2>2. /\ op' \in [Peer -> Op] /\ \A q \in Peer : Sound(op'[q])
        /\ safety' \in Safety /\ begun' \in Nat
    BY <1>2, CommandStep
  <2>3. Counted'
    BY <1>0, <1>2, <2>2, CommandFrame DEF Counted, ProbedBefore
  <2> QED
    BY <1>2, <2>1, <2>2, <2>3, CommandFrame, SweepStays, TurnsStay, PartsMakeInv
<1>3. ASSUME NEW p \in Peer, SweepActs(p) PROVE Inv'
  <2>1. Registered
    BY <1>0, <1>3, SweepRegisters
  <2>2. sweep' \in Sweep /\ Fresh(sweep')
    BY <1>0, <1>3, SweepStep
  <2>3. Counted'
    BY <1>0, <1>3, SweepFrame DEF Counted, ProbedBefore
  <2> QED
    BY <1>3, <2>1, <2>2, <2>3, SweepFrame, CommandsStay, TurnsStay, PartsMakeInv
<1>4. ASSUME NEW p \in Peer, TurnActs(p) PROVE Inv'
  <2>1. Registered
    BY <1>0, <1>4, TurnFrame, UnchangedRegistered
  <2>2. TurnsTyped' /\ ScopesAreTurns' /\ FiledAsBegun' /\ FiledOnce'
    BY <1>4, TurnStep
  <2>3. Counted'
    BY <1>0, <1>4, TurnFrame DEF Counted, ProbedBefore
  <2> QED
    BY <1>4, <2>1, <2>2, <2>3, TurnFrame, CommandsStay, SweepStays, PartsMakeInv
<1>5. ASSUME NEW p \in Peer, WorldActs(p) PROVE Inv'
  <2>1. Registered /\ proc' \in [Peer -> Evidence]
    BY <1>0, <1>5, WorldRegisters
  <2>2. Counted'
    BY <1>0, <1>5, <2>1, WorldFrame DEF Counted, ProbedBefore
  <2> QED
    BY <1>5, <2>1, <2>2, WorldFrame, CommandsStay, SweepStays, TurnsStay, PartsMakeInv
<1>6. CASE RuntimeActs
  <2>1. Registered
    BY <1>0, <1>6, RuntimeFrame, UnchangedRegistered
  <2>2. /\ sweep' \in Sweep /\ Fresh(sweep')
        /\ safety' \in Safety /\ drift' \in Drift /\ swept' \in Nat
        /\ scopes' \subseteq scopes /\ drift' \in {drift, Probed(clock)}
    BY <1>0, <1>6, RuntimeStep DEF Counted
  <2>3. Counted'
    BY <1>0, <1>6, <2>2, RuntimeFrame DEF Counted, ProbedBefore, Probed
  <2> QED
    BY <1>6, <2>1, <2>2, <2>3, RuntimeFrame, CommandsStay, TurnsStay, PartsMakeInv
<1>7. CASE Tick
  <2>1. /\ UNCHANGED << jumps, drift, slept, begun, mix, tasks, results, peers, safety, proc, op,
                        sweep, swept, scopes, turns >>
        /\ clock' \in Nat /\ clock' > clock
    BY <1>0, <1>7 DEF Tick, Board, Runtime, Counted
  <2>2. Registered
    BY <1>0, <2>1, UnchangedRegistered
  <2>3. Counted'
    BY <1>0, <2>1 DEF Counted, ProbedBefore, Drift
  <2> QED
    BY <2>1, <2>2, <2>3, CommandsStay, SweepStays, TurnsStay, PartsMakeInv
<1>8. CASE JumpForward
  <2>1. UNCHANGED << begun, mix, tasks, results, peers, safety, proc, op, sweep, swept, scopes,
                     turns >>
    BY <1>8 DEF JumpForward, Board, Runtime
  <2>2. DriftThreshold \in Nat /\ mix.clock \in Nat /\ clock \in Nat
    BY <1>0, TaskBoardAssumption, MixType DEF Counted
  <2>3. clock' \in Nat /\ clock' > clock
    BY <1>8, <2>2 DEF JumpForward
  <2>4. slept' \subseteq [from : Nat, to : Nat]
    BY <1>0, <1>8, <2>2, <2>3 DEF JumpForward, Counted
  <2>5. jumps' \in Nat /\ drift' \in Drift /\ drift'.since = drift.since
    BY <1>0, <1>8 DEF JumpForward, Counted, Drift
  <2>6. Registered
    BY <1>0, <2>1, UnchangedRegistered
  <2>7. Counted'
    BY <1>0, <2>1, <2>2, <2>3, <2>4, <2>5 DEF Counted, ProbedBefore, Drift
  <2> QED
    BY <2>1, <2>6, <2>7, CommandsStay, SweepStays, TurnsStay, PartsMakeInv
<1>9. CASE UNCHANGED vars
  <2>1. Registered
    BY <1>0, <1>9, UnchangedRegistered DEF vars
  <2>2. Counted'
    BY <1>0, <1>9 DEF Counted, ProbedBefore, vars
  <2> QED
    BY <1>9, <2>1, <2>2, CommandsStay, SweepStays, TurnsStay, PartsMakeInv DEF vars
<1> QED
  BY <1>1, <1>2, <1>3, <1>4, <1>5, <1>6, <1>7, <1>8, <1>9, NextActs

-----------------------------------------------------------------------------
(* Theorems                                                                *)

\* The variables have their types, whatever commands, sweeps and processes do.
THEOREM TypeCorrect == Spec => []TypeOK
<1>1. Inv => TypeOK
  BY DEF Inv
<1> QED
  BY <1>1, InvInit, InvStep, PTL DEF Spec

\* The evidence of a turn is filed once, under the task the turn began with.
THEOREM FiledOnceAsBegun == Spec => []EvidenceIsFiledOnce
<1>1. Inv => EvidenceIsFiledOnce
  BY DEF Inv, FiledAsBegun, FiledOnce, EvidenceIsFiledOnce
<1> QED
  BY <1>1, InvInit, InvStep, PTL DEF Spec

\* A task leaves its owner only by a takeover or by force.
THEOREM TasksAreKept == Spec => OwnersChangeOpenly
<1>1. Inv /\ [Next]_vars => [TasksLeaveOpenly]_vars
  <2> SUFFICES ASSUME Inv, Next PROVE TasksLeaveOpenly
    OBVIOUS
  <2>0. TypeOK /\ TasksAsked
    BY DEF Inv
  <2>1. CASE \E p \in Peer : BoardActs(p)
    BY <2>0, <2>1, BoardStep
  <2>2. CASE UNCHANGED tasks
    BY <2>2 DEF TasksLeaveOpenly
  <2>3. (\E p \in Peer : BoardActs(p)) \/ UNCHANGED tasks
    <3>1. Tick \/ JumpForward => UNCHANGED tasks
      BY DEF Tick, JumpForward, Board
    <3> QED
      BY <3>1, NextActs, CommandFrame, SweepFrame, RuntimeFrame, TurnFrame, WorldFrame
  <2> QED
    BY <2>1, <2>2, <2>3
<1> QED
  BY <1>1, InvInit, InvStep, PTL DEF Spec, OwnersChangeOpenly

\* What a probe of the process of a row showed is what it would still show, or
\* the process has died since.
LEMMA EvidenceLasts ==
    ASSUME TypeOK, NEW o \in Peer, NEW e \in Evidence, Known(o), Holds(o, peers[o], e)
    PROVE  EvidenceOf(o) = "dead" \/ EvidenceOf(o) = e
<1>1. PICK f \in Evidence : e = Settled(f, peers[o].status) /\ proc[o] \in {f, "dead"}
  BY DEF Holds, Known
<1>2. EvidenceOf(o) = Settled(proc[o], peers[o].status)
  BY EvidenceType
<1>3. Settled("dead", peers[o].status) = "dead"
  BY DEF Settled
<1> QED
  BY <1>1, <1>2, <1>3

\* A task is taken for staleness only from an owner that is lost by then.
THEOREM TakenOnlyFromTheLost == Spec => OnlyLostOwnersLoseTasks
<1>1. Inv => TakenFromTheLost
  <2> SUFFICES ASSUME Inv, NEW p \in Peer, TakesForStaleness(p),
                      Known(tasks[op[p].task].owner)
               PROVE  Lost(tasks[op[p].task].owner, Larger(StaleAfter, UnknownGrace))
    BY DEF TakenFromTheLost
  <2> DEFINE c == op[p]
             o == tasks[op[p].task].owner
  <2>1. TypeOK /\ c \in Op /\ c.task \in Task
    BY DEF Inv, TypeOK, TasksAsked, TakesForStaleness, TakeOver
  <2>2. c.step = "judged" /\ c.subject = Capture(c.task) /\ Allowed(p, c)
    BY DEF TakesForStaleness, TakeOver, SameSubject
  <2>3. o \in Peer /\ o # p
    BY <2>1, RowsAreTyped DEF TakesForStaleness, TypeOK, PeerOrNone, NoRow
  <2>4. c.subject.task = tasks[c.task] /\ c.subject.peer = peers[o]
    BY <2>2, <2>3, TaskBoardAssumption DEF Capture
  <2>5. OwnerStale(p, c)
    BY <2>2, <2>3, <2>4 DEF Allowed, TakesForStaleness
  <2>6. AllowsReap(c.evidence, clock, peers[o].seen, Larger(StaleAfter, UnknownGrace), c.subject.grace)
    BY <2>4, <2>5 DEF OwnerStale, Known, Unregistered, NoRowAfter
  <2>7. c.evidence \in Evidence /\ Holds(o, peers[o], c.evidence)
    BY <2>1, <2>2, <2>3, <2>4 DEF Inv, TakeoversHold, Op
  <2>8. EvidenceOf(o) = "dead" \/ EvidenceOf(o) = c.evidence
    BY <2>1, <2>3, <2>7, EvidenceLasts
  <2> QED
    BY <2>6, <2>8 DEF AllowsReap, Lost
<1> QED
  BY <1>1, InvInit, InvStep, PTL DEF Spec, OnlyLostOwnersLoseTasks

\* A sweep marks or removes only peers that are lost by then.
THEOREM ReapedOnlyTheLost == Spec => OnlyLostPeersAreReaped
<1>1. Inv => ReapedWhenLost
  <2> SUFFICES ASSUME Inv, NEW p \in Peer, Reap(p)
               PROVE  Lost(p, UnknownGrace)
    BY DEF ReapedWhenLost
  <2>1. /\ TypeOK /\ sweep.step = "looked" /\ p = sweep.peer
        /\ StillAllowed(p) /\ sweep.rows[p] = peers[p]
    BY DEF Inv, Reap, RowUnchanged
  <2>2. /\ sweep.evidence[p] \in Evidence /\ Holds(p, peers[p], sweep.evidence[p]) /\ Known(p)
    BY <2>1, SweepFields DEF Inv, SweepHolds, Known
  <2>3. EvidenceOf(p) = "dead" \/ EvidenceOf(p) = sweep.evidence[p]
    BY <2>1, <2>2, EvidenceLasts
  <2> QED
    BY <2>1, <2>3 DEF StillAllowed, AllowsReap, Lost
<1> QED
  BY <1>1, InvInit, InvStep, PTL DEF Spec, OnlyLostPeersAreReaped

-----------------------------------------------------------------------------
(* Sleepers.  Whoever observes the clock after a sleep does so with the    *)
(* sleep on record (SleepsCovered), and knows of the grace from then on    *)
(* (TakeoversKnow, SweepsKnow).  A runtime that reports a jump of its own  *)
(* makes the record start at its last probe: with one jump in a behaviour  *)
(* in which it polls, that is no later than the sleep (ProbesReach).       *)

OneJump == \A m \in Mixes : "poll" \in m.sweeps => m.jumps <= 1

\* A reading of the clock that is neither of the future nor of a sleep.
Awake(r) == r <= clock /\ \A s \in slept : r <= s.from \/ r >= s.to

Readings ==
    /\ Awake(safety.seen) /\ Awake(drift.since) /\ Awake(sweep.at)
    /\ \A p \in Peer : Awake(op[p].at)

SleepsAreOver == \A s \in slept : s.from + GapThreshold < s.to /\ s.to <= clock

SleepsCovered ==
    \A s \in slept, b \in Nat :
        Crossed(s.from, s.to, b) => Covers(safety, b, s.to + ClockGrace)

\* What the runtime is about to report, and what a poll under way reports.
ProbesReach ==
    /\ jumps = 0 => slept = {}
    /\ "poll" \in mix.sweeps /\ drift.jumped => \A s \in slept : drift.since <= s.from
    /\ sweep.jump # NoJump =>
         /\ sweep.jump.kind = "forward"
         /\ \A s \in slept : s.to <= sweep.at => sweep.at - sweep.jump.span <= s.from

\* The grace that is owed for s to an owner silent since seen was granted.
Granted(grace, s, seen, limit, at) ==
    seen < at /\ Crossed(s.from, s.to, seen + limit) /\ s.to <= at
        => grace >= s.to + ClockGrace

\* A takeover that decides by the silence of an owner it knows.
Waits(c) == /\ c.step = "judged" /\ c.subject.task.owner # NoPeer
            /\ c.subject.peer # Unregistered /\ c.evidence = "unknown"

TakeoversKnow ==
    \A p \in Peer : Waits(op[p]) =>
        \A s \in slept :
            Granted(safety.grace, s, op[p].subject.peer.seen, StaleAfter, op[p].at)

\* The silence by which a sweep names its candidates.
Named(kind) == IF kind = "collect" THEN Retention ELSE UnknownGrace

SweepsKnow ==
    sweep.step \in {"judged", "looked"} =>
        \A p \in sweep.todo : sweep.evidence[p] = "unknown" =>
            \A s \in slept : Granted(safety.grace, s, sweep.rows[p].seen,
                                     Named(sweep.kind), sweep.at)

\* What a sweep read of a peer that has not shown up since still holds.
ReadHolds ==
    \A p \in sweep.todo :
        /\ sweep.rows[p] # Unregistered
        /\ Known(p) /\ peers[p].seen < sweep.at =>
             /\ sweep.rows[p].seen = peers[p].seen
             /\ EvidenceOf(p) = "unknown" => sweep.evidence[p] = "unknown"

LooksAtOne == sweep.step = "looked" => sweep.peer \in sweep.todo

SleepInv == /\ Inv /\ Readings /\ SleepsAreOver /\ SleepsCovered /\ ProbesReach
            /\ TakeoversKnow /\ SweepsKnow /\ ReadHolds /\ LooksAtOne

-----------------------------------------------------------------------------
(* What the steps do to the clock, its observations and those who read it. *)

\* A second passes, or the machine sleeps from now on.
TimeMoves ==
    /\ clock \in Nat /\ clock' \in Nat /\ clock <= clock'
    /\ \A s \in slept' :
         s \in slept \/ (s.from = clock /\ s.to = clock' /\ s.from + GapThreshold < s.to)
    /\ slept \subseteq [from : Nat, to : Nat] /\ slept' \subseteq [from : Nat, to : Nat]

LEMMA Stretches ==
    ASSUME NEW a \in Int, NEW b \in Int, NEW n \in Int, b - a > n
    PROVE  a + n < b
  OBVIOUS

LEMMA TimeStep ==
    ASSUME Inv, [Next]_vars
    PROVE  TimeMoves
<1>0. clock \in Nat /\ slept \subseteq [from : Nat, to : Nat] /\ slept' \subseteq [from : Nat, to : Nat]
  <2>1. Inv'
    BY InvStep
  <2> QED
    BY <2>1 DEF Inv, TypeOK
<1>1. CASE JumpForward
  <2>1. DriftThreshold \in Nat /\ GapThreshold \in Nat /\ mix.clock \in Nat
    BY TaskBoardAssumption, ClockAssumption, MixType DEF Inv
  <2>2. clock' \in Nat /\ clock < clock'
    BY <1>0, <1>1, <2>1 DEF JumpForward
  <2>3. \A s \in slept' : s \in slept \/ (s = [from |-> clock, to |-> clock'] /\ clock' - clock > GapThreshold)
    BY <1>1 DEF JumpForward
  <2>4. ASSUME NEW s \in slept', s \notin slept
        PROVE  s.from = clock /\ s.to = clock' /\ s.from + GapThreshold < s.to
    <3>1. s = [from |-> clock, to |-> clock'] /\ clock' - clock > GapThreshold
      BY <2>3, <2>4
    <3>2. s.from = clock /\ s.to = clock'
      BY <3>1
    <3>3. clock \in Int /\ clock' \in Int /\ GapThreshold \in Int
      BY <1>0, <2>1, <2>2
    <3>4. clock' - clock > GapThreshold
      BY <3>1
    <3>5. clock + GapThreshold < clock'
      BY <3>3, <3>4, Stretches
    <3> QED
      BY <3>2, <3>5
  <2>5. clock <= clock'
    BY <1>0, <2>2
  <2> QED
    BY <1>0, <2>2, <2>4, <2>5 DEF TimeMoves
<1>2. CASE Tick
  BY <1>0, <1>2 DEF Tick, TimeMoves
<1>3. CASE UNCHANGED <<clock, slept>>
  BY <1>0, <1>3 DEF TimeMoves
<1> QED
  BY <1>1, <1>2, <1>3, NextActs, BoardFrame, CommandFrame, SweepFrame, RuntimeFrame, TurnFrame,
     WorldFrame DEF vars

LEMMA AwakeStays ==
    ASSUME TimeMoves, NEW r \in Int, Awake(r)
    PROVE  Awake(r)'
  BY DEF TimeMoves, Awake

LEMMA NowIsAwake ==
    ASSUME TimeMoves, SleepsAreOver
    PROVE  Awake(clock) /\ Awake(0)
  BY DEF TimeMoves, Awake, SleepsAreOver

\* A reading of the clock from outside a sleep is clear of the sleep.
LEMMA AwakeIsClear ==
    ASSUME Inv, SleepsAreOver, NEW r \in Int, Awake(r), NEW s \in slept, NEW b \in Nat,
           Crossed(s.from, s.to, b)
    PROVE  Clear(r, b, s.to) /\ s.to \in Nat /\ s.from \in Nat /\ b <= s.to
<1>1. s.to \in Nat /\ s.from \in Nat /\ GapThreshold \in Nat
  BY ClockAssumption DEF Inv, TypeOK
<1> QED
  BY <1>1 DEF Awake, SleepsAreOver, Clear, Crossed

\* The clock is observed by a takeover, now, or by a sweep.
LEMMA SafetySteps ==
    ASSUME [Next]_vars
    PROVE  UNCHANGED safety \/ JudgeSweep \/ \E p \in Peer : Observe(p)
<1>1. ASSUME NEW p \in Peer, CommandActs(p), ~Observe(p) PROVE UNCHANGED safety
  BY <1>1 DEF CommandActs, Begin, GiveUp, Look, LookAgain, Aside
<1>2. ASSUME RuntimeActs, ~JudgeSweep PROVE UNCHANGED safety
  BY <1>2 DEF RuntimeActs, StartSweep, EndSweep, RuntimeRestarts
<1> QED
  BY <1>1, <1>2, NextActs, BoardFrame, SweepFrame, TurnFrame, WorldFrame
  DEF vars, Tick, JumpForward

LEMMA SweepSteps ==
    ASSUME [Next]_vars
    PROVE  \/ UNCHANGED sweep \/ sweep' = NoSweep \/ JudgeSweep
           \/ \E kind \in SweepKind : StartSweep(kind)
           \/ \E p \in Peer : SweepActs(p)
<1>1. ASSUME RuntimeActs, ~JudgeSweep, ~\E kind \in SweepKind : StartSweep(kind)
      PROVE sweep' = NoSweep
  BY <1>1 DEF RuntimeActs, EndSweep, RuntimeRestarts
<1> QED
  BY <1>1, NextActs, BoardFrame, CommandFrame, TurnFrame, WorldFrame
  DEF vars, Tick, JumpForward, Runtime

\* A command that has not judged yet, and has read no clock.
Unread(c) == c.step # "judged" /\ c.at = 0

LEMMA OpSteps ==
    ASSUME Inv, [Next]_vars, NEW q \in Peer
    PROVE  op'[q] = op[q] \/ Unread(op'[q]) \/ Observe(q)
<1>0. op \in [Peer -> Op]
  BY DEF Inv, TypeOK
<1>1. ASSUME NEW p \in Peer, NEW c, SetOp(p, c), Unread(c) PROVE op'[q] = op[q] \/ Unread(op'[q])
  BY <1>0, <1>1 DEF SetOp
<1>2. Unread(Idle)
  BY DEF Idle, Further, Begun, Unread
<1>3. \A kind, t, policy, force, tries : Unread(Begun(kind, t, policy, force, tries))
  BY DEF Begun, Unread
<1>4. ASSUME NEW p \in Peer, BoardActs(p) PROVE op'[q] = op[q] \/ Unread(op'[q])
  BY <1>1, <1>2, <1>4, BoardFrame
<1>5. ASSUME NEW p \in Peer, Begin(p) \/ LookAgain(p) PROVE op'[q] = op[q] \/ Unread(op'[q])
  <2>1. \E kind, t, policy, force, tries : SetOp(p, Begun(kind, t, policy, force, tries))
    BY <1>5 DEF Begin, LookAgain
  <2> QED
    BY <1>1, <1>3, <2>1
<1>6. ASSUME NEW p \in Peer, GiveUp(p) PROVE op'[q] = op[q] \/ Unread(op'[q])
  BY <1>1, <1>2, <1>6 DEF GiveUp
<1>7. ASSUME NEW p \in Peer, Look(p) PROVE op'[q] = op[q] \/ Unread(op'[q])
  <2> DEFINE n == Further(op[p], "looked", Capture(op[p].task),
                    IF tasks[op[p].task].owner = NoPeer THEN "unknown"
                    ELSE EvidenceOf(tasks[op[p].task].owner), 0)
  <2>1. SetOp(p, n)
    BY <1>7 DEF Look
  <2>2. Unread(n)
    BY DEF Further, Unread
  <2> HIDE DEF n
  <2> QED
    BY <1>1, <2>1, <2>2
<1>8. ASSUME NEW p \in Peer, Observe(p) PROVE op'[q] = op[q] \/ Observe(q)
  BY <1>0, <1>8 DEF Observe, SetOp
<1> QED
  BY <1>4, <1>5, <1>6, <1>7, <1>8, NextActs, SweepFrame, RuntimeFrame, TurnFrame, WorldFrame
  DEF CommandActs, vars, Tick, JumpForward

LEMMA DriftSteps ==
    ASSUME [Next]_vars
    PROVE  UNCHANGED <<drift, jumps>> \/ (drift' = Probed(clock) /\ UNCHANGED jumps) \/ JumpForward
<1>1. ASSUME RuntimeActs PROVE drift' \in {drift, Probed(clock)}
  BY <1>1 DEF RuntimeActs, StartSweep, JudgeSweep, EndSweep, RuntimeRestarts, Time
<1> QED
  BY <1>1, NextActs, BoardFrame, CommandFrame, SweepFrame, RuntimeFrame, TurnFrame, WorldFrame
  DEF vars, Tick

\* Of a peer nobody marks, what is seen of it stays, or it has died, or it
\* has shown up this second.
LEMMA PeerSteps ==
    ASSUME Inv, [Next]_vars, NEW q \in Peer
    PROVE  \/ peers'[q] = peers[q] /\ proc'[q] \in {proc[q], "dead"}
           \/ peers'[q].seen = clock
           \/ Reap(q)
<1>0. peers \in [Peer -> RowOrNone] /\ proc \in [Peer -> Evidence]
  BY DEF Inv, TypeOK
<1>1. ASSUME NEW p \in Peer, Begin(p)
      PROVE  UNCHANGED proc /\ (peers'[q] = peers[q] \/ peers'[q].seen = clock)
  BY <1>0, <1>1 DEF Begin, Touched
<1>2. ASSUME NEW p \in Peer, CommandActs(p), ~Begin(p) PROVE UNCHANGED <<peers, proc>>
  BY <1>2 DEF CommandActs, GiveUp, Look, Observe, LookAgain, Aside
<1>3. ASSUME NEW p \in Peer, SweepActs(p)
      PROVE  UNCHANGED proc /\ (peers'[q] = peers[q] \/ Reap(q))
  BY <1>0, <1>3 DEF SweepActs, SweepLooks, Reap, Spare
<1>4. ASSUME NEW p \in Peer, ProcessDies(p)
      PROVE  UNCHANGED peers /\ proc'[q] \in {proc[q], "dead"}
  BY <1>0, <1>4 DEF ProcessDies
<1>5. ASSUME NEW p \in Peer, NEW status, Register(p, status)
      PROVE  (peers'[q] = peers[q] /\ proc'[q] = proc[q]) \/ peers'[q].seen = clock
  <2>1. PICK e : proc' = [proc EXCEPT ![p] = e]
    BY <1>5 DEF Register
  <2> DEFINE x == [ identity |-> peers[p].identity + 1, seen |-> clock,
                    status |-> IF status = "idle" /\ peers[p].status = "exited" THEN "exited"
                               ELSE status ]
  <2>2. peers' = [peers EXCEPT ![p] = x] /\ x.seen = clock
    BY <1>5 DEF Register
  <2> HIDE DEF x
  <2> QED
    BY <1>0, <2>1, <2>2
<1>6. CASE UNCHANGED <<peers, proc>>
  BY <1>6
<1>7. (Tick \/ JumpForward \/ UNCHANGED vars) => UNCHANGED <<peers, proc>>
  BY DEF Tick, JumpForward, vars
<1> QED
  BY <1>1, <1>2, <1>3, <1>4, <1>5, <1>6, <1>7, NextActs, BoardFrame, RuntimeFrame, TurnFrame
  DEF WorldActs

-----------------------------------------------------------------------------
(* The steps keep what is known of the sleeps.                             *)

LEMMA GraceStays ==
    ASSUME Inv, [Next]_vars
    PROVE  safety.grace \in Nat /\ safety'.grace \in Nat /\ safety'.grace >= safety.grace
<1>0. safety \in Safety /\ safety.grace \in Nat /\ clock \in Nat /\ NoJump \in Jump
  BY DEF Inv, TypeOK, Safety, Jump
<1>1. CASE UNCHANGED safety
  BY <1>0, <1>1
<1>2. ASSUME NEW p \in Peer, Observe(p)
      PROVE  safety'.grace \in Nat /\ safety'.grace >= safety.grace
  <2> DEFINE after == Observed(safety, "ownership", TakeoverCandidates(op[p]), {}, clock, NoJump)
  <2>1. safety' = after
    BY <1>2 DEF Observe
  <2>2. after \in Safety /\ after.grace >= safety.grace
    BY <1>0, ObservedType, GraceNeverShortens
  <2> HIDE DEF after
  <2> QED
    BY <2>1, <2>2 DEF Safety
<1>3. ASSUME JudgeSweep
      PROVE  safety'.grace \in Nat /\ safety'.grace >= safety.grace
  <2> DEFINE asked == IF sweep.kind = "collect" THEN "gc" ELSE "ownership"
             after == Observed(safety, asked, SweepCandidates, {}, sweep.at, sweep.jump)
  <2>1. safety' = after
    BY <1>3 DEF JudgeSweep
  <2>2. sweep.at \in Nat /\ sweep.jump \in Jump
    BY SweepFields DEF Inv
  <2>3. after \in Safety /\ after.grace >= safety.grace
    BY <1>0, <2>2, ObservedType, GraceNeverShortens
  <2> HIDE DEF after
  <2> QED
    BY <2>1, <2>3 DEF Safety
<1> QED
  BY <1>0, <1>1, <1>2, <1>3, SafetySteps

\* Where an observation leaves the last observed second.
LEMMA SeenStep ==
    ASSUME Inv, [Next]_vars
    PROVE  /\ safety.seen \in Int /\ safety'.seen \in Int
           /\ safety'.seen \in {safety.seen, clock, sweep.at}
<1>0. safety.seen \in Int /\ clock \in Int /\ sweep.at \in Int
  BY SweepFields DEF Inv, TypeOK, Safety, Never
<1>1. \A c, asked, cands, cuts, t, jump : Observed(c, asked, cands, cuts, t, jump).seen = t
  BY DEF Observed
<1>2. safety'.seen \in {safety.seen, clock, sweep.at}
  BY <1>1, SafetySteps DEF JudgeSweep, Observe
<1> QED
  BY <1>0, <1>2

LEMMA SweepReads ==
    ASSUME Inv, [Next]_vars
    PROVE  /\ sweep'.at \in {sweep.at, clock, 0}
           /\ sweep'.at # sweep.at => sweep'.at = 0 \/ \E kind \in SweepKind : StartSweep(kind)
<1>1. \A todo, tries : Goes(todo, tries) => sweep'.at = sweep.at
  BY DEF Goes, Swept
<1>2. NoSweep.at = 0
  BY DEF NoSweep
<1>3. JudgeSweep => sweep'.at \in {sweep.at, 0}
  BY <1>1, <1>2 DEF JudgeSweep
<1>4. \A p \in Peer : SweepActs(p) => sweep'.at = sweep.at
  BY <1>1 DEF SweepActs, SweepLooks, Reap, Spare, Swept
<1>5. \A kind \in SweepKind : StartSweep(kind) => sweep'.at = clock
  BY DEF StartSweep
<1> QED
  BY <1>2, <1>3, <1>4, <1>5, SweepSteps

LEMMA ReadingsStep ==
    ASSUME Inv, Readings, SleepsAreOver, [Next]_vars
    PROVE  Readings' /\ SleepsAreOver'
<1>0. TimeMoves /\ clock \in Int /\ 0 \in Int
  BY TimeStep DEF TimeMoves
<1>1. Awake(clock) /\ Awake(0)
  BY <1>0, NowIsAwake
<1>2. \A r \in Int : Awake(r) => Awake(r)'
  BY <1>0, AwakeStays
<1>3. Awake(safety.seen)'
  <2>1. Awake(safety'.seen)
    BY <1>1, SeenStep DEF Readings
  <2>2. PICK r \in Int : r = safety'.seen
    BY SeenStep
  <2>3. Awake(r)'
    BY <1>2, <2>1, <2>2
  <2> QED
    BY <2>2, <2>3 DEF Awake
<1>4. Awake(sweep.at)'
  <2>1. Awake(sweep'.at)
    BY <1>1, SweepReads DEF Readings
  <2>2. PICK r \in Int : r = sweep'.at
    BY <1>0, SweepReads, SweepFields DEF Inv
  <2>3. Awake(r)'
    BY <1>2, <2>1, <2>2
  <2> QED
    BY <2>2, <2>3 DEF Awake
<1>5. Awake(drift.since)'
  <2>1. drift'.since \in {drift.since, clock}
    BY DriftSteps DEF JumpForward, Probed
  <2>2. Awake(drift'.since)
    BY <1>1, <2>1 DEF Readings
  <2>3. PICK r \in Int : r = drift'.since
    BY <1>0, <2>1 DEF Inv, TypeOK
  <2>4. Awake(r)'
    BY <1>2, <2>2, <2>3
  <2> QED
    BY <2>3, <2>4 DEF Awake
<1>6. ASSUME NEW q \in Peer PROVE Awake(op[q].at)'
  <2>1. op'[q].at \in {op[q].at, clock, 0}
    <3>1. Observe(q) => op'[q].at = clock
      BY DEF Observe, SetOp, Further, Inv, TypeOK
    <3> QED
      BY <3>1, OpSteps DEF Unread
  <2>2. Awake(op'[q].at)
    BY <1>1, <2>1 DEF Readings
  <2>3. PICK r \in Int : r = op'[q].at
    BY <1>0, <2>1 DEF Inv, TypeOK, Op
  <2>4. Awake(r)'
    BY <1>2, <2>2, <2>3
  <2> QED
    BY <2>3, <2>4 DEF Awake
<1>7. SleepsAreOver'
  <2>1. GapThreshold \in Nat
    BY ClockAssumption
  <2> QED
    BY <1>0, <2>1 DEF SleepsAreOver, TimeMoves
<1> QED
  BY <1>3, <1>4, <1>5, <1>6, <1>7 DEF Readings

\* What the runtime reports with the observation of a sweep.
LEMMA SweepReaches ==
    ASSUME Inv, ProbesReach, NEW s \in slept, s.to <= sweep.at, NEW b \in Nat,
           Crossed(s.from, s.to, b)
    PROVE  Reaches(sweep.jump, sweep.at, b)
<1>0. /\ s.from \in Nat /\ s.to \in Nat /\ sweep.at \in Nat /\ sweep.jump \in Jump
  BY SweepFields DEF Inv, TypeOK
<1>1. CASE sweep.jump = NoJump
  BY <1>1 DEF Reaches
<1>2. CASE sweep.jump # NoJump
  <2>1. sweep.jump.kind = "forward" /\ sweep.at - sweep.jump.span <= s.from
    BY <1>2 DEF ProbesReach
  <2>2. sweep.jump.span \in Nat
    BY <1>0, <1>2, <2>1 DEF Jump
  <2> QED
    BY <1>0, <2>1, <2>2 DEF Reaches, Crossed
<1> QED
  BY <1>1, <1>2

LEMMA SleepsCoveredStep ==
    ASSUME Inv, Readings, SleepsAreOver, SleepsCovered, ProbesReach, [Next]_vars
    PROVE  SleepsCovered'
<1>0. /\ TimeMoves /\ safety \in Safety /\ safety.seen \in Int /\ clock \in Nat
      /\ slept \subseteq [from : Nat, to : Nat] /\ NoJump \in Jump
  BY TimeStep, SeenStep DEF Inv, TypeOK, Jump
<1> SUFFICES ASSUME NEW s \in slept', NEW b \in Nat, Crossed(s.from, s.to, b)
             PROVE  Covers(safety', b, s.to + ClockGrace)
  BY DEF SleepsCovered, Covers, GapCovers
<1>1. CASE s \notin slept
  <2>1. s.from = clock
    BY <1>0, <1>1 DEF TimeMoves
  <2>2. safety'.seen <= clock
    <3>1. safety.seen <= clock /\ sweep.at <= clock
      BY DEF Readings, Awake
    <3> QED
      BY <1>0, <3>1, SeenStep
  <2> QED
    BY <1>0, <2>1, <2>2, SeenStep DEF Covers, Crossed
<1>2. CASE s \in slept
  <2>0. Covers(safety, b, s.to + ClockGrace)
    BY <1>2 DEF SleepsCovered
  <2>1. Clear(safety.seen, b, s.to) /\ s.to \in Nat /\ s.from \in Nat /\ b <= s.to
    BY <1>0, <1>2, AwakeIsClear DEF Readings
  <2>2. CASE UNCHANGED safety
    BY <2>0, <2>2
  <2>3. ASSUME NEW p \in Peer, Observe(p)
        PROVE  Covers(safety', b, s.to + ClockGrace)
    <3>1. Clear(clock, b, s.to)
      BY <1>0, <1>2, AwakeIsClear, NowIsAwake
    <3>2. Reaches(NoJump, clock, b)
      BY DEF Reaches
    <3>3. safety' = Observed(safety, "ownership", TakeoverCandidates(op[p]), {}, clock, NoJump)
      BY <2>3 DEF Observe
    <3> QED
      BY <1>0, <2>0, <2>1, <3>1, <3>2, <3>3, ObservedCovers
  <2>4. CASE JudgeSweep
    <3> DEFINE asked == IF sweep.kind = "collect" THEN "gc" ELSE "ownership"
    <3>1. sweep.at \in Nat /\ sweep.jump \in Jump
      BY SweepFields DEF Inv
    <3>2. Clear(sweep.at, b, s.to)
      BY <1>0, <1>2, <3>1, AwakeIsClear DEF Readings
    <3>3. sweep.at >= s.to => Reaches(sweep.jump, sweep.at, b)
      BY <1>2, <2>1, <3>1, SweepReaches
    <3>4. safety' = Observed(safety, asked, SweepCandidates, {}, sweep.at, sweep.jump)
      BY <2>4 DEF JudgeSweep
    <3> HIDE DEF asked
    <3> QED
      BY <1>0, <2>0, <2>1, <3>1, <3>2, <3>3, <3>4, ObservedCovers
  <2> QED
    BY <2>2, <2>3, <2>4, SafetySteps
<1> QED
  BY <1>1, <1>2

LEMMA ProbesReachStep ==
    ASSUME OneJump, Inv, Readings, SleepsAreOver, ProbesReach, [Next]_vars
    PROVE  ProbesReach'
<1>0. /\ TimeMoves /\ jumps \in Nat /\ mix \in Mixes /\ mix.jumps \in Nat
      /\ sweep.at \in Nat /\ sweep.at <= clock /\ drift.since \in Nat /\ drift.since <= clock
  BY TimeStep, SweepFields, TaskBoardAssumption DEF Inv, TypeOK, Mix, Readings, Awake
<1>1. UNCHANGED mix
  BY NextActs, BoardFrame, CommandFrame, SweepFrame, RuntimeFrame, TurnFrame, WorldFrame
  DEF vars, Tick, JumpForward
<1>2. JumpForward \/ UNCHANGED slept
  BY NextActs, BoardFrame, CommandFrame, SweepFrame, RuntimeFrame, TurnFrame, WorldFrame
  DEF vars, Tick
<1>3. (jumps = 0 => slept = {})'
  BY <1>0, <1>2, DriftSteps DEF ProbesReach, JumpForward
<1>4. ("poll" \in mix.sweeps /\ drift.jumped => \A s \in slept : drift.since <= s.from)'
  <2>1. CASE JumpForward
    <3> SUFFICES ASSUME "poll" \in mix.sweeps, NEW s \in slept'
                 PROVE  drift'.since <= s.from
      BY <1>1
    <3>1. jumps = 0
      BY <1>0, <2>1 DEF OneJump, JumpForward
    <3>2. s \notin slept
      BY <3>1 DEF ProbesReach
    <3>3. s.from = clock /\ drift'.since = drift.since
      BY <1>0, <2>1, <3>2 DEF TimeMoves, JumpForward
    <3> QED
      BY <1>0, <3>3
  <2>2. CASE drift' = Probed(clock)
    BY <2>2 DEF Probed
  <2>3. CASE UNCHANGED <<drift, slept>>
    BY <1>1, <2>3 DEF ProbesReach
  <2> QED
    BY <1>2, <2>1, <2>2, <2>3, DriftSteps
<1>5. (sweep.jump # NoJump =>
         /\ sweep.jump.kind = "forward"
         /\ \A s \in slept : s.to <= sweep.at => sweep.at - sweep.jump.span <= s.from)'
  <2>1. CASE UNCHANGED <<sweep.jump, sweep.at>>
    <3>1. \A s \in slept' : s.to <= sweep.at => s \in slept
      BY <1>0, ClockAssumption DEF TimeMoves
    <3> QED
      BY <2>1, <3>1 DEF ProbesReach
  <2>2. CASE sweep' = NoSweep
    BY <2>2 DEF NoSweep
  <2>3. ASSUME NEW kind \in SweepKind, StartSweep(kind), sweep'.jump # NoJump
        PROVE  /\ sweep'.jump.kind = "forward"
               /\ \A s \in slept' : s.to <= sweep'.at => sweep'.at - sweep'.jump.span <= s.from
    <3>1. kind = "poll" /\ sweep'.jump = Detected /\ sweep'.at = clock /\ UNCHANGED slept
      BY <2>3 DEF StartSweep
    <3>2. drift.jumped /\ sweep'.jump = [kind |-> "forward", span |-> clock - drift.since]
      BY <2>3, <3>1 DEF Detected
    <3>3. "poll" \in mix.sweeps
      BY <2>3, <3>1 DEF StartSweep
    <3>4. \A s \in slept : drift.since <= s.from
      BY <3>2, <3>3 DEF ProbesReach
    <3>5. clock - (clock - drift.since) = drift.since
      BY <1>0 DEF TimeMoves
    <3> QED
      BY <3>1, <3>2, <3>4, <3>5
  <2>4. \A todo, tries : Goes(todo, tries) => UNCHANGED <<sweep.jump, sweep.at>>
    BY DEF Goes, Swept
  <2>5. JudgeSweep => sweep' = NoSweep \/ UNCHANGED <<sweep.jump, sweep.at>>
    BY <2>4 DEF JudgeSweep
  <2>6. \A p \in Peer : SweepActs(p) => UNCHANGED <<sweep.jump, sweep.at>>
    BY <2>4 DEF SweepActs, SweepLooks, Reap, Spare, Swept
  <2> QED
    BY <2>1, <2>2, <2>3, <2>5, <2>6, SweepSteps
<1> QED
  BY <1>3, <1>4, <1>5 DEF ProbesReach

\* What was granted stays granted, and a sleep from now on is owed nothing.
LEMMA GrantedStays ==
    ASSUME Inv, [Next]_vars, NEW seen \in Nat, NEW limit \in Nat, NEW at \in Nat, at <= clock,
           \A s \in slept : Granted(safety.grace, s, seen, limit, at)
    PROVE  \A s \in slept' : Granted(safety'.grace, s, seen, limit, at)
<1> SUFFICES ASSUME NEW s \in slept', seen < at, Crossed(s.from, s.to, seen + limit), s.to <= at
             PROVE  safety'.grace >= s.to + ClockGrace
  BY DEF Granted
<1>0. TimeMoves /\ GapThreshold \in Nat /\ ClockGrace \in Nat
  BY TimeStep, ClockAssumption
<1>1. s.from \in Nat /\ s.to \in Nat
  BY <1>0 DEF TimeMoves
<1>2. s \in slept
  BY <1>0, <1>1 DEF TimeMoves
<1>3. safety.grace >= s.to + ClockGrace
  BY <1>2 DEF Granted
<1> QED
  BY <1>0, <1>1, <1>3, GraceStays

LEMMA TakeoversKnowStep ==
    ASSUME Inv, Readings, SleepsAreOver, SleepsCovered, TakeoversKnow, [Next]_vars
    PROVE  TakeoversKnow'
<1> SUFFICES ASSUME NEW q \in Peer, Waits(op'[q])
             PROVE  \A s \in slept' : Granted(safety'.grace, s, op'[q].subject.peer.seen,
                                              StaleAfter, op'[q].at)
  BY DEF TakeoversKnow, Waits, Granted
<1>0. /\ TimeMoves /\ safety \in Safety /\ safety.seen \in Int /\ clock \in Nat
      /\ slept \subseteq [from : Nat, to : Nat] /\ NoJump \in Jump
      /\ op[q] \in Op /\ StaleAfter \in Nat
  BY TimeStep, SeenStep, TaskBoardAssumption DEF Inv, TypeOK, Jump
<1>a. op[q].at \in Nat /\ op[q].subject.peer.seen \in Nat /\ op[q].evidence \in Evidence
  BY <1>0, PeerRowsAreTyped DEF Op
<1>1. CASE op'[q] = op[q]
  <2>1. op[q].at <= clock
    BY DEF Readings, Awake
  <2>2. \A s \in slept : Granted(safety.grace, s, op[q].subject.peer.seen, StaleAfter, op[q].at)
    BY <1>1 DEF TakeoversKnow
  <2> QED
    BY <1>0, <1>a, <1>1, <2>1, <2>2, GrantedStays
<1>2. CASE Unread(op'[q])
  BY <1>2 DEF Unread, Waits
<1>3. CASE Observe(q)
  <2> DEFINE c == op[q]
             after == Observed(safety, "ownership", TakeoverCandidates(c), {}, clock, NoJump)
             seen == c.subject.peer.seen
  <2>1. safety' = after /\ UNCHANGED slept
    BY <1>3 DEF Observe, Time
  <2>2. op'[q] = Further(c, "judged", c.subject, c.evidence, clock)
    BY <1>3 DEF Observe, SetOp, Inv, TypeOK
  <2>3. /\ op'[q].subject = c.subject /\ op'[q].evidence = c.evidence /\ op'[q].at = clock
    BY <2>2 DEF Further
  <2>4. /\ c.subject.task.owner # NoPeer /\ c.subject.peer # Unregistered /\ c.evidence = "unknown"
    BY <2>3 DEF Waits
  <2> DEFINE x == [owner |-> c.subject.task.owner, evidence |-> c.evidence, boundary |-> seen + StaleAfter]
  <2>5. x \in TakeoverCandidates(c) /\ Unknown(x) /\ x.boundary = seen + StaleAfter
    BY <2>4 DEF TakeoverCandidates, Unknown
  <2>6. seen + StaleAfter \in Nat
    BY <1>0, <1>a
  <2> HIDE DEF x
  <2>7. ASSUME NEW s \in slept, Crossed(s.from, s.to, seen + StaleAfter)
        PROVE  after.grace >= s.to + ClockGrace
    <3>1. PICK b \in Nat : b = seen + StaleAfter
      BY <2>6
    <3>2. Clear(safety.seen, b, s.to) /\ s.to \in Nat /\ s.from \in Nat /\ b <= s.to
      BY <1>0, <2>7, <3>1, AwakeIsClear DEF Readings
    <3>3. Covers(safety, b, s.to + ClockGrace)
      BY <2>7, <3>1 DEF SleepsCovered
    <3>4. Reaches(NoJump, clock, b) /\ s.to <= clock
      BY DEF Reaches, SleepsAreOver
    <3>5. x.boundary = b
      BY <2>5, <3>1
    <3> QED
      BY <1>0, <2>5, <3>2, <3>3, <3>4, <3>5, UnknownIsGivenGrace
  <2> HIDE DEF after
  <2> QED
    BY <2>1, <2>3, <2>7 DEF Granted
<1> QED
  BY <1>1, <1>2, <1>3, OpSteps

\* The candidates a sweep names are the peers it read.
LEMMA SweepNames ==
    ASSUME NEW p \in Peer, sweep.rows[p] # Unregistered, sweep.evidence[p] = "unknown"
    PROVE  \E x \in SweepCandidates :
             Unknown(x) /\ x.boundary = sweep.rows[p].seen + Named(sweep.kind)
<1> DEFINE x == [ owner |-> p, evidence |-> sweep.evidence[p],
                  boundary |-> sweep.rows[p].seen +
                               (IF sweep.kind = "collect" THEN Retention ELSE UnknownGrace) ]
<1>1. x \in SweepCandidates
  BY DEF SweepCandidates
<1>2. Unknown(x) /\ x.boundary = sweep.rows[p].seen + Named(sweep.kind)
  BY DEF Unknown, Named
<1> QED
  BY <1>1, <1>2

LEMMA ReadHoldsStep ==
    ASSUME Inv, Readings, ReadHolds, [Next]_vars
    PROVE  ReadHolds'
<1> DEFINE Holds1(p) ==
             /\ sweep.rows[p] # Unregistered
             /\ Known(p) /\ peers[p].seen < sweep.at =>
                  /\ sweep.rows[p].seen = peers[p].seen
                  /\ EvidenceOf(p) = "unknown" => sweep.evidence[p] = "unknown"
<1>0. /\ clock \in Nat /\ sweep.at \in Nat /\ sweep.at <= clock
      /\ peers \in [Peer -> RowOrNone] /\ sweep.rows \in [Peer -> RowOrNone]
      /\ sweep.evidence \in [Peer -> Evidence] /\ sweep.todo \subseteq Peer
  BY SweepFields DEF Inv, TypeOK, Readings, Awake
<1> SUFFICES ASSUME NEW p \in Peer, p \in sweep'.todo
             PROVE  Holds1(p)'
  <2>1. sweep'.todo \subseteq Peer
    BY InvStep DEF Inv, TypeOK, Sweep
  <2> QED
    BY <2>1 DEF ReadHolds
<1>1. ASSUME NEW kind \in SweepKind, StartSweep(kind) PROVE Holds1(p)'
  <2> DEFINE read == {q \in Peer : InSweep(kind, q)}
  <2>1. /\ UNCHANGED <<peers, proc>>
        /\ sweep'.todo \subseteq read
        /\ sweep'.rows = [q \in Peer |-> IF q \in read THEN peers[q] ELSE Unregistered]
        /\ sweep'.evidence = [q \in Peer |-> IF q \in read THEN EvidenceOf(q) ELSE "unknown"]
    BY <1>1 DEF StartSweep
  <2>2. p \in read /\ Known(p)
    BY <2>1 DEF InSweep
  <2>3. sweep'.rows[p] = peers[p] /\ sweep'.evidence[p] = EvidenceOf(p)
    BY <2>1, <2>2
  <2>4. peers[p] # Unregistered
    BY <2>2 DEF Known, Unregistered, NoRowAfter
  <2> QED
    BY <2>1, <2>3, <2>4 DEF Known, EvidenceOf
<1>2. ASSUME p \in sweep.todo, sweep'.rows[p] = sweep.rows[p],
             sweep'.evidence[p] = sweep.evidence[p], sweep'.at = sweep.at, ~Reap(p)
      PROVE  Holds1(p)'
  <2>1. Holds1(p)
    BY <1>2 DEF ReadHolds
  <2>2. CASE peers'[p] = peers[p] /\ proc'[p] \in {proc[p], "dead"}
    <3>1. EvidenceOf(p)' = "unknown" => EvidenceOf(p) = "unknown" \/ ~Known(p)
      BY <2>2 DEF EvidenceOf, Known
    <3>2. Known(p)' <=> Known(p)
      BY <2>2 DEF Known
    <3> QED
      BY <1>2, <2>1, <2>2, <3>1, <3>2
  <2>3. CASE peers'[p].seen = clock
    BY <1>0, <1>2, <2>1, <2>3
  <2> QED
    BY <1>2, <2>2, <2>3, PeerSteps
<1>3. ASSUME NEW todo, NEW tries, Goes(todo, tries), todo \subseteq sweep.todo, ~Reap(p)
      PROVE  Holds1(p)'
  BY <1>2, <1>3 DEF Goes, Swept
<1>4. CASE JudgeSweep
  <2>1. sweep' = NoSweep \/ \E todo, tries : Goes(todo, tries) /\ todo \subseteq sweep.todo
    BY <1>4 DEF JudgeSweep
  <2>2. ~Reap(p)
    BY <1>4 DEF JudgeSweep, Reap
  <2> QED
    BY <1>3, <2>1, <2>2 DEF NoSweep
<1>5. ASSUME NEW q \in Peer, SweepActs(q)
      PROVE  Holds1(p)'
  <2>1. CASE Reap(q)
    <3>1. Goes(sweep.todo \ {q}, 0)
      BY <2>1 DEF Reap
    <3>2. p # q
      BY <3>1 DEF Goes, Swept
    <3>3. ~Reap(p)
      BY <2>1, <3>2 DEF Reap
    <3> QED
      BY <1>3, <3>1, <3>3
  <2>2. CASE Spare(q)
    <3>1. \E todo, tries : Goes(todo, tries) /\ todo \subseteq sweep.todo
      BY <2>2 DEF Spare
    <3>2. Reap(p) => p = q /\ FALSE
      BY <2>2 DEF Spare, Reap
    <3> QED
      BY <1>3, <3>1, <3>2
  <2>3. CASE SweepLooks(q)
    <3>1. UNCHANGED <<peers, proc>> /\ ~Reap(p)
      BY <2>3 DEF SweepLooks, Reap
    <3>2. CASE Goes(sweep.todo \ {q}, 0)
      BY <1>3, <3>1, <3>2
    <3>3. CASE /\ Known(q)
               /\ sweep' = Swept(sweep, "looked", [sweep.rows EXCEPT ![q] = peers[q]],
                                 [sweep.evidence EXCEPT ![q] = EvidenceOf(q)],
                                 sweep.todo, q, sweep.tries)
      <4>1. /\ sweep'.rows = [sweep.rows EXCEPT ![q] = peers[q]]
            /\ sweep'.evidence = [sweep.evidence EXCEPT ![q] = EvidenceOf(q)]
            /\ sweep'.todo = sweep.todo /\ sweep'.at = sweep.at
        BY <3>3 DEF Swept
      <4>2. CASE p = q
        <5>1. sweep'.rows[p] = peers[p] /\ sweep'.evidence[p] = EvidenceOf(p)
          BY <1>0, <4>1, <4>2
        <5>2. peers[p] # Unregistered
          BY <3>3, <4>2 DEF Known, Unregistered, NoRowAfter
        <5> QED
          BY <3>1, <5>1, <5>2 DEF Known, EvidenceOf
      <4>3. CASE p # q
        <5>1. sweep'.rows[p] = sweep.rows[p] /\ sweep'.evidence[p] = sweep.evidence[p]
          BY <1>0, <4>1, <4>3
        <5> QED
          BY <1>2, <3>1, <4>1, <5>1
      <4> QED
        BY <4>2, <4>3
    <3> QED
      BY <2>3, <3>2, <3>3 DEF SweepLooks
  <2> QED
    BY <1>5, <2>1, <2>2, <2>3 DEF SweepActs
<1>6. CASE sweep' = NoSweep
  BY <1>6 DEF NoSweep
<1>7. ASSUME UNCHANGED sweep PROVE Holds1(p)'
  <2>1. ~Reap(p)
    <3>1. Reap(p) => sweep'.todo = sweep.todo \ {p}
      BY DEF Reap, Goes, Swept
    <3> QED
      BY <1>7, <3>1
  <2> QED
    BY <1>2, <1>7, <2>1
<1> QED
  BY <1>1, <1>4, <1>5, <1>6, <1>7, SweepSteps

LEMMA SweepsKnowStep ==
    ASSUME Inv, Readings, SleepsAreOver, SleepsCovered, ProbesReach, ReadHolds, SweepsKnow,
           [Next]_vars
    PROVE  SweepsKnow'
<1>0. /\ TimeMoves /\ safety \in Safety /\ safety.seen \in Int /\ clock \in Nat
      /\ slept \subseteq [from : Nat, to : Nat]
      /\ sweep.at \in Nat /\ sweep.at <= clock /\ sweep.jump \in Jump
      /\ sweep.rows \in [Peer -> RowOrNone] /\ sweep.evidence \in [Peer -> Evidence]
      /\ sweep.todo \subseteq Peer /\ peers \in [Peer -> RowOrNone]
  BY TimeStep, SeenStep, SweepFields DEF Inv, TypeOK, Readings, Awake
<1>a. Named(sweep.kind) \in Nat
  BY TaskBoardAssumption DEF Named
<1> DEFINE Knows(p) == \A s \in slept' : Granted(safety'.grace, s, sweep'.rows[p].seen,
                                                 Named(sweep'.kind), sweep'.at)
<1> SUFFICES ASSUME sweep'.step \in {"judged", "looked"}, NEW p \in Peer, p \in sweep'.todo,
                    sweep'.evidence[p] = "unknown"
             PROVE  Knows(p)
  <2>1. sweep'.todo \subseteq Peer
    BY InvStep DEF Inv, TypeOK, Sweep
  <2> QED
    BY <2>1 DEF SweepsKnow
<1>b. sweep.rows[p] \in RowOrNone /\ sweep.rows[p].seen \in Nat /\ peers[p].seen \in Nat
  BY <1>0, PeerRowsAreTyped
<1>1. ASSUME sweep.step \in {"judged", "looked"}, p \in sweep.todo,
             sweep'.rows[p] = sweep.rows[p], sweep'.evidence[p] = sweep.evidence[p],
             sweep'.kind = sweep.kind, sweep'.at = sweep.at
      PROVE  Knows(p)
  <2>1. \A s \in slept : Granted(safety.grace, s, sweep.rows[p].seen, Named(sweep.kind), sweep.at)
    BY <1>1 DEF SweepsKnow
  <2> QED
    BY <1>0, <1>a, <1>b, <1>1, <2>1, GrantedStays
<1>2. ASSUME NEW todo, NEW tries, Goes(todo, tries), todo \subseteq sweep.todo
      PROVE  /\ p \in sweep.todo /\ sweep'.rows[p] = sweep.rows[p]
             /\ sweep'.evidence[p] = sweep.evidence[p]
             /\ sweep'.kind = sweep.kind /\ sweep'.at = sweep.at
  BY <1>2 DEF Goes, Swept
<1>3. CASE JudgeSweep
  <2> DEFINE asked == IF sweep.kind = "collect" THEN "gc" ELSE "ownership"
             after == Observed(safety, asked, SweepCandidates, {}, sweep.at, sweep.jump)
             seen == sweep.rows[p].seen
             named == Named(sweep.kind)
  <2>1. safety' = after /\ UNCHANGED slept
    BY <1>3 DEF JudgeSweep, Time
  <2>2. sweep' = NoSweep \/ \E todo, tries : Goes(todo, tries) /\ todo \subseteq sweep.todo
    BY <1>3 DEF JudgeSweep
  <2>3. /\ p \in sweep.todo /\ sweep'.rows[p] = sweep.rows[p]
        /\ sweep'.evidence[p] = sweep.evidence[p]
        /\ sweep'.kind = sweep.kind /\ sweep'.at = sweep.at
    BY <1>2, <2>2 DEF NoSweep
  <2>4. PICK x \in SweepCandidates : Unknown(x) /\ x.boundary = seen + named
    BY <2>3, SweepNames DEF ReadHolds
  <2>5. ASSUME NEW s \in slept, Crossed(s.from, s.to, seen + named), s.to <= sweep.at
        PROVE  after.grace >= s.to + ClockGrace
    <3>1. PICK b \in Nat : b = seen + named
      BY <1>a, <1>b
    <3>2. Clear(safety.seen, b, s.to) /\ s.to \in Nat /\ s.from \in Nat /\ b <= s.to
      BY <1>0, <2>5, <3>1, AwakeIsClear DEF Readings
    <3>3. Covers(safety, b, s.to + ClockGrace)
      BY <2>5, <3>1 DEF SleepsCovered
    <3>4. Reaches(sweep.jump, sweep.at, b)
      BY <2>5, <3>1, SweepReaches
    <3>5. x.boundary = b
      BY <2>4, <3>1
    <3> HIDE DEF asked, named, seen
    <3> QED
      BY <1>0, <2>4, <2>5, <3>2, <3>3, <3>4, <3>5, UnknownIsGivenGrace
  <2> HIDE DEF after
  <2> QED
    BY <2>1, <2>3, <2>5 DEF Granted
<1>4. ASSUME NEW q \in Peer, SweepActs(q) PROVE Knows(p)
  <2>1. sweep.step \in {"judged", "looked"}
    BY <1>4 DEF SweepActs, SweepLooks, Reap, Spare
  <2>2. CASE \E todo, tries : Goes(todo, tries) /\ todo \subseteq sweep.todo
    BY <1>1, <1>2, <2>1, <2>2
  <2>3. CASE /\ SweepLooks(q)
             /\ sweep' = Swept(sweep, "looked", [sweep.rows EXCEPT ![q] = peers[q]],
                               [sweep.evidence EXCEPT ![q] = EvidenceOf(q)],
                               sweep.todo, q, sweep.tries)
             /\ Known(q)
    <3>1. /\ sweep'.rows = [sweep.rows EXCEPT ![q] = peers[q]]
          /\ sweep'.evidence = [sweep.evidence EXCEPT ![q] = EvidenceOf(q)]
          /\ sweep'.todo = sweep.todo /\ sweep'.at = sweep.at /\ sweep'.kind = sweep.kind
      BY <2>3 DEF Swept
    <3>2. UNCHANGED <<safety, slept>>
      BY <2>3 DEF SweepLooks, Time
    <3>3. CASE p = q
      <4>1. sweep'.rows[p] = peers[p] /\ sweep'.evidence[p] = EvidenceOf(p) /\ p \in sweep.todo
        BY <1>0, <3>1, <3>3
      <4>2. CASE peers[p].seen < sweep.at
        <5>1. sweep.rows[p].seen = peers[p].seen /\ sweep.evidence[p] = "unknown"
          BY <2>3, <3>3, <4>1, <4>2 DEF ReadHolds
        <5>2. \A s \in slept : Granted(safety.grace, s, sweep.rows[p].seen, Named(sweep.kind),
                                       sweep.at)
          BY <2>1, <4>1, <5>1 DEF SweepsKnow
        <5> QED
          BY <3>1, <3>2, <4>1, <5>1, <5>2
      <4>3. CASE ~(peers[p].seen < sweep.at)
        BY <3>1, <4>1, <4>3 DEF Granted
      <4> QED
        BY <4>2, <4>3
    <3>4. CASE p # q
      <4>1. sweep'.rows[p] = sweep.rows[p] /\ sweep'.evidence[p] = sweep.evidence[p]
        BY <1>0, <3>1, <3>4
      <4> QED
        BY <1>1, <2>1, <3>1, <4>1
    <3> QED
      BY <3>3, <3>4
  <2>4. (\E todo, tries : Goes(todo, tries) /\ todo \subseteq sweep.todo) \/
          /\ SweepLooks(q)
          /\ sweep' = Swept(sweep, "looked", [sweep.rows EXCEPT ![q] = peers[q]],
                            [sweep.evidence EXCEPT ![q] = EvidenceOf(q)],
                            sweep.todo, q, sweep.tries)
          /\ Known(q)
    BY <1>4 DEF SweepActs, SweepLooks, Reap, Spare
  <2> QED
    BY <2>2, <2>3, <2>4
<1>5. ASSUME NEW kind \in SweepKind, StartSweep(kind) PROVE FALSE
  BY <1>5 DEF StartSweep
<1>6. CASE sweep' = NoSweep
  BY <1>6 DEF NoSweep
<1>7. CASE UNCHANGED sweep
  BY <1>1, <1>7
<1> QED
  BY <1>3, <1>4, <1>5, <1>6, <1>7, SweepSteps

LEMMA LooksAtOneStep ==
    ASSUME LooksAtOne, [Next]_vars
    PROVE  LooksAtOne'
<1>1. \A todo, tries : Goes(todo, tries) => sweep'.step = "judged"
  BY DEF Goes, Swept
<1>2. NoSweep.step = "idle"
  BY NoSweepType
<1>3. ASSUME NEW p \in Peer, SweepActs(p) PROVE LooksAtOne'
  <2>1. CASE \E todo, tries : Goes(todo, tries)
    BY <1>1, <2>1 DEF LooksAtOne
  <2>2. CASE /\ p \in sweep.todo
             /\ \E rows, evidence : sweep' = Swept(sweep, "looked", rows, evidence, sweep.todo, p,
                                                   sweep.tries)
    BY <2>2 DEF LooksAtOne, Swept
  <2> QED
    BY <1>3, <2>1, <2>2 DEF SweepActs, SweepLooks, Reap, Spare
<1>4. JudgeSweep => sweep'.step # "looked"
  BY <1>1, <1>2 DEF JudgeSweep
<1>5. \A kind \in SweepKind : StartSweep(kind) => sweep'.step = "read"
  BY DEF StartSweep
<1> QED
  BY <1>2, <1>3, <1>4, <1>5, SweepSteps DEF LooksAtOne

LEMMA SleepInit == Init => SleepInv
<1> SUFFICES ASSUME Init PROVE SleepInv
  OBVIOUS
<1>0. Inv
  BY InvInit
<1>1. /\ clock = 0 /\ jumps = 0 /\ slept = {} /\ safety = FreshSafety /\ drift = Probed(0)
      /\ op = [p \in Peer |-> Idle] /\ sweep = NoSweep
  BY DEF Init
<1>2. /\ NoSweep.step = "idle" /\ NoSweep.at = 0 /\ NoSweep.todo = {} /\ NoSweep.jump = NoJump
      /\ Idle.step = "idle" /\ Idle.at = 0 /\ FreshSafety.seen = -1 /\ Probed(0).since = 0
  BY DEF NoSweep, Idle, Further, FreshSafety, Never, Probed
<1>3. Readings
  BY <1>1, <1>2 DEF Readings, Awake
<1>4. SleepsAreOver /\ SleepsCovered /\ ProbesReach
  BY <1>1, <1>2 DEF SleepsAreOver, SleepsCovered, ProbesReach
<1>5. TakeoversKnow /\ SweepsKnow /\ ReadHolds /\ LooksAtOne
  BY <1>1, <1>2 DEF TakeoversKnow, Waits, SweepsKnow, ReadHolds, LooksAtOne
<1> QED
  BY <1>0, <1>3, <1>4, <1>5 DEF SleepInv

LEMMA SleepStep ==
    ASSUME OneJump
    PROVE  SleepInv /\ [Next]_vars => SleepInv'
<1> SUFFICES ASSUME SleepInv, [Next]_vars PROVE SleepInv'
  OBVIOUS
<1>0. /\ Inv /\ Readings /\ SleepsAreOver /\ SleepsCovered /\ ProbesReach
      /\ TakeoversKnow /\ SweepsKnow /\ ReadHolds /\ LooksAtOne
  BY DEF SleepInv
<1>1. Inv' /\ Readings' /\ SleepsAreOver'
  BY <1>0, InvStep, ReadingsStep
<1>2. SleepsCovered' /\ ProbesReach'
  BY <1>0, SleepsCoveredStep, ProbesReachStep
<1>3. TakeoversKnow' /\ SweepsKnow'
  BY <1>0, TakeoversKnowStep, SweepsKnowStep
<1>4. ReadHolds' /\ LooksAtOne'
  BY <1>0, ReadHoldsStep, LooksAtOneStep
<1> QED
  BY <1>1, <1>2, <1>3, <1>4 DEF SleepInv

\* An owner that was asleep is not taken over before the grace is over, by
\* whoever waits at least as long as a peer may be silent without evidence; the
\* runtime, if it polls, reports one jump at most: after a restart a second one
\* may hide a sleep that nobody has observed.
THEOREM SleepersKeepTheirTasks ==
    ASSUME OneJump, StaleAfter >= UnknownGrace
    PROVE  Spec => SleeperIsNotTakenOver
<1>1. SleepInv => SleepersKeepTasks
  <2> SUFFICES ASSUME SleepInv, NEW p \in Peer, TakesForStaleness(p),
                      Known(tasks[op[p].task].owner)
               PROVE  Spared(tasks[op[p].task].owner, Larger(StaleAfter, UnknownGrace), op[p].at)
    BY DEF SleepersKeepTasks
  <2> DEFINE c == op[p]
             o == tasks[op[p].task].owner
  <2>1. Inv /\ TypeOK /\ c \in Op /\ c.task \in Task
    BY DEF SleepInv, Inv, TypeOK, TasksAsked, TakesForStaleness, TakeOver
  <2>2. c.step = "judged" /\ c.subject = Capture(c.task) /\ Allowed(p, c)
    BY DEF TakesForStaleness, TakeOver, SameSubject
  <2>3. o \in Peer /\ o # p
    BY <2>1, RowsAreTyped DEF TakesForStaleness, TypeOK, PeerOrNone, NoRow
  <2>4. /\ c.subject.task = tasks[c.task] /\ c.subject.peer = peers[o]
        /\ c.subject.grace = safety.grace
    BY <2>2, <2>3, TaskBoardAssumption DEF Capture
  <2>5. OwnerStale(p, c)
    BY <2>2, <2>3, <2>4 DEF Allowed, TakesForStaleness
  <2>6. AllowsReap(c.evidence, clock, peers[o].seen, Larger(StaleAfter, UnknownGrace), safety.grace)
    BY <2>4, <2>5 DEF OwnerStale, Known, Unregistered, NoRowAfter
  <2>7. c.evidence \in Evidence /\ Holds(o, peers[o], c.evidence)
    BY <2>1, <2>2, <2>3, <2>4 DEF Inv, TakeoversHold, Op
  <2>8. EvidenceOf(o) = "dead" \/ EvidenceOf(o) = c.evidence
    BY <2>1, <2>3, <2>7, EvidenceLasts
  <2> SUFFICES ASSUME EvidenceOf(o) = "unknown", NEW s \in slept,
                      Crossed(s.from, s.to, peers[o].seen + Larger(StaleAfter, UnknownGrace)),
                      c.at >= s.to
               PROVE  clock >= s.to + ClockGrace
    BY DEF Spared
  <2>9. c.evidence = "unknown" /\ ~Suppressed(clock, safety.grace)
    BY <2>6, <2>8 DEF AllowsReap
  <2>10. /\ StaleAfter \in Nat \ {0} /\ Larger(StaleAfter, UnknownGrace) = StaleAfter
         /\ ClockGrace \in Nat /\ clock \in Nat /\ safety.grace \in Nat /\ s.to \in Nat
         /\ c.at \in Nat /\ peers[o].seen \in Nat
    BY <2>1, <2>3, PeerRowsAreTyped, TaskBoardAssumption, ClockAssumption
    DEF Larger, TypeOK, Safety, Op
  <2>11. c.subject.peer # Unregistered /\ c.subject.task.owner # NoPeer
    BY <2>3, <2>4, TaskBoardAssumption DEF Known, Unregistered, NoRowAfter
  <2>12. Granted(safety.grace, s, peers[o].seen, StaleAfter, c.at)
    BY <2>2, <2>4, <2>9, <2>11 DEF SleepInv, TakeoversKnow, Waits
  <2>13. peers[o].seen < c.at
    BY <2>10 DEF Crossed
  <2>14. safety.grace >= s.to + ClockGrace
    BY <2>10, <2>12, <2>13 DEF Granted
  <2> QED
    BY <2>9, <2>10, <2>14 DEF Suppressed
<1> QED
  BY <1>1, SleepInit, SleepStep, PTL DEF Spec, SleeperIsNotTakenOver

\* A peer that was asleep is not marked or removed before the grace is over, by
\* sweeps of a retention at least as long; under one jump when the runtime polls.
THEOREM SleepersKeepTheirRows ==
    ASSUME OneJump, Retention >= UnknownGrace
    PROVE  Spec => SleeperIsNotReaped
<1>1. SleepInv => SleepersAreSpared
  <2> SUFFICES ASSUME SleepInv, NEW p \in Peer, Reap(p),
                      EvidenceOf(p) = "unknown", NEW s \in slept,
                      Crossed(s.from, s.to, peers[p].seen + Limit(sweep.kind)), sweep.at >= s.to
               PROVE  clock >= s.to + ClockGrace
    BY DEF SleepersAreSpared, Spared
  <2>1. /\ Inv /\ TypeOK /\ sweep.step = "looked" /\ p = sweep.peer
        /\ StillAllowed(p) /\ sweep.rows[p] = peers[p] /\ p \in sweep.todo
    BY DEF SleepInv, Inv, Reap, RowUnchanged, LooksAtOne
  <2>2. /\ sweep.evidence[p] \in Evidence /\ Holds(p, peers[p], sweep.evidence[p]) /\ Known(p)
    BY <2>1, SweepFields DEF Inv, SweepHolds, Known
  <2>3. EvidenceOf(p) = "dead" \/ EvidenceOf(p) = sweep.evidence[p]
    BY <2>1, <2>2, EvidenceLasts
  <2>4. sweep.evidence[p] = "unknown" /\ ~Suppressed(clock, safety.grace)
    BY <2>1, <2>3 DEF StillAllowed, AllowsReap
  <2>5. /\ Limit(sweep.kind) = Named(sweep.kind) /\ Named(sweep.kind) \in Nat \ {0}
        /\ ClockGrace \in Nat /\ clock \in Nat /\ safety.grace \in Nat /\ s.to \in Nat
        /\ sweep.at \in Nat /\ peers[p].seen \in Nat
    BY <2>1, PeerRowsAreTyped, SweepFields, TaskBoardAssumption, ClockAssumption
    DEF Limit, Named, Larger, TypeOK, Safety
  <2>6. Granted(safety.grace, s, peers[p].seen, Named(sweep.kind), sweep.at)
    BY <2>1, <2>4 DEF SleepInv, SweepsKnow
  <2>7. peers[p].seen < sweep.at
    BY <2>5 DEF Crossed
  <2>8. safety.grace >= s.to + ClockGrace
    BY <2>5, <2>6, <2>7 DEF Granted
  <2> QED
    BY <2>4, <2>5, <2>8 DEF Suppressed
<1> QED
  BY <1>1, SleepInit, SleepStep, PTL DEF Spec, SleeperIsNotReaped
=============================================================================
