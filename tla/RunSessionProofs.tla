---------------------------- MODULE RunSessionProofs ----------------------------
(* Proofs about RunSession, for any number of wrappers of either sort.       *)
(*                                                                           *)
(* A wrapper in session is named by a running row (SessionNamed), so nobody  *)
(* finds the peer free: neither by the row nor by a row read earlier, which  *)
(* stays dead once it was (SeenIsDead).  That nothing else closes its row    *)
(* rests on the buffer files: those of a child that lives stay (ViewIsHeld), *)
(* so the web runtime never finalizes such a session.                        *)
EXTENDS RunSession, TLAPS

SessionNamed == \A w \in Runner : InSession(w) => row = Row(Wrapper(w), "running")

Starting == {"none", "looked", "registered", "published"}
During == {"spawned", "opened", "running", "failing", "stopped", "unstopped", "blocking"}

ChildSteps == \A w \in Runner :
    /\ phase[w] \in Starting => child[w] = "none"
    /\ phase[w] \in During => child[w] # "none"
    /\ phase[w] = "closing" => child[w] # "live"
    /\ phase[w] = "stopped" => w \in exit
    /\ w \in exit => child[w] = "dead"

Both(v) == {Wrapper(v), Child(v)}

GroupShape == \A v \in Bridge : group.gen = v =>
    /\ group.names \in {{Wrapper(v)}, {Child(v)}, Both(v)}
    /\ group.names = Both(v) => phase[v] \in {"running", "gone"}
    /\ group.names = {Child(v)} => phase[v] \in {"blocking", "gone"}

RunningPublished == \A v \in Bridge : phase[v] = "running" => group = Group(v, Both(v), TRUE)

ViewIsHeld == \A v \in Bridge : view.gen = v =>
    /\ view.owner \in {NoOne, Wrapper(v), Child(v)}
    /\ view.owner = Wrapper(v) => phase[v] \in {"running", "closing", "gone"}
    /\ phase[v] \in {"running", "blocking", "closing", "gone"}
    /\ child[v] = "live" => group.gen = v /\ group.out /\ Child(v) \in group.names

Named(p) == row.who = p \/ \E v \in Plain : seen[v].row.who = p

NotYetNamed == \A w \in Runner :
    /\ phase[w] \in {"none", "looked"} => ~Named(Wrapper(w))
    /\ child[w] = "none" => ~Named(Child(w))

\* A row that stops nobody: neither of a session nor of a child that lives.
FindsFree(r) == \A v \in Runner :
    /\ InSession(v) => r # Row(Wrapper(v), "running")
    /\ child[v] = "live" => r # Row(Child(v), "blocked")

SeenIsDead == \A w \in Plain :
    phase[w] = "looked" /\ seen[w].state = "dead" => FindsFree(seen[w].row)

LiveChildNamed == \A w \in Runner \ lost :
    child[w] = "live" =>
        InSession(w) \/ (phase[w] = "gone" /\ row = Row(Child(w), "blocked"))

RunInv == /\ RunTypeOK /\ SessionNamed /\ ChildSteps /\ GroupShape /\ RunningPublished
       /\ ViewIsHeld /\ NotYetNamed /\ SeenIsDead /\ LiveChildNamed

-----------------------------------------------------------------------------
(* Evidence                                                                *)

LEMMA DeadGroupIsDead ==
  ASSUME "dead" \in GroupStates
  PROVE  \A p \in group.names : ~IsAlive(p)
  <1> DEFINE S == { ProcessState(p) : p \in group.names }
  <1>1. Aggregate(S) = "dead"
    BY DEF GroupStates
  <1>2. S = {"dead"}
    <2> HIDE DEF S
    <2> QED
      BY <1>1 DEF Aggregate
  <1>3. \A p \in group.names : ProcessState(p) = "dead"
    BY <1>2
  <1> QED
    BY <1>3 DEF ProcessState

LEMMA DeadRowIsDead ==
  ASSUME "dead" \in RowStates, row # NoRow
  PROVE  row.status = "exited" \/ ~IsAlive(row.who)
  BY DEF RowStates, ProcessState

LEMMA RowStatesAreThree == RowStates \subseteq {"dead", "live", "unknown"}
  BY DEF RowStates, ProcessState

LEMMA RowsAreTyped ==
  /\ \A p \in RunProcess, s \in {"running", "blocked", "exited"} :
       Row(p, s) \in Rows /\ Row(p, s).who = p /\ Row(p, s).status = s
  /\ NoRow \in Rows /\ NoRow.who = NoOne
  /\ \A w \in Runner : Wrapper(w) \in RunProcess /\ Child(w) \in RunProcess
  BY DEF Row, NoRow, Rows, RunProcess, Wrapper, Child

LEMMA GroupsAreTyped ==
  /\ \A v \in Bridge, out \in BOOLEAN : \A names \in SUBSET {Wrapper(v), Child(v)} :
       /\ Group(v, names, out) \in Groups
       /\ \A p \in names : p[1] = v
  /\ \A v, names, out :
       /\ Group(v, names, out).gen = v /\ Group(v, names, out).names = names
       /\ Group(v, names, out).out = out
  /\ NoGroup \in Groups /\ NoGroup.gen = NoOne /\ NoGroup.names = {} /\ NoGroup.out = FALSE
  BY DEF Group, NoGroup, Groups, RunProcess, Wrapper, Child, Runner

LEMMA ViewsAreTyped ==
  /\ \A v \in Bridge, p \in RunProcess \cup {NoOne} : View(v, p) \in Views
  /\ \A v, p : View(v, p).gen = v /\ View(v, p).owner = p
  /\ NoView \in Views /\ NoView.gen = NoOne /\ NoView.owner = NoOne
  BY DEF View, NoView, Views

\* Trying once more forgets nothing of what was read.
LEMMA SightsAreTyped ==
  ASSUME NEW w \in Plain, seen \in [Plain -> Sights]
  PROVE  LET next == [seen EXCEPT ![w].again = FALSE]
         IN  /\ next \in [Plain -> Sights]
             /\ \A v \in Plain : next[v].row = seen[v].row /\ next[v].state = seen[v].state
  BY DEF Sights

LEMMA EntersMoves ==
  ASSUME NEW w \in Runner, NEW s \in Phase, phase \in [Runner -> Phase], Enters(w, s)
  PROVE  /\ phase' \in [Runner -> Phase] /\ phase'[w] = s
         /\ \A v \in Runner \ {w} : phase'[v] = phase[v]
  BY DEF Enters

LEMMA ProcessesDiffer ==
  /\ \A v, w : Wrapper(v) = Wrapper(w) => v = w
  /\ \A v, w : Child(v) = Child(w) => v = w
  /\ \A v, w : Wrapper(v) # Child(w)
  /\ \A w : Wrapper(w)[1] = w /\ Child(w)[1] = w /\ Wrapper(w)[2] = "wrapper" /\ Child(w)[2] = "child"
  /\ \A w \in Runner : Wrapper(w) # NoOne /\ Child(w) # NoOne
  BY RunAssumption DEF Wrapper, Child, RunProcess

LEMMA RunInvInit == RunInit => RunInv
  <1> SUFFICES ASSUME RunInit PROVE RunInv
    OBVIOUS
  <1>1. \A w \in Runner : phase[w] = "none" /\ child[w] = "none"
    BY DEF RunInit
  <1>2. exit = {} /\ learned = {} /\ lost = {} /\ row = NoRow /\ group = NoGroup /\ view = NoView
    BY DEF RunInit
  <1>3. \A w \in Plain : seen[w] = NothingSeen /\ seen[w].row = NoRow
    BY DEF RunInit, NothingSeen
  <1>4. RunTypeOK
    BY RowsAreTyped, GroupsAreTyped, ViewsAreTyped DEF RunInit, RunTypeOK, NothingSeen, Sights,
       Phase
  <1>5. NoRow.who = NoOne /\ group.gen = NoOne /\ view.gen = NoOne
    BY <1>2 DEF NoRow, Row, NoGroup, Group, NoView, View
  <1>6. SessionNamed /\ RunningPublished /\ SeenIsDead /\ LiveChildNamed
    BY <1>1, <1>2, <1>3 DEF SessionNamed, InSession, RunningPublished, SeenIsDead, LiveChildNamed,
       Runner
  <1>7. ChildSteps
    BY <1>1, <1>2 DEF ChildSteps, Starting, During
  <1>8. GroupShape /\ ViewIsHeld
    BY <1>5, RunAssumption DEF GroupShape, ViewIsHeld, Runner
  <1>9. NotYetNamed
    BY <1>2, <1>3, <1>5, ProcessesDiffer DEF NotYetNamed, Named
  <1> QED
    BY <1>4, <1>6, <1>7, <1>8, <1>9 DEF RunInv

-----------------------------------------------------------------------------
(* Types                                                                   *)

Advances(w) == phase' \in [Runner -> Phase] /\ \A v \in Runner \ {w} : phase'[v] = phase[v]

Acts(w) ==
    \/ w \in Bridge /\ BridgeStep(w)
    \/ w \in Plain /\ (Look(w) \/ Register(w) \/ StartChild(w) \/ Finish(w))
    \/ ExitHeard(w) \/ CloseRow(w) \/ ChildExits(w) \/ WrapperIsKilled(w)

WebActs == Adopt \/ Reconcile \/ WebRestarts

LEMMA EveryStepActs == RunNext => (\E w \in Runner : Acts(w)) \/ WebActs
  BY DEF RunNext, Acts, WebActs, Runner

LEMMA PhasesMove ==
  ASSUME RunTypeOK, NEW w \in Runner, Acts(w)
  PROVE  Advances(w)
  <1>1. CASE PublishGroup(w)
    BY <1>1, EntersMoves DEF PublishGroup, RunTypeOK, Advances, Phase
  <1>2. CASE Spawn(w)
    BY <1>2, EntersMoves DEF Spawn, RunTypeOK, Advances, Phase
  <1>3. CASE SpawnFails(w)
    BY <1>3, EntersMoves DEF SpawnFails, RunTypeOK, Advances, Phase
  <1>4. CASE OpenOutput(w)
    BY <1>4, EntersMoves DEF OpenOutput, RunTypeOK, Advances, Phase
  <1>5. CASE Announce(w)
    BY <1>5, EntersMoves DEF Announce, RunTypeOK, Advances, Phase
  <1>6. CASE StopChild(w)
    BY <1>6, EntersMoves DEF StopChild, RunTypeOK, Advances, Phase
  <1>7. CASE RecordFailure(w)
    BY <1>7, EntersMoves DEF RecordFailure, RunTypeOK, Advances, Phase
  <1>8. CASE BlockRow(w)
    BY <1>8, EntersMoves DEF BlockRow, RunTypeOK, Advances, Phase
  <1>9. CASE RemoveGroup(w)
    BY <1>9, EntersMoves DEF RemoveGroup, RunTypeOK, Advances, Phase
  <1>10. CASE LeaseTimesOut(w)
    BY <1>10, EntersMoves DEF LeaseTimesOut, RunTypeOK, Advances, Phase
  <1>11. CASE Look(w)
    BY <1>11, EntersMoves DEF Look, RunTypeOK, Advances, Phase
  <1>12. CASE Register(w)
    BY <1>12, EntersMoves DEF Register, RunTypeOK, Advances, Phase
  <1>13. CASE StartChild(w)
    BY <1>13, EntersMoves DEF StartChild, RunTypeOK, Advances, Phase
  <1>14. CASE Finish(w)
    BY <1>14, EntersMoves DEF Finish, RunTypeOK, Advances, Phase
  <1>15. CASE ExitHeard(w)
    BY <1>15, EntersMoves DEF ExitHeard, RunTypeOK, Advances, Phase
  <1>16. CASE CloseRow(w)
    BY <1>16, EntersMoves DEF CloseRow, RunTypeOK, Advances, Phase
  <1>17. CASE ChildExits(w)
    BY <1>17, EntersMoves DEF ChildExits, RunTypeOK, Advances, Phase
  <1>18. CASE WrapperIsKilled(w)
    BY <1>18, EntersMoves DEF WrapperIsKilled, RunTypeOK, Advances, Phase
  <1> QED
    BY <1>1, <1>2, <1>3, <1>4, <1>5, <1>6, <1>7, <1>8, <1>9, <1>10, <1>11, <1>12, <1>13, <1>14,
       <1>15, <1>16, <1>17, <1>18 DEF Acts, BridgeStep

LEMMA NamesAreOwn ==
  ASSUME RunTypeOK, NEW w \in Runner, OwnsGroup(w)
  PROVE  group.names \subseteq {Wrapper(w), Child(w)}
  <1> SUFFICES ASSUME NEW p \in group.names PROVE p \in {Wrapper(w), Child(w)}
    OBVIOUS
  <1>1. p \in RunProcess /\ p[1] = w
    BY DEF RunTypeOK, Groups, OwnsGroup
  <1> QED
    BY <1>1 DEF RunProcess, Wrapper, Child

\* What a wrapper's step leaves of the files is a group of its own, or none.
LEMMA GroupsStay ==
  ASSUME RunTypeOK, NEW w \in Runner, Acts(w)
  PROVE  \/ group' = group
         \/ group' = NoGroup
         \/ /\ w \in Bridge
            /\ \E names \in SUBSET {Wrapper(w), Child(w)}, out \in BOOLEAN :
                  group' = Group(w, names, out)
  <1>1. CASE w \in Bridge /\ PublishGroup(w)
    BY <1>1 DEF PublishGroup, RunTypeOK, Groups, OwnsGroup, Wrapper, Child
  <1>2. CASE w \in Bridge /\ Spawn(w)
    BY <1>2 DEF Spawn
  <1>3. CASE w \in Bridge /\ SpawnFails(w)
    BY <1>3 DEF SpawnFails, RunTypeOK, Groups, OwnsGroup, Wrapper, Child
  <1>4. CASE w \in Bridge /\ OpenOutput(w)
    BY <1>4, NamesAreOwn DEF OpenOutput
  <1>5. CASE w \in Bridge /\ Announce(w)
    BY <1>5 DEF Announce, RunTypeOK, Groups, OwnsGroup, Wrapper, Child
  <1>6. CASE w \in Bridge /\ StopChild(w)
    BY <1>6 DEF StopChild
  <1>7. CASE w \in Bridge /\ RecordFailure(w)
    BY <1>7 DEF RecordFailure, RunTypeOK, Groups, OwnsGroup, Wrapper, Child
  <1>8. CASE w \in Bridge /\ BlockRow(w)
    BY <1>8 DEF BlockRow
  <1>9. CASE w \in Bridge /\ RemoveGroup(w)
    BY <1>9 DEF RemoveGroup, RunTypeOK, Groups, OwnsGroup, Wrapper, Child
  <1>10. CASE w \in Bridge /\ LeaseTimesOut(w)
    BY <1>10 DEF LeaseTimesOut
  <1>11. CASE Look(w)
    BY <1>11 DEF Look
  <1>12. CASE Register(w)
    BY <1>12 DEF Register
  <1>13. CASE StartChild(w)
    BY <1>13 DEF StartChild
  <1>14. CASE Finish(w)
    BY <1>14 DEF Finish
  <1>15. CASE ExitHeard(w)
    BY <1>15 DEF ExitHeard
  <1>16. CASE CloseRow(w)
    BY <1>16 DEF CloseRow
  <1>17. CASE ChildExits(w)
    BY <1>17 DEF ChildExits
  <1>18. CASE WrapperIsKilled(w)
    BY <1>18 DEF WrapperIsKilled
  <1> QED
    BY <1>1, <1>2, <1>3, <1>4, <1>5, <1>6, <1>7, <1>8, <1>9, <1>10, <1>11, <1>12, <1>13, <1>14,
       <1>15, <1>16, <1>17, <1>18 DEF Acts, BridgeStep

\* ... and of the row, one of its own, or the one it was.
LEMMA RowsStay ==
  ASSUME RunTypeOK, NEW w \in Runner, Acts(w)
  PROVE  \/ row' = row
         \/ /\ row' = Row(Wrapper(w), "running") /\ phase'[w] \in {"published", "registered"}
            /\ \/ "dead" \in RowStates
               \/ /\ w \in Plain /\ phase[w] = "looked"
                  /\ seen[w].state = "dead" /\ seen[w].row = row
         \/ row' = Row(Wrapper(w), "exited") /\ row.who = Wrapper(w) /\ phase[w] = "closing"
         \/ /\ row' = Row(Child(w), "blocked") /\ row.who = Wrapper(w)
            /\ phase[w] = "blocking" /\ phase'[w] = "gone"
  <1>1. CASE w \in Bridge /\ PublishGroup(w)
    BY <1>1 DEF PublishGroup, RowIsAsSeen, Enters, RunTypeOK, Phase
  <1>2. CASE w \in Bridge /\ Spawn(w)
    BY <1>2 DEF Spawn, RowIsAsSeen, Enters, RunTypeOK, Phase
  <1>3. CASE w \in Bridge /\ SpawnFails(w)
    BY <1>3 DEF SpawnFails, RowIsAsSeen, Enters, RunTypeOK, Phase
  <1>4. CASE w \in Bridge /\ OpenOutput(w)
    BY <1>4 DEF OpenOutput, RowIsAsSeen, Enters, RunTypeOK, Phase
  <1>5. CASE w \in Bridge /\ Announce(w)
    BY <1>5 DEF Announce, RowIsAsSeen, Enters, RunTypeOK, Phase
  <1>6. CASE w \in Bridge /\ StopChild(w)
    BY <1>6 DEF StopChild, RowIsAsSeen, Enters, RunTypeOK, Phase
  <1>7. CASE w \in Bridge /\ RecordFailure(w)
    BY <1>7 DEF RecordFailure, RowIsAsSeen, Enters, RunTypeOK, Phase
  <1>8. CASE w \in Bridge /\ BlockRow(w)
    BY <1>8 DEF BlockRow, RowIsAsSeen, Enters, RunTypeOK, Phase
  <1>9. CASE w \in Bridge /\ RemoveGroup(w)
    BY <1>9 DEF RemoveGroup, RowIsAsSeen, Enters, RunTypeOK, Phase
  <1>10. CASE w \in Bridge /\ LeaseTimesOut(w)
    BY <1>10 DEF LeaseTimesOut, RowIsAsSeen, Enters, RunTypeOK, Phase
  <1>11. CASE w \in Plain /\ Look(w)
    BY <1>11 DEF Look, RowIsAsSeen, Enters, RunTypeOK, Phase
  <1>12. CASE w \in Plain /\ Register(w)
    BY <1>12 DEF Register, RowIsAsSeen, Enters, RunTypeOK, Phase
  <1>13. CASE w \in Plain /\ StartChild(w)
    BY <1>13 DEF StartChild, RowIsAsSeen, Enters, RunTypeOK, Phase
  <1>14. CASE w \in Plain /\ Finish(w)
    BY <1>14 DEF Finish, RowIsAsSeen, Enters, RunTypeOK, Phase
  <1>15. CASE ExitHeard(w)
    BY <1>15 DEF ExitHeard, RowIsAsSeen, Enters, RunTypeOK, Phase
  <1>16. CASE CloseRow(w)
    BY <1>16 DEF CloseRow, RowIsAsSeen, Enters, RunTypeOK, Phase
  <1>17. CASE ChildExits(w)
    BY <1>17 DEF ChildExits, RowIsAsSeen, Enters, RunTypeOK, Phase
  <1>18. CASE WrapperIsKilled(w)
    BY <1>18 DEF WrapperIsKilled, RowIsAsSeen, Enters, RunTypeOK, Phase
  <1> QED
    BY <1>1, <1>2, <1>3, <1>4, <1>5, <1>6, <1>7, <1>8, <1>9, <1>10, <1>11, <1>12, <1>13, <1>14,
       <1>15, <1>16, <1>17, <1>18 DEF Acts, BridgeStep

LEMMA SightsStay ==
  ASSUME RunTypeOK, NEW w \in Runner, Acts(w)
  PROVE  /\ seen' \in [Plain -> Sights]
         /\ \/ \A v \in Plain : seen'[v].row = seen[v].row /\ seen'[v].state = seen[v].state
            \/ /\ w \in Plain /\ row' = row /\ phase[w] = "none" /\ UNCHANGED child
               /\ seen'[w].row = row /\ seen'[w].state \in RowStates
               /\ \A v \in Plain \ {w} : seen'[v] = seen[v]
  <1>1. CASE PublishGroup(w)
    BY <1>1 DEF PublishGroup, RunTypeOK
  <1>2. CASE Spawn(w)
    BY <1>2 DEF Spawn, RunTypeOK
  <1>3. CASE SpawnFails(w)
    BY <1>3 DEF SpawnFails, RunTypeOK
  <1>4. CASE OpenOutput(w)
    BY <1>4 DEF OpenOutput, RunTypeOK
  <1>5. CASE Announce(w)
    BY <1>5 DEF Announce, RunTypeOK
  <1>6. CASE StopChild(w)
    BY <1>6 DEF StopChild, RunTypeOK
  <1>7. CASE RecordFailure(w)
    BY <1>7 DEF RecordFailure, RunTypeOK
  <1>8. CASE BlockRow(w)
    BY <1>8 DEF BlockRow, RunTypeOK
  <1>9. CASE RemoveGroup(w)
    BY <1>9 DEF RemoveGroup, RunTypeOK
  <1>10. CASE LeaseTimesOut(w)
    BY <1>10 DEF LeaseTimesOut, RunTypeOK
  <1>11. CASE w \in Plain /\ Look(w)
    <2>1. seen \in [Plain -> Sights] /\ row \in Rows
      BY DEF RunTypeOK
    <2>2. PICK s \in RowStates : seen' = [seen EXCEPT ![w].row = row, ![w].state = s]
      BY <1>11 DEF Look
    <2>3. s \in {"dead", "live", "unknown"}
      BY <2>2, RowStatesAreThree
    <2>4. /\ seen' \in [Plain -> Sights]
          /\ seen'[w].row = row /\ seen'[w].state = s
          /\ \A v \in Plain \ {w} : seen'[v] = seen[v]
      BY <1>11, <2>1, <2>2, <2>3 DEF Sights
    <2> QED
      BY <1>11, <2>2, <2>4 DEF Look
  <1>12. CASE w \in Plain /\ Register(w)
    <2>1. seen \in [Plain -> Sights]
      BY DEF RunTypeOK
    <2>2. seen' = seen \/ seen' = [seen EXCEPT ![w].again = FALSE]
      BY <1>12 DEF Register
    <2>3. /\ [seen EXCEPT ![w].again = FALSE] \in [Plain -> Sights]
          /\ \A v \in Plain : /\ [seen EXCEPT ![w].again = FALSE][v].row = seen[v].row
                              /\ [seen EXCEPT ![w].again = FALSE][v].state = seen[v].state
      BY <1>12, <2>1, SightsAreTyped
    <2> QED
      BY <2>1, <2>2, <2>3
  <1>13. CASE w \in Plain /\ StartChild(w)
    BY <1>13 DEF StartChild, RunTypeOK
  <1>14. CASE w \in Plain /\ Finish(w)
    BY <1>14 DEF Finish, RunTypeOK
  <1>15. CASE ExitHeard(w)
    BY <1>15 DEF ExitHeard, RunTypeOK
  <1>16. CASE CloseRow(w)
    BY <1>16 DEF CloseRow, RunTypeOK
  <1>17. CASE ChildExits(w)
    BY <1>17 DEF ChildExits, RunTypeOK
  <1>18. CASE WrapperIsKilled(w)
    BY <1>18 DEF WrapperIsKilled, RunTypeOK
  <1> QED
    BY <1>1, <1>2, <1>3, <1>4, <1>5, <1>6, <1>7, <1>8, <1>9, <1>10, <1>11, <1>12, <1>13, <1>14,
       <1>15, <1>16, <1>17, <1>18 DEF Acts, BridgeStep

LEMMA OthersStay ==
  ASSUME RunTypeOK, NEW w \in Runner, Acts(w)
  PROVE  /\ child' \in [Runner -> {"none", "live", "dead"}]
         /\ \A v \in Runner \ {w} :
              child'[v] = child[v] /\ (v \in exit <=> v \in exit') /\ (v \in lost <=> v \in lost')
         /\ exit' \subseteq Runner /\ learned' \subseteq Bridge /\ lost' \subseteq Runner
         /\ lost \subseteq lost' /\ view' = view
  <1>1. CASE w \in Bridge /\ PublishGroup(w)
    BY <1>1 DEF PublishGroup, RunTypeOK
  <1>2. CASE w \in Bridge /\ Spawn(w)
    BY <1>2 DEF Spawn, RunTypeOK
  <1>3. CASE w \in Bridge /\ SpawnFails(w)
    BY <1>3 DEF SpawnFails, RunTypeOK
  <1>4. CASE w \in Bridge /\ OpenOutput(w)
    BY <1>4 DEF OpenOutput, RunTypeOK
  <1>5. CASE w \in Bridge /\ Announce(w)
    BY <1>5 DEF Announce, RunTypeOK
  <1>6. CASE w \in Bridge /\ StopChild(w)
    BY <1>6 DEF StopChild, RunTypeOK
  <1>7. CASE w \in Bridge /\ RecordFailure(w)
    BY <1>7 DEF RecordFailure, RunTypeOK
  <1>8. CASE w \in Bridge /\ BlockRow(w)
    BY <1>8 DEF BlockRow, RunTypeOK
  <1>9. CASE w \in Bridge /\ RemoveGroup(w)
    BY <1>9 DEF RemoveGroup, RunTypeOK
  <1>10. CASE w \in Bridge /\ LeaseTimesOut(w)
    BY <1>10 DEF LeaseTimesOut, RunTypeOK
  <1>11. CASE w \in Plain /\ Look(w)
    BY <1>11 DEF Look, RunTypeOK
  <1>12. CASE w \in Plain /\ Register(w)
    BY <1>12 DEF Register, RunTypeOK
  <1>13. CASE w \in Plain /\ StartChild(w)
    BY <1>13 DEF StartChild, RunTypeOK
  <1>14. CASE w \in Plain /\ Finish(w)
    BY <1>14 DEF Finish, RunTypeOK
  <1>15. CASE ExitHeard(w)
    BY <1>15 DEF ExitHeard, RunTypeOK
  <1>16. CASE CloseRow(w)
    BY <1>16 DEF CloseRow, RunTypeOK
  <1>17. CASE ChildExits(w)
    BY <1>17 DEF ChildExits, RunTypeOK
  <1>18. CASE WrapperIsKilled(w)
    BY <1>18 DEF WrapperIsKilled, RunTypeOK
  <1> QED
    BY <1>1, <1>2, <1>3, <1>4, <1>5, <1>6, <1>7, <1>8, <1>9, <1>10, <1>11, <1>12, <1>13, <1>14,
       <1>15, <1>16, <1>17, <1>18 DEF Acts, BridgeStep

LEMMA WebKeeps ==
  ASSUME RunTypeOK, WebActs
  PROVE  /\ UNCHANGED <<phase, child, exit, learned, seen, lost>>
         /\ group' \in {group, NoGroup}
         /\ \/ row' = row
            \/ row' = Row(row.who, "exited") /\ row.who \in RunProcess /\ row.who = view.owner
         /\ \/ view' = NoView
            \/ view' = View(group.gen, OwnerInRow) /\ group.out
  <1>1. CASE Adopt
    BY <1>1 DEF Adopt, wrappers
  <1>2. CASE Reconcile
    BY <1>2, RunAssumption DEF Reconcile, wrappers, OwnedByView, RunTypeOK, Views
  <1>3. CASE WebRestarts
    BY <1>3 DEF WebRestarts, wrappers
  <1> QED
    BY <1>1, <1>2, <1>3 DEF WebActs

LEMMA TypeStep == RunTypeOK /\ [RunNext]_runVars => RunTypeOK'
  <1> SUFFICES ASSUME RunTypeOK, [RunNext]_runVars PROVE RunTypeOK'
    OBVIOUS
  <1>1. ASSUME NEW w \in Runner, Acts(w) PROVE RunTypeOK'
    <2>1. /\ group' \in Groups /\ \A p \in group'.names : p[1] = group'.gen
          /\ group'.gen = NoOne => group' = NoGroup
      BY <1>1, GroupsStay, GroupsAreTyped, RunAssumption DEF RunTypeOK, Runner
    <2>2. row' \in Rows
      BY <1>1, RowsStay, RowsAreTyped DEF RunTypeOK
    <2> QED
      BY <1>1, <2>1, <2>2, PhasesMove, SightsStay, OthersStay DEF RunTypeOK, Advances
  <1>2. CASE WebActs
    <2>1. /\ group' \in Groups /\ \A p \in group'.names : p[1] = group'.gen
          /\ group'.gen = NoOne => group' = NoGroup
      BY <1>2, WebKeeps, GroupsAreTyped DEF RunTypeOK
    <2>2. row' \in Rows
      BY <1>2, WebKeeps, RowsAreTyped DEF RunTypeOK
    <2>3. view' \in Views /\ (view'.gen = NoOne => view' = NoView)
      <3>1. CASE view' = NoView
        BY <3>1, ViewsAreTyped
      <3>2. CASE view' = View(group.gen, OwnerInRow) /\ group.out
        <4>1. group.gen \in Bridge
          BY <3>2, GroupsAreTyped DEF RunTypeOK, Groups
        <4>2. OwnerInRow \in RunProcess \cup {NoOne}
          BY <4>1, RowsAreTyped DEF OwnerInRow, Runner
        <4> QED
          BY <3>2, <4>1, <4>2, ViewsAreTyped, RunAssumption DEF Runner
      <3> QED
        BY <1>2, <3>1, <3>2, WebKeeps
    <2> QED
      BY <1>2, <2>1, <2>2, <2>3, WebKeeps DEF RunTypeOK
  <1>3. CASE UNCHANGED runVars
    BY <1>3 DEF runVars, wrappers, RunTypeOK
  <1> QED
    BY <1>1, <1>2, <1>3, EveryStepActs

LEMMA ChildStepsStep ==
  ASSUME RunTypeOK, ChildSteps, NEW w \in Runner, Acts(w)
  PROVE  ChildSteps'
  <1>1. CASE w \in Bridge /\ PublishGroup(w)
    BY <1>1, PhasesMove DEF PublishGroup, ChildSteps, Starting, During, Enters, RunTypeOK, Phase
  <1>2. CASE w \in Bridge /\ Spawn(w)
    BY <1>2, PhasesMove DEF Spawn, ChildSteps, Starting, During, Enters, RunTypeOK, Phase
  <1>3. CASE w \in Bridge /\ SpawnFails(w)
    BY <1>3, PhasesMove DEF SpawnFails, ChildSteps, Starting, During, Enters, RunTypeOK, Phase
  <1>4. CASE w \in Bridge /\ OpenOutput(w)
    BY <1>4, PhasesMove DEF OpenOutput, ChildSteps, Starting, During, Enters, RunTypeOK, Phase
  <1>5. CASE w \in Bridge /\ Announce(w)
    BY <1>5, PhasesMove DEF Announce, ChildSteps, Starting, During, Enters, RunTypeOK, Phase
  <1>6. CASE w \in Bridge /\ StopChild(w)
    BY <1>6, PhasesMove DEF StopChild, ChildSteps, Starting, During, Enters, RunTypeOK, Phase
  <1>7. CASE w \in Bridge /\ RecordFailure(w)
    BY <1>7, PhasesMove DEF RecordFailure, PreservesEvidence, ChildSteps, Starting, During,
       Enters, RunTypeOK, Phase
  <1>8. CASE w \in Bridge /\ BlockRow(w)
    BY <1>8, PhasesMove DEF BlockRow, ChildSteps, Starting, During, Enters, RunTypeOK, Phase
  <1>9. CASE w \in Bridge /\ RemoveGroup(w)
    BY <1>9, PhasesMove DEF RemoveGroup, ChildSteps, Starting, During, Enters, RunTypeOK, Phase
  <1>10. CASE w \in Bridge /\ LeaseTimesOut(w)
    BY <1>10, PhasesMove DEF LeaseTimesOut, ChildSteps, Starting, During, Enters, RunTypeOK, Phase
  <1>11. CASE w \in Plain /\ Look(w)
    BY <1>11, PhasesMove DEF Look, ChildSteps, Starting, During, Enters, RunTypeOK, Phase
  <1>12. CASE w \in Plain /\ Register(w)
    BY <1>12, PhasesMove DEF Register, ChildSteps, Starting, During, Enters, RunTypeOK, Phase
  <1>13. CASE w \in Plain /\ StartChild(w)
    BY <1>13, PhasesMove DEF StartChild, ChildSteps, Starting, During, Enters, RunTypeOK, Phase
  <1>14. CASE w \in Plain /\ Finish(w)
    BY <1>14, PhasesMove DEF Finish, ChildSteps, Starting, During, Enters, RunTypeOK, Phase
  <1>15. CASE ExitHeard(w)
    BY <1>15, PhasesMove DEF ExitHeard, ChildSteps, Starting, During, Enters, RunTypeOK, Phase
  <1>16. CASE CloseRow(w)
    BY <1>16, PhasesMove DEF CloseRow, ChildSteps, Starting, During, Enters, RunTypeOK, Phase
  <1>17. CASE ChildExits(w)
    BY <1>17, PhasesMove DEF ChildExits, ChildSteps, Starting, During, Enters, RunTypeOK, Phase
  <1>18. CASE WrapperIsKilled(w)
    BY <1>18, PhasesMove DEF WrapperIsKilled, ChildSteps, Starting, During, Enters, RunTypeOK, Phase
  <1> QED
    BY <1>1, <1>2, <1>3, <1>4, <1>5, <1>6, <1>7, <1>8, <1>9, <1>10, <1>11, <1>12, <1>13, <1>14,
       <1>15, <1>16, <1>17, <1>18 DEF Acts, BridgeStep

-----------------------------------------------------------------------------
(* The buffer files                                                        *)

LEMMA AliveMeans ==
  \A v \in Runner :
    /\ IsAlive(Wrapper(v)) <=> phase[v] # "gone"
    /\ IsAlive(Child(v)) <=> child[v] = "live"
  BY DEF IsAlive, Wrapper, Child

\* A step changes the files of its own wrapper, or of the dead.
LEMMA FilesAreTheirs ==
  ASSUME RunTypeOK, NEW w \in Runner, Acts(w)
  PROVE  \/ group' = group
         \/ OwnsGroup(w) /\ phase'[w] # phase[w]
         \/ phase[w] = "none" /\ \A p \in group.names : ~IsAlive(p)
  <1>1. CASE PublishGroup(w)
    BY <1>1, DeadGroupIsDead, GroupsAreTyped DEF PublishGroup
  <1>2. CASE Spawn(w)
    BY <1>2 DEF Spawn, Enters, RunTypeOK, Phase
  <1>3. CASE SpawnFails(w)
    BY <1>3 DEF SpawnFails, Enters, RunTypeOK, Phase
  <1>4. CASE OpenOutput(w)
    BY <1>4 DEF OpenOutput, Enters, RunTypeOK, Phase
  <1>5. CASE Announce(w)
    BY <1>5 DEF Announce, Enters, RunTypeOK, Phase
  <1>6. CASE StopChild(w)
    BY <1>6 DEF StopChild, Enters, RunTypeOK, Phase
  <1>7. CASE RecordFailure(w)
    BY <1>7 DEF RecordFailure, Enters, RunTypeOK, Phase
  <1>8. CASE BlockRow(w)
    BY <1>8 DEF BlockRow, Enters, RunTypeOK, Phase
  <1>9. CASE RemoveGroup(w)
    BY <1>9 DEF RemoveGroup, Enters, RunTypeOK, Phase
  <1>10. CASE LeaseTimesOut(w)
    BY <1>10 DEF LeaseTimesOut, Enters, RunTypeOK, Phase
  <1>11. CASE Look(w)
    BY <1>11 DEF Look, Enters, RunTypeOK, Phase
  <1>12. CASE Register(w)
    BY <1>12 DEF Register, Enters, RunTypeOK, Phase
  <1>13. CASE StartChild(w)
    BY <1>13 DEF StartChild, Enters, RunTypeOK, Phase
  <1>14. CASE Finish(w)
    BY <1>14 DEF Finish, Enters, RunTypeOK, Phase
  <1>15. CASE ExitHeard(w)
    BY <1>15 DEF ExitHeard, Enters, RunTypeOK, Phase
  <1>16. CASE CloseRow(w)
    BY <1>16 DEF CloseRow, Enters, RunTypeOK, Phase
  <1>17. CASE ChildExits(w)
    BY <1>17 DEF ChildExits, Enters, RunTypeOK, Phase
  <1>18. CASE WrapperIsKilled(w)
    BY <1>18 DEF WrapperIsKilled, Enters, RunTypeOK, Phase
  <1> QED
    BY <1>1, <1>2, <1>3, <1>4, <1>5, <1>6, <1>7, <1>8, <1>9, <1>10, <1>11, <1>12, <1>13, <1>14,
       <1>15, <1>16, <1>17, <1>18 DEF Acts, BridgeStep

LEMMA WebClearsTheDead ==
  ASSUME RunTypeOK, WebActs
  PROVE  group' = group \/ \A p \in group.names : ~IsAlive(p)
  BY DeadGroupIsDead, GroupsAreTyped DEF WebActs, Adopt, Reconcile, WebRestarts

LEMMA GroupShapeStep ==
  ASSUME RunTypeOK, ChildSteps, GroupShape, NEW w \in Runner, Acts(w)
  PROVE  GroupShape'
  <1> SUFFICES ASSUME NEW v \in Bridge, group'.gen = v
               PROVE  /\ group'.names \in {{Wrapper(v)}, {Child(v)}, Both(v)}
                      /\ group'.names = Both(v) => phase'[v] \in {"running", "gone"}
                      /\ group'.names = {Child(v)} => phase'[v] \in {"blocking", "gone"}
    BY DEF GroupShape, Both, Wrapper, Child
  <1> DEFINE Goal == /\ group'.names \in {{Wrapper(v)}, {Child(v)}, Both(v)}
                     /\ group'.names = Both(v) => phase'[v] \in {"running", "gone"}
                     /\ group'.names = {Child(v)} => phase'[v] \in {"blocking", "gone"}
  <1>0. CASE v # w
    <2>1. group' = group
      BY <1>0, GroupsStay, GroupsAreTyped, RunAssumption DEF Runner
    <2> QED
      BY <1>0, <2>1, PhasesMove DEF GroupShape, Advances, Runner
  <1>a. SUFFICES ASSUME v = w PROVE Goal
    BY <1>0
  <1>b. {Wrapper(v)} # Both(v) /\ {Child(v)} # Both(v) /\ {Wrapper(v)} # {Child(v)}
    BY ProcessesDiffer DEF Both
  <1>c. group'.names = {Wrapper(v)} => Goal
    <2>1. SUFFICES ASSUME group'.names = {Wrapper(v)} PROVE Goal
      OBVIOUS
    <2>2. group'.names # Both(v) /\ group'.names # {Child(v)}
      BY <2>1, <1>b
    <2> QED
      BY <2>1, <2>2
  <1>d. group'.names = Both(v) /\ phase'[v] = "running" => Goal
    <2>1. SUFFICES ASSUME group'.names = Both(v), phase'[v] = "running" PROVE Goal
      OBVIOUS
    <2>2. group'.names # {Child(v)}
      BY <2>1, <1>b
    <2> QED
      BY <2>1, <2>2
  <1> HIDE DEF Goal
  <1>1. CASE PublishGroup(w)
    <2>1. v # NoOne
      BY RunAssumption DEF Runner
    <2>2. group'.names = {Wrapper(v)}
      BY <1>1, <1>a, <2>1 DEF PublishGroup, Group, NoGroup
    <2> QED
      BY <2>2, <1>c
  <1>2. CASE Spawn(w)
    BY <1>2, <1>a, <1>b, GroupsAreTyped DEF Spawn, Goal, OwnsGroup, Both, GroupShape, Enters,
       RunTypeOK, Phase
  <1>3. CASE SpawnFails(w)
    BY <1>3, <1>a, <1>b, GroupsAreTyped DEF SpawnFails, Goal, OwnsGroup, Both, GroupShape, Enters,
       RunTypeOK, Phase
  <1>4. CASE OpenOutput(w)
    <2>1. group.gen = v /\ group'.names = group.names /\ phase[v] = "spawned"
      BY <1>4, <1>a DEF OpenOutput, OwnsGroup, Group
    <2>2. group.names = {Wrapper(v)}
      BY <2>1 DEF GroupShape
    <2> QED
      BY <2>1, <2>2, <1>c
  <1>5. CASE Announce(w)
    <2>1. CASE group' = Group(w, {Wrapper(w), Child(w)}, TRUE) /\ Enters(w, "running")
      <3>1. group'.names = Both(v)
        BY <2>1, <1>a DEF Both, Group
      <3>2. phase'[v] = "running"
        BY <2>1, <1>a, EntersMoves DEF RunTypeOK, Phase
      <3> QED
        BY <3>1, <3>2, <1>d
    <2>2. CASE UNCHANGED group
      <3>1. group.gen = v /\ phase[v] = "opened"
        BY <1>5, <1>a, <2>2 DEF Announce
      <3>2. group'.names = {Wrapper(v)}
        BY <2>2, <3>1 DEF GroupShape
      <3> QED
        BY <3>2, <1>c
    <2> QED
      BY <1>5, <2>1, <2>2 DEF Announce
  <1>6. CASE StopChild(w)
    BY <1>6, <1>a, <1>b, GroupsAreTyped DEF StopChild, Goal, OwnsGroup, Both, GroupShape, Enters,
       RunTypeOK, Phase
  <1>7. CASE RecordFailure(w)
    BY <1>7, <1>a, <1>b, GroupsAreTyped DEF RecordFailure, Goal, OwnsGroup, Both, GroupShape,
       Enters, RunTypeOK, Phase
  <1>8. CASE BlockRow(w)
    BY <1>8, <1>a, <1>b, GroupsAreTyped DEF BlockRow, Goal, OwnsGroup, Both, GroupShape, Enters,
       RunTypeOK, Phase
  <1>9. CASE RemoveGroup(w)
    BY <1>9, <1>a, <1>b, GroupsAreTyped DEF RemoveGroup, Goal, OwnsGroup, Both, GroupShape,
       Enters, RunTypeOK, Phase
  <1>10. CASE LeaseTimesOut(w)
    BY <1>10, <1>a, <1>b, GroupsAreTyped DEF LeaseTimesOut, Goal, OwnsGroup, Both, GroupShape,
       Enters, RunTypeOK, Phase
  <1>11. CASE Look(w)
    BY <1>11, <1>a, <1>b, GroupsAreTyped DEF Look, Goal, OwnsGroup, Both, GroupShape, Enters,
       RunTypeOK, Phase
  <1>12. CASE Register(w)
    BY <1>12, <1>a, <1>b, GroupsAreTyped DEF Register, Goal, OwnsGroup, Both, GroupShape, Enters,
       RunTypeOK, Phase
  <1>13. CASE StartChild(w)
    BY <1>13, <1>a, <1>b, GroupsAreTyped DEF StartChild, Goal, OwnsGroup, Both, GroupShape,
       Enters, RunTypeOK, Phase
  <1>14. CASE Finish(w)
    BY <1>14, <1>a, RunAssumption DEF Finish
  <1>15. CASE ExitHeard(w)
    BY <1>15, <1>a, <1>b, GroupsAreTyped DEF ExitHeard, Goal, OwnsGroup, Both, GroupShape, Enters,
       RunTypeOK, Phase
  <1>16. CASE CloseRow(w)
    BY <1>16, <1>a, <1>b, GroupsAreTyped DEF CloseRow, Goal, OwnsGroup, Both, GroupShape, Enters,
       RunTypeOK, Phase
  <1>17. CASE ChildExits(w)
    BY <1>17, <1>a, <1>b, GroupsAreTyped DEF ChildExits, Goal, OwnsGroup, Both, GroupShape,
       Enters, RunTypeOK, Phase
  <1>18. CASE WrapperIsKilled(w)
    BY <1>18, <1>a, <1>b, GroupsAreTyped DEF WrapperIsKilled, Goal, OwnsGroup, Both, GroupShape,
       Enters, RunTypeOK, Phase
  <1> QED
    BY <1>1, <1>2, <1>3, <1>4, <1>5, <1>6, <1>7, <1>8, <1>9, <1>10, <1>11, <1>12, <1>13, <1>14,
       <1>15, <1>16, <1>17, <1>18 DEF Acts, BridgeStep

\* Files that name a live process of another wrapper stay as they are.
LEMMA LiveFilesStay ==
  ASSUME RunTypeOK, NEW w \in Runner, Acts(w), NEW v \in Bridge, v # w, group.gen = v,
         \/ Child(v) \in group.names /\ child[v] = "live"
         \/ Wrapper(v) \in group.names /\ phase[v] # "gone"
  PROVE  group' = group
  BY FilesAreTheirs, AliveMeans DEF OwnsGroup, Runner

LEMMA RunningPublishedStep ==
  ASSUME RunTypeOK, RunningPublished, NEW w \in Runner, Acts(w)
  PROVE  RunningPublished'
  <1> SUFFICES ASSUME NEW v \in Bridge, phase'[v] = "running"
               PROVE  group' = Group(v, Both(v), TRUE)
    BY DEF RunningPublished, Both, Group, Wrapper, Child
  <1>0. CASE v # w
    <2>1. group = Group(v, Both(v), TRUE) /\ phase[v] = "running"
      BY <1>0, PhasesMove DEF RunningPublished, Advances, Runner
    <2>2. group.gen = v /\ Wrapper(v) \in group.names
      BY <2>1 DEF Group, Both
    <2> QED
      BY <1>0, <2>1, <2>2, LiveFilesStay
  <1>a. SUFFICES ASSUME v = w PROVE group' = Group(v, Both(v), TRUE)
    BY <1>0
  <1>1. CASE PublishGroup(w)
    BY <1>1, <1>a, RunAssumption DEF PublishGroup, Both, RunningPublished, Enters, RunTypeOK, Phase
  <1>2. CASE Spawn(w)
    BY <1>2, <1>a, RunAssumption DEF Spawn, Both, RunningPublished, Enters, RunTypeOK, Phase
  <1>3. CASE SpawnFails(w)
    BY <1>3, <1>a, RunAssumption DEF SpawnFails, Both, RunningPublished, Enters, RunTypeOK, Phase
  <1>4. CASE OpenOutput(w)
    BY <1>4, <1>a, RunAssumption DEF OpenOutput, Both, RunningPublished, Enters, RunTypeOK, Phase
  <1>5. CASE Announce(w)
    BY <1>5, <1>a, RunAssumption DEF Announce, Both, RunningPublished, Enters, RunTypeOK, Phase
  <1>6. CASE StopChild(w)
    BY <1>6, <1>a, RunAssumption DEF StopChild, Both, RunningPublished, Enters, RunTypeOK, Phase
  <1>7. CASE RecordFailure(w)
    BY <1>7, <1>a, RunAssumption DEF RecordFailure, Both, RunningPublished, Enters, RunTypeOK, Phase
  <1>8. CASE BlockRow(w)
    BY <1>8, <1>a, RunAssumption DEF BlockRow, Both, RunningPublished, Enters, RunTypeOK, Phase
  <1>9. CASE RemoveGroup(w)
    BY <1>9, <1>a, RunAssumption DEF RemoveGroup, Both, RunningPublished, Enters, RunTypeOK, Phase
  <1>10. CASE LeaseTimesOut(w)
    BY <1>10, <1>a, RunAssumption DEF LeaseTimesOut, Both, RunningPublished, Enters, RunTypeOK,
       Phase
  <1>11. CASE Look(w)
    BY <1>11, <1>a, RunAssumption DEF Look, Both, RunningPublished, Enters, RunTypeOK, Phase
  <1>12. CASE Register(w)
    BY <1>12, <1>a, RunAssumption DEF Register, Both, RunningPublished, Enters, RunTypeOK, Phase
  <1>13. CASE w \in Plain /\ StartChild(w)
    BY <1>13, <1>a, RunAssumption DEF StartChild, Both, RunningPublished, Enters, RunTypeOK, Phase
  <1>14. CASE Finish(w)
    BY <1>14, <1>a, RunAssumption DEF Finish, Both, RunningPublished, Enters, RunTypeOK, Phase
  <1>15. CASE ExitHeard(w)
    BY <1>15, <1>a, RunAssumption DEF ExitHeard, Both, RunningPublished, Enters, RunTypeOK, Phase
  <1>16. CASE CloseRow(w)
    BY <1>16, <1>a, RunAssumption DEF CloseRow, Both, RunningPublished, Enters, RunTypeOK, Phase
  <1>17. CASE ChildExits(w)
    BY <1>17, <1>a, RunAssumption DEF ChildExits, Both, RunningPublished, Enters, RunTypeOK, Phase
  <1>18. CASE WrapperIsKilled(w)
    BY <1>18, <1>a, RunAssumption DEF WrapperIsKilled, Both, RunningPublished, Enters, RunTypeOK,
       Phase
  <1> QED
    BY <1>1, <1>2, <1>3, <1>4, <1>5, <1>6, <1>7, <1>8, <1>9, <1>10, <1>11, <1>12, <1>13, <1>14,
       <1>15, <1>16, <1>17, <1>18 DEF Acts, BridgeStep

LEMMA ViewIsHeldStep ==
  ASSUME RunTypeOK, ChildSteps, ViewIsHeld, NEW w \in Runner, Acts(w)
  PROVE  ViewIsHeld'
  <1> SUFFICES ASSUME NEW v \in Bridge, view.gen = v
        PROVE  /\ view.owner \in {NoOne, Wrapper(v), Child(v)}
               /\ view.owner = Wrapper(v) => phase'[v] \in {"running", "closing", "gone"}
               /\ phase'[v] \in {"running", "blocking", "closing", "gone"}
               /\ child'[v] = "live" => group'.gen = v /\ group'.out /\ Child(v) \in group'.names
    BY OthersStay DEF ViewIsHeld, Wrapper, Child
  <1>0. /\ view.owner \in {NoOne, Wrapper(v), Child(v)}
        /\ view.owner = Wrapper(v) => phase[v] \in {"running", "closing", "gone"}
        /\ phase[v] \in {"running", "blocking", "closing", "gone"}
        /\ child[v] = "live" => group.gen = v /\ group.out /\ Child(v) \in group.names
    BY DEF ViewIsHeld
  <1> DEFINE Goal ==
        /\ view.owner \in {NoOne, Wrapper(v), Child(v)}
        /\ view.owner = Wrapper(v) => phase'[v] \in {"running", "closing", "gone"}
        /\ phase'[v] \in {"running", "blocking", "closing", "gone"}
        /\ child'[v] = "live" => group'.gen = v /\ group'.out /\ Child(v) \in group'.names
  <1>b. CASE v # w
    <2>1. phase'[v] = phase[v] /\ child'[v] = child[v]
      BY <1>b, PhasesMove, OthersStay DEF Advances, Runner
    <2>2. child[v] = "live" => group' = group
      BY <1>0, <1>b, LiveFilesStay
    <2> QED
      BY <1>0, <2>1, <2>2
  <1>a. SUFFICES ASSUME v = w PROVE Goal
    BY <1>b
  <1>1. CASE PublishGroup(w)
    BY <1>1, <1>a, <1>0, RunAssumption DEF PublishGroup, ChildSteps, During, Enters, RunTypeOK,
       Phase
  <1>2. CASE Spawn(w)
    BY <1>2, <1>a, <1>0, RunAssumption DEF Spawn, ChildSteps, During, Enters, RunTypeOK, Phase
  <1>3. CASE SpawnFails(w)
    BY <1>3, <1>a, <1>0, RunAssumption DEF SpawnFails, ChildSteps, During, Enters, RunTypeOK, Phase
  <1>4. CASE OpenOutput(w)
    BY <1>4, <1>a, <1>0, RunAssumption DEF OpenOutput, ChildSteps, During, Enters, RunTypeOK, Phase
  <1>5. CASE Announce(w)
    BY <1>5, <1>a, <1>0, RunAssumption DEF Announce, ChildSteps, During, Enters, RunTypeOK, Phase
  <1>6. CASE StopChild(w)
    BY <1>6, <1>a, <1>0, RunAssumption DEF StopChild, ChildSteps, During, Enters, RunTypeOK, Phase
  <1>7. CASE RecordFailure(w)
    BY <1>7, <1>a, <1>0, RunAssumption DEF RecordFailure, ChildSteps, During, Enters, RunTypeOK,
       Phase
  <1>8. CASE BlockRow(w)
    BY <1>8, <1>a, <1>0, RunAssumption DEF BlockRow, ChildSteps, During, Enters, RunTypeOK, Phase
  <1>9. CASE RemoveGroup(w)
    BY <1>9, <1>a, <1>0, RunAssumption DEF RemoveGroup, ChildSteps, During, Enters, RunTypeOK, Phase
  <1>10. CASE LeaseTimesOut(w)
    BY <1>10, <1>a, <1>0, RunAssumption DEF LeaseTimesOut, ChildSteps, During, Enters, RunTypeOK,
       Phase
  <1>11. CASE Look(w)
    BY <1>11, <1>a, <1>0, RunAssumption DEF Look, ChildSteps, During, Enters, RunTypeOK, Phase
  <1>12. CASE Register(w)
    BY <1>12, <1>a, <1>0, RunAssumption DEF Register, ChildSteps, During, Enters, RunTypeOK, Phase
  <1>13. CASE StartChild(w)
    BY <1>13, <1>a, <1>0, RunAssumption DEF StartChild, ChildSteps, During, Enters, RunTypeOK, Phase
  <1>14. CASE Finish(w)
    BY <1>14, <1>a, <1>0, RunAssumption DEF Finish, ChildSteps, During, Enters, RunTypeOK, Phase
  <1>15. CASE ExitHeard(w)
    BY <1>15, <1>a, <1>0, RunAssumption DEF ExitHeard, ChildSteps, During, Enters, RunTypeOK, Phase
  <1>16. CASE CloseRow(w)
    BY <1>16, <1>a, <1>0, RunAssumption DEF CloseRow, ChildSteps, During, Enters, RunTypeOK, Phase
  <1>17. CASE ChildExits(w)
    BY <1>17, <1>a, <1>0, RunAssumption DEF ChildExits, ChildSteps, During, Enters, RunTypeOK, Phase
  <1>18. CASE WrapperIsKilled(w)
    BY <1>18, <1>a, <1>0, RunAssumption DEF WrapperIsKilled, ChildSteps, During, Enters,
       RunTypeOK, Phase
  <1> QED
    BY <1>1, <1>2, <1>3, <1>4, <1>5, <1>6, <1>7, <1>8, <1>9, <1>10, <1>11, <1>12, <1>13, <1>14,
       <1>15, <1>16, <1>17, <1>18 DEF Acts, BridgeStep

\* The web runtime adopts what an announced wrapper left, and clears the dead.
LEMMA WebStep ==
  ASSUME RunTypeOK, ChildSteps, GroupShape, RunningPublished, ViewIsHeld, WebActs
  PROVE  GroupShape' /\ RunningPublished' /\ ViewIsHeld'
  <1>1. GroupShape'
    BY WebKeeps, GroupsAreTyped, RunAssumption DEF GroupShape, Both, Runner, Wrapper, Child
  <1>2. RunningPublished'
    <2> SUFFICES ASSUME NEW v \in Bridge, phase[v] = "running"
                 PROVE  group' = Group(v, Both(v), TRUE)
      BY WebKeeps DEF RunningPublished, Both, Group, Wrapper, Child
    <2>1. group = Group(v, Both(v), TRUE)
      BY DEF RunningPublished
    <2>2. Wrapper(v) \in group.names
      BY <2>1 DEF Group, Both
    <2> QED
      BY <2>1, <2>2, WebClearsTheDead, AliveMeans DEF Runner
  <1>3. ViewIsHeld'
    <2>1. CASE view' = NoView
      BY <2>1, ViewsAreTyped, RunAssumption DEF ViewIsHeld, Runner
    <2>2. CASE view' # NoView
      <3>1. group.out /\ ~Publishing /\ view' = View(group.gen, OwnerInRow) /\ group' = group
        BY <2>2 DEF WebActs, Adopt, Reconcile, WebRestarts
      <3> SUFFICES ASSUME NEW v \in Bridge, group.gen = v
            PROVE  /\ OwnerInRow \in {NoOne, Wrapper(v), Child(v)}
                   /\ OwnerInRow = Wrapper(v) => phase[v] \in {"running", "closing", "gone"}
                   /\ phase[v] \in {"running", "blocking", "closing", "gone"}
                   /\ child[v] = "live" => Child(v) \in group.names
        BY <3>1, WebKeeps, ViewsAreTyped DEF ViewIsHeld, Wrapper, Child
      <3>2. group.names \in {{Child(v)}, Both(v)}
        BY <3>1 DEF GroupShape, Publishing
      <3>3. OwnerInRow \in {NoOne, Wrapper(v), Child(v)}
        BY DEF OwnerInRow
      <3>4. OwnerInRow = Wrapper(v) => Wrapper(v) \in group.names
        BY ProcessesDiffer DEF OwnerInRow, Runner
      <3>5. Wrapper(v) \in group.names => group.names = Both(v)
        BY <3>2, ProcessesDiffer
      <3> QED
        BY <3>2, <3>3, <3>4, <3>5 DEF GroupShape, Both
    <2> QED
      BY <2>1, <2>2
  <1> QED
    BY <1>1, <1>2, <1>3

-----------------------------------------------------------------------------
(* The row                                                                 *)

LEMMA DeadRowIsFree == "dead" \in RowStates => FindsFree(row)
  <1> SUFFICES ASSUME "dead" \in RowStates, NEW v \in Runner
               PROVE  /\ InSession(v) => row # Row(Wrapper(v), "running")
                      /\ child[v] = "live" => row # Row(Child(v), "blocked")
    BY DEF FindsFree
  <1>1. ASSUME InSession(v), row = Row(Wrapper(v), "running") PROVE FALSE
    <2>1. row.who = Wrapper(v) /\ row.status = "running" /\ row # NoRow
      BY <1>1, RowsAreTyped DEF NoRow, Row
    <2> QED
      BY <1>1, <2>1, DeadRowIsDead, AliveMeans DEF InSession
  <1>2. ASSUME child[v] = "live", row = Row(Child(v), "blocked") PROVE FALSE
    <2>1. row.who = Child(v) /\ row.status = "blocked" /\ row # NoRow
      BY <1>2, RowsAreTyped DEF NoRow, Row
    <2> QED
      BY <1>2, <2>1, DeadRowIsDead, AliveMeans
  <1> QED
    BY <1>1, <1>2

\* How a wrapper's step moves it, as far as the row can tell.
LEMMA StepsOfOne ==
  ASSUME RunTypeOK, ChildSteps, NEW w \in Runner, Acts(w)
  PROVE  /\ phase'[w] \in {"none", "looked"} => phase[w] \in {"none", "looked"} /\ row' = row
         /\ InSession(w)' =>
              \/ InSession(w) /\ row' = row
              \/ phase[w] \in {"none", "looked"} /\ row' = Row(Wrapper(w), "running")
         /\ child'[w] = "none" => child[w] = "none"
         /\ child'[w] = "live" =>
              \/ child[w] = "live"
              \/ child[w] = "none" /\ InSession(w)'
         /\ child'[w] = "live" /\ w \notin lost' =>
              \/ InSession(w)'
              \/ phase[w] = "blocking" /\ row.who = Wrapper(w) /\ row' = Row(Child(w), "blocked") /\ phase'[w] = "gone"
              \/ phase[w] = "blocking" /\ row.who # Wrapper(w)
              \/ phase[w] = "gone" /\ phase'[w] = "gone" /\ row' = row
  <1>1. CASE w \in Bridge /\ PublishGroup(w)
    BY <1>1 DEF PublishGroup, InSession, ChildSteps, Starting, During, Enters, RunTypeOK, Phase,
       PreservesEvidence, RowIsAsSeen
  <1>2. CASE w \in Bridge /\ Spawn(w)
    BY <1>2 DEF Spawn, InSession, ChildSteps, Starting, During, Enters, RunTypeOK, Phase,
       PreservesEvidence, RowIsAsSeen
  <1>3. CASE w \in Bridge /\ SpawnFails(w)
    BY <1>3 DEF SpawnFails, InSession, ChildSteps, Starting, During, Enters, RunTypeOK, Phase,
       PreservesEvidence, RowIsAsSeen
  <1>4. CASE w \in Bridge /\ OpenOutput(w)
    BY <1>4 DEF OpenOutput, InSession, ChildSteps, Starting, During, Enters, RunTypeOK, Phase,
       PreservesEvidence, RowIsAsSeen
  <1>5. CASE w \in Bridge /\ Announce(w)
    BY <1>5 DEF Announce, InSession, ChildSteps, Starting, During, Enters, RunTypeOK, Phase,
       PreservesEvidence, RowIsAsSeen
  <1>6. CASE w \in Bridge /\ StopChild(w)
    BY <1>6 DEF StopChild, InSession, ChildSteps, Starting, During, Enters, RunTypeOK, Phase,
       PreservesEvidence, RowIsAsSeen
  <1>7. CASE w \in Bridge /\ RecordFailure(w)
    BY <1>7 DEF RecordFailure, InSession, ChildSteps, Starting, During, Enters, RunTypeOK, Phase,
       PreservesEvidence, RowIsAsSeen
  <1>8. CASE w \in Bridge /\ BlockRow(w)
    BY <1>8 DEF BlockRow, InSession, ChildSteps, Starting, During, Enters, RunTypeOK, Phase,
       PreservesEvidence, RowIsAsSeen
  <1>9. CASE w \in Bridge /\ RemoveGroup(w)
    BY <1>9 DEF RemoveGroup, InSession, ChildSteps, Starting, During, Enters, RunTypeOK, Phase,
       PreservesEvidence, RowIsAsSeen
  <1>10. CASE w \in Bridge /\ LeaseTimesOut(w)
    BY <1>10 DEF LeaseTimesOut, InSession, ChildSteps, Starting, During, Enters, RunTypeOK, Phase,
       PreservesEvidence, RowIsAsSeen
  <1>11. CASE w \in Plain /\ Look(w)
    BY <1>11 DEF Look, InSession, ChildSteps, Starting, During, Enters, RunTypeOK, Phase,
       PreservesEvidence, RowIsAsSeen
  <1>12. CASE w \in Plain /\ Register(w)
    BY <1>12 DEF Register, InSession, ChildSteps, Starting, During, Enters, RunTypeOK, Phase,
       PreservesEvidence, RowIsAsSeen
  <1>13. CASE w \in Plain /\ StartChild(w)
    BY <1>13 DEF StartChild, InSession, ChildSteps, Starting, During, Enters, RunTypeOK, Phase,
       PreservesEvidence, RowIsAsSeen
  <1>14. CASE w \in Plain /\ Finish(w)
    BY <1>14 DEF Finish, InSession, ChildSteps, Starting, During, Enters, RunTypeOK, Phase,
       PreservesEvidence, RowIsAsSeen
  <1>15. CASE ExitHeard(w)
    BY <1>15 DEF ExitHeard, InSession, ChildSteps, Starting, During, Enters, RunTypeOK, Phase,
       PreservesEvidence, RowIsAsSeen
  <1>16. CASE CloseRow(w)
    BY <1>16 DEF CloseRow, InSession, ChildSteps, Starting, During, Enters, RunTypeOK, Phase,
       PreservesEvidence, RowIsAsSeen
  <1>17. CASE ChildExits(w)
    BY <1>17 DEF ChildExits, InSession, ChildSteps, Starting, During, Enters, RunTypeOK, Phase,
       PreservesEvidence, RowIsAsSeen
  <1>18. CASE WrapperIsKilled(w)
    BY <1>18 DEF WrapperIsKilled, InSession, ChildSteps, Starting, During, Enters, RunTypeOK,
       Phase, PreservesEvidence, RowIsAsSeen
  <1> QED
    BY <1>1, <1>2, <1>3, <1>4, <1>5, <1>6, <1>7, <1>8, <1>9, <1>10, <1>11, <1>12, <1>13, <1>14,
       <1>15, <1>16, <1>17, <1>18 DEF Acts, BridgeStep

\* A row that stops nobody stops nobody later, unless it names a newcomer.
LEMMA FreeStays ==
  ASSUME RunTypeOK, ChildSteps, NEW w \in Runner, Acts(w), NEW r, FindsFree(r),
         phase[w] \in {"none", "looked"} => r.who # Wrapper(w),
         child[w] = "none" => r.who # Child(w)
  PROVE  FindsFree(r)'
  <1> SUFFICES ASSUME NEW v \in Runner
               PROVE  /\ InSession(v)' => r # Row(Wrapper(v), "running")
                      /\ child'[v] = "live" => r # Row(Child(v), "blocked")
    BY DEF FindsFree, Row, Wrapper, Child
  <1>1. CASE v # w
    BY <1>1, PhasesMove, OthersStay DEF FindsFree, Advances, InSession
  <1>2. CASE v = w
    <2>1. r.who # Wrapper(w) => r # Row(Wrapper(w), "running")
      BY DEF Row
    <2>2. r.who # Child(w) => r # Row(Child(w), "blocked")
      BY DEF Row
    <2>3. phase[w] \in {"none", "looked"} \/ (InSession(w)' => InSession(w))
      BY StepsOfOne
    <2>4. child[w] = "none" \/ (child'[w] = "live" => child[w] = "live")
      BY StepsOfOne
    <2> QED
      BY <1>2, <2>1, <2>2, <2>3, <2>4 DEF FindsFree
  <1> QED
    BY <1>1, <1>2

LEMMA NotYetNamedStep ==
  ASSUME RunTypeOK, ChildSteps, NotYetNamed, NEW w \in Runner, Acts(w)
  PROVE  NotYetNamed'
  <1> SUFFICES ASSUME NEW v \in Runner
               PROVE  /\ phase'[v] \in {"none", "looked"} => ~Named(Wrapper(v))'
                      /\ child'[v] = "none" => ~Named(Child(v))'
    BY DEF NotYetNamed, Wrapper, Child
  <1>1. /\ phase'[v] \in {"none", "looked"} =>
             phase[v] \in {"none", "looked"} /\ (v = w => row' = row)
        /\ child'[v] = "none" => child[v] = "none"
    BY StepsOfOne, PhasesMove, OthersStay DEF Advances
  <1>2. row'.who \in {row.who, Wrapper(w)} \/ (row'.who = Child(w) /\ phase[w] = "blocking")
    BY RowsStay, RowsAreTyped
  <1>3. \A x \in Plain : seen'[x].row \in {row, seen[x].row}
    BY SightsStay
  <1>4. ASSUME phase'[v] \in {"none", "looked"} PROVE ~Named(Wrapper(v))'
    <2>1. ~Named(Wrapper(v))
      BY <1>1, <1>4 DEF NotYetNamed
    <2>2. row'.who # Wrapper(v)
      BY <1>1, <1>2, <1>4, <2>1, ProcessesDiffer DEF Named
    <2> QED
      BY <1>3, <2>1, <2>2 DEF Named, Wrapper
  <1>5. ASSUME child'[v] = "none" PROVE ~Named(Child(v))'
    <2>1. ~Named(Child(v))
      BY <1>1, <1>5 DEF NotYetNamed
    <2>2. phase[w] = "blocking" => child[w] # "none"
      BY DEF ChildSteps, During
    <2>3. row'.who # Child(v)
      BY <1>1, <1>2, <1>5, <2>1, <2>2, ProcessesDiffer DEF Named
    <2> QED
      BY <1>3, <2>1, <2>3 DEF Named, Child
  <1> QED
    BY <1>4, <1>5

\* Who has looked, looked before or in this step.
LEMMA StepLooks ==
  ASSUME RunTypeOK, NEW w \in Plain, Acts(w), phase'[w] = "looked"
  PROVE  phase[w] = "looked" \/ (seen'[w].row = row /\ seen'[w].state \in RowStates)
  <1>1. CASE PublishGroup(w)
    BY <1>1 DEF PublishGroup, Enters, RunTypeOK, Phase
  <1>2. CASE Spawn(w)
    BY <1>2 DEF Spawn, Enters, RunTypeOK, Phase
  <1>3. CASE SpawnFails(w)
    BY <1>3 DEF SpawnFails, Enters, RunTypeOK, Phase
  <1>4. CASE OpenOutput(w)
    BY <1>4 DEF OpenOutput, Enters, RunTypeOK, Phase
  <1>5. CASE Announce(w)
    BY <1>5 DEF Announce, Enters, RunTypeOK, Phase
  <1>6. CASE StopChild(w)
    BY <1>6 DEF StopChild, Enters, RunTypeOK, Phase
  <1>7. CASE RecordFailure(w)
    BY <1>7 DEF RecordFailure, Enters, RunTypeOK, Phase
  <1>8. CASE BlockRow(w)
    BY <1>8 DEF BlockRow, Enters, RunTypeOK, Phase
  <1>9. CASE RemoveGroup(w)
    BY <1>9 DEF RemoveGroup, Enters, RunTypeOK, Phase
  <1>10. CASE LeaseTimesOut(w)
    BY <1>10 DEF LeaseTimesOut, Enters, RunTypeOK, Phase
  <1>11. CASE Look(w)
    <2>1. PICK s \in RowStates : seen' = [seen EXCEPT ![w].row = row, ![w].state = s]
      BY <1>11 DEF Look
    <2>2. seen'[w].row = row /\ seen'[w].state = s
      BY <2>1 DEF RunTypeOK, Sights
    <2> QED
      BY <2>1, <2>2
  <1>12. CASE Register(w)
    BY <1>12 DEF Register, Enters, RunTypeOK, Phase
  <1>13. CASE StartChild(w)
    BY <1>13 DEF StartChild, Enters, RunTypeOK, Phase
  <1>14. CASE Finish(w)
    BY <1>14 DEF Finish, Enters, RunTypeOK, Phase
  <1>15. CASE ExitHeard(w)
    BY <1>15 DEF ExitHeard, Enters, RunTypeOK, Phase
  <1>16. CASE CloseRow(w)
    BY <1>16 DEF CloseRow, Enters, RunTypeOK, Phase
  <1>17. CASE ChildExits(w)
    BY <1>17 DEF ChildExits, Enters, RunTypeOK, Phase
  <1>18. CASE WrapperIsKilled(w)
    BY <1>18 DEF WrapperIsKilled, Enters, RunTypeOK, Phase
  <1> QED
    BY <1>1, <1>2, <1>3, <1>4, <1>5, <1>6, <1>7, <1>8, <1>9, <1>10, <1>11, <1>12, <1>13, <1>14,
       <1>15, <1>16, <1>17, <1>18 DEF Acts, BridgeStep

LEMMA SeenIsDeadStep ==
  ASSUME RunTypeOK, ChildSteps, NotYetNamed, SeenIsDead, NEW w \in Runner, Acts(w)
  PROVE  SeenIsDead'
  <1> SUFFICES ASSUME NEW x \in Plain, phase'[x] = "looked", seen'[x].state = "dead"
               PROVE  FindsFree(seen[x].row)'
    BY DEF SeenIsDead, FindsFree, Row, Wrapper, Child
  <1>1. FindsFree(seen'[x].row) /\ seen'[x].row \in {row, seen[x].row}
    <2>1. CASE seen'[x].row = seen[x].row /\ seen'[x].state = seen[x].state /\ phase[x] = "looked"
      BY <2>1 DEF SeenIsDead
    <2>2. CASE x = w /\ seen'[w].row = row /\ seen'[w].state \in RowStates
      BY <2>2, DeadRowIsFree
    <2>3. x # w => phase[x] = "looked"
      BY PhasesMove DEF Advances, Runner
    <2>4. x = w => phase[x] = "looked" \/ (seen'[w].row = row /\ seen'[w].state \in RowStates)
      BY StepLooks
    <2>5. x # w => seen'[x].row = seen[x].row /\ seen'[x].state = seen[x].state
      BY SightsStay
    <2>6. x = w => \/ seen'[x].row = seen[x].row /\ seen'[x].state = seen[x].state
                   \/ seen'[w].row = row /\ seen'[w].state \in RowStates
      BY SightsStay
    <2> QED
      BY <2>1, <2>2, <2>3, <2>4, <2>5, <2>6
  <1>2. /\ phase[w] \in {"none", "looked"} => seen'[x].row.who # Wrapper(w)
        /\ child[w] = "none" => seen'[x].row.who # Child(w)
    BY <1>1 DEF NotYetNamed, Named
  <1>3. PICK r : r = seen'[x].row
    OBVIOUS
  <1>4. FindsFree(r)'
    BY <1>1, <1>2, <1>3, FreeStays
  <1> QED
    BY <1>3, <1>4 DEF FindsFree, Row, Wrapper, Child

LEMMA SessionNamedStep ==
  ASSUME RunTypeOK, ChildSteps, SessionNamed, SeenIsDead, NEW w \in Runner, Acts(w)
  PROVE  SessionNamed'
  <1> SUFFICES ASSUME NEW v \in Runner, InSession(v)' PROVE row' = Row(Wrapper(v), "running")
    BY DEF SessionNamed, Row, Wrapper
  <1>1. CASE v = w
    BY <1>1, StepsOfOne DEF SessionNamed
  <1>2. CASE v # w
    <2>1. InSession(v)
      BY <1>2, PhasesMove DEF Advances, InSession
    <2>2. row = Row(Wrapper(v), "running") /\ row.who = Wrapper(v)
      BY <2>1 DEF SessionNamed, Row
    <2>3. ~FindsFree(row)
      BY <2>1, <2>2 DEF FindsFree
    <2>4. row' = row
      BY <1>2, <2>2, <2>3, RowsStay, DeadRowIsFree, ProcessesDiffer DEF SeenIsDead
    <2> QED
      BY <2>2, <2>4
  <1> QED
    BY <1>1, <1>2

LEMMA LiveChildNamedStep ==
  ASSUME RunTypeOK, ChildSteps, SessionNamed, SeenIsDead, LiveChildNamed,
         NEW w \in Runner, Acts(w)
  PROVE  LiveChildNamed'
  <1> SUFFICES ASSUME NEW v \in Runner, v \notin lost', child'[v] = "live", ~InSession(v)'
               PROVE  phase'[v] = "gone" /\ row' = Row(Child(v), "blocked")
    BY DEF LiveChildNamed, Row, Child
  <1>1. CASE v # w
    <2>1. v \notin lost /\ child[v] = "live" /\ phase'[v] = phase[v] /\ ~InSession(v)
      BY <1>1, PhasesMove, OthersStay DEF Advances, InSession
    <2>2. phase[v] = "gone" /\ row = Row(Child(v), "blocked")
      BY <2>1 DEF LiveChildNamed
    <2>3. row.who = Child(v) /\ ~FindsFree(row)
      BY <2>1, <2>2 DEF FindsFree, Row
    <2>4. row' = row
      BY <2>3, RowsStay, DeadRowIsFree, ProcessesDiffer DEF SeenIsDead
    <2> QED
      BY <2>1, <2>2, <2>4
  <1>2. CASE v = w
    <2>1. phase[w] = "blocking" => row.who = Wrapper(w)
      BY DEF SessionNamed, InSession, Row
    <2>2. w \notin lost
      BY <1>2, OthersStay
    <2>3. \/ phase[w] = "blocking" /\ row' = Row(Child(w), "blocked") /\ phase'[w] = "gone"
          \/ phase[w] = "gone" /\ phase'[w] = "gone" /\ row' = row
      BY <1>2, <2>1, StepsOfOne
    <2>4. phase[w] = "gone" => child[w] = "live"
      BY <1>2, StepsOfOne DEF InSession
    <2> QED
      BY <1>2, <2>2, <2>3, <2>4 DEF LiveChildNamed, InSession
  <1> QED
    BY <1>1, <1>2

\* The web runtime closes only the row of a session it held, once that is over.
LEMMA WebClosesRows ==
  ASSUME RunTypeOK, RunningPublished, ViewIsHeld, WebActs, row' # row
  PROVE  /\ row' = Row(row.who, "exited") /\ row.who \in RunProcess
         /\ \E v \in Bridge : /\ row.who \in {Wrapper(v), Child(v)}
                             /\ child[v] # "live" /\ (row.who = Wrapper(v) => ~InSession(v))
  <1>1. /\ row' = Row(row.who, "exited") /\ row.who \in RunProcess /\ row.who = view.owner
    BY WebKeeps
  <1>2. /\ view # NoView
        /\ \/ group = NoGroup
           \/ group.gen = view.gen /\ (~group.out \/ "dead" \in GroupStates)
    BY DEF WebActs, Adopt, Reconcile, WebRestarts
  <1>3. view.gen \in Bridge
    BY <1>2 DEF RunTypeOK, Views
  <1> DEFINE v == view.gen
  <1>4. row.who \in {Wrapper(v), Child(v)}
    BY <1>1, <1>3, RunAssumption DEF ViewIsHeld
  <1>5. child[v] # "live"
    <2> SUFFICES ASSUME child[v] = "live" PROVE FALSE
      OBVIOUS
    <2>1. group.gen = v /\ group.out /\ Child(v) \in group.names
      BY <1>3 DEF ViewIsHeld
    <2>2. group # NoGroup
      BY <2>1, GroupsAreTyped
    <2> QED
      BY <1>2, <1>3, <2>1, <2>2, DeadGroupIsDead, AliveMeans DEF Runner
  <1>6. row.who = Wrapper(v) => ~InSession(v)
    <2> SUFFICES ASSUME row.who = Wrapper(v), InSession(v) PROVE FALSE
      OBVIOUS
    <2>1. phase[v] = "running"
      BY <1>1, <1>3 DEF ViewIsHeld, InSession
    <2>2. group = Group(v, Both(v), TRUE)
      BY <1>3, <2>1 DEF RunningPublished
    <2>3. group.out /\ Wrapper(v) \in group.names /\ group # NoGroup
      BY <2>2 DEF Group, Both, NoGroup
    <2> QED
      BY <1>2, <1>3, <2>1, <2>3, DeadGroupIsDead, AliveMeans DEF Runner
  <1> QED
    BY <1>1, <1>3, <1>4, <1>5, <1>6

LEMMA WebRowStep ==
  ASSUME RunInv, WebActs
  PROVE  ChildSteps' /\ SessionNamed' /\ NotYetNamed' /\ SeenIsDead' /\ LiveChildNamed'
  <1> USE DEF RunInv
  <1>1. UNCHANGED <<phase, child, exit, learned, seen, lost>> /\ row'.who = row.who
    BY WebKeeps, RowsAreTyped
  <1>2. SessionNamed'
    <2> SUFFICES ASSUME NEW w \in Runner, InSession(w) PROVE row' = Row(Wrapper(w), "running")
      BY <1>1 DEF SessionNamed, InSession, Row, Wrapper
    <2>1. row = Row(Wrapper(w), "running") /\ row.who = Wrapper(w)
      BY DEF SessionNamed, Row
    <2> QED
      BY <2>1, WebClosesRows, ProcessesDiffer
  <1>3. LiveChildNamed'
    <2> SUFFICES ASSUME NEW w \in Runner, w \notin lost, child[w] = "live", ~InSession(w)
                 PROVE  phase[w] = "gone" /\ row' = Row(Child(w), "blocked")
      BY <1>1 DEF LiveChildNamed, InSession, Row, Child
    <2>1. phase[w] = "gone" /\ row = Row(Child(w), "blocked") /\ row.who = Child(w)
      BY DEF LiveChildNamed, Row
    <2> QED
      BY <2>1, WebClosesRows, ProcessesDiffer
  <1>4. NotYetNamed'
    BY <1>1 DEF NotYetNamed, Named, Wrapper, Child
  <1>5. SeenIsDead'
    BY <1>1 DEF SeenIsDead, FindsFree, InSession, Row, Wrapper, Child
  <1>6. ChildSteps'
    BY <1>1 DEF ChildSteps, Starting, During
  <1> QED
    BY <1>2, <1>3, <1>4, <1>5, <1>6

-----------------------------------------------------------------------------
(* The theorems                                                            *)

LEMMA RunInvStep == RunInv /\ [RunNext]_runVars => RunInv'
  <1> SUFFICES ASSUME RunInv, [RunNext]_runVars PROVE RunInv'
    OBVIOUS
  <1>0. RunTypeOK'
    BY TypeStep DEF RunInv
  <1>1. ASSUME NEW w \in Runner, Acts(w) PROVE RunInv'
    BY <1>0, <1>1, ChildStepsStep, GroupShapeStep, RunningPublishedStep, ViewIsHeldStep,
       NotYetNamedStep, SeenIsDeadStep, SessionNamedStep, LiveChildNamedStep DEF RunInv
  <1>2. CASE WebActs
    BY <1>0, <1>2, WebStep, WebRowStep DEF RunInv
  <1>3. CASE UNCHANGED runVars
    <2>1. UNCHANGED <<phase, child, exit, learned, seen, lost, row, group, view>>
      BY <1>3 DEF runVars, wrappers
    <2>2. ChildSteps' /\ SessionNamed' /\ NotYetNamed' /\ SeenIsDead' /\ LiveChildNamed'
      BY <2>1 DEF RunInv, ChildSteps, Starting, During, SessionNamed, InSession, NotYetNamed, Named,
                  SeenIsDead, FindsFree, LiveChildNamed, Row, Wrapper, Child
    <2>3. GroupShape' /\ RunningPublished' /\ ViewIsHeld'
      BY <2>1 DEF RunInv, GroupShape, RunningPublished, ViewIsHeld, Both, Group, Wrapper, Child
    <2> QED
      BY <1>0, <2>2, <2>3 DEF RunInv
  <1> QED
    BY <1>1, <1>2, <1>3, EveryStepActs

LEMMA RunInvAlways == RunSpec => []RunInv
  BY RunInvInit, RunInvStep, PTL DEF RunSpec

(* The state of each wrapper, the row, the files and the view have their   *)
(* types (cli/commands/run.mjs, web/external-sessions.mjs).                *)
THEOREM RunTypeCorrect == RunSpec => []RunTypeOK
  <1>1. RunInv => RunTypeOK
    BY DEF RunInv
  <1> QED
    BY <1>1, RunInvAlways, PTL

(* Whatever the order in which wrappers of either sort start, fail and die,*)
(* two of them never hold the peer at once.                                *)
THEOREM OneAtATime == RunSpec => []OneSession
  <1>1. RunInv => OneSession
    BY ProcessesDiffer DEF RunInv, SessionNamed, OneSession, Row
  <1> QED
    BY <1>1, RunInvAlways, PTL

(* A child that lives keeps the next session out, if its wrapper was there *)
(* to record it.                                                           *)
THEOREM LiveChildrenCount == RunSpec => []LiveChildHoldsPeer
  <1>1. RunInv => LiveChildHoldsPeer
    <2> SUFFICES ASSUME RunInv, NEW w \in Runner \ lost, child[w] = "live" PROVE ~FindsFree(row)
      BY DeadRowIsFree DEF LiveChildHoldsPeer
    <2> QED
      BY DEF RunInv, LiveChildNamed, SessionNamed, FindsFree
  <1> QED
    BY <1>1, RunInvAlways, PTL

(* The files of a session go by its own wrapper, or with all they name.    *)
THEOREM FilesAreKept == RunSpec => LiveGroupIsKept
  <1>1. RunInv /\ [RunNext]_runVars => [GroupChangesHands]_runVars
    <2> SUFFICES ASSUME RunInv, RunNext, group # NoGroup, group'.gen # group.gen
                 PROVE  \/ \A p \in group.names : ~IsAlive(p)
                        \/ phase[group.gen] # phase'[group.gen]
      BY DEF GroupChangesHands
    <2>1. ASSUME NEW w \in Runner, Acts(w)
          PROVE  \/ \A p \in group.names : ~IsAlive(p)
                 \/ phase[group.gen] # phase'[group.gen]
      BY <2>1, FilesAreTheirs DEF RunInv, OwnsGroup
    <2>2. CASE WebActs
      BY <2>2, WebClearsTheDead DEF RunInv
    <2> QED
      BY <2>1, <2>2, EveryStepActs
  <1> QED
    BY <1>1, RunInvAlways, PTL DEF RunSpec, LiveGroupIsKept

(* A row is closed by the wrapper it names or for its own session, over by *)
(* then: not for one that took the peer over.                              *)
THEOREM ExitsAreTrue == RunSpec => ExitIsTrue
  <1>1. RunInv /\ [RunNext]_runVars => [ExitsTruly]_runVars
    <2> SUFFICES ASSUME RunInv, RunNext, row'.status = "exited", row.status # "exited"
                 PROVE  row'.who = row.who /\ child[row.who[1]] # "live"
      BY DEF ExitsTruly
    <2>1. ASSUME NEW w \in Runner, Acts(w)
          PROVE  row'.who = row.who /\ child[row.who[1]] # "live"
      <3>1. row' = Row(Wrapper(w), "exited") /\ row.who = Wrapper(w) /\ phase[w] = "closing"
        BY <2>1, RowsStay DEF RunInv, Row
      <3> QED
        BY <3>1, RowsAreTyped, ProcessesDiffer DEF RunInv, ChildSteps
    <2>2. CASE WebActs
      BY <2>2, WebClosesRows, RowsAreTyped, ProcessesDiffer DEF RunInv
    <2> QED
      BY <2>1, <2>2, EveryStepActs
  <1> QED
    BY <1>1, RunInvAlways, PTL DEF RunSpec, ExitIsTrue
=============================================================================
