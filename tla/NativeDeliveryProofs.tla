------------------------- MODULE NativeDeliveryProofs -------------------------
(***************************************************************************)
(* Theorems about NativeDelivery, for any number of messages, submissions, *)
(* daemons and workers, and for every provider.                            *)
(***************************************************************************)
EXTENDS NativeDelivery, FiniteSetTheorems, TLAPS

State == {"none", "queued"} \cup InFlight \cup Settled

-----------------------------------------------------------------------------
(* The rows and what the operators on them do.                             *)

\* Messages are numbers, and none of them is NoMsg.
LEMMA MsgFacts ==
    /\ IsFiniteSet(Msg)
    /\ \A m \in Msg : m \in Nat /\ m # NoMsg
<1>. MaxMessages \in Nat
  BY DeliveryAssumption
<1>1. IsFiniteSet(1..MaxMessages)
  BY FS_Interval
<1>2. QED
  BY <1>1 DEF Msg, NoMsg

\* A row has its type and its fields.
LEMMA RowFacts ==
    ASSUME NEW st \in State, NEW origin \in {"peer", "user"}, NEW id \in Nat
    PROVE  /\ Row(st, origin, id) \in DeliveryRow
           /\ Row(st, origin, id).state = st
           /\ Row(st, origin, id).origin = origin
BY DEF Row, DeliveryRow, State

\* updateDelivery() changes the state of one row and nothing else.
LEMMA UpdateFacts ==
    ASSUME NEW table \in [Msg -> DeliveryRow], NEW m \in Msg, NEW st \in State
    PROVE  /\ Update(table, m, st) \in [Msg -> DeliveryRow]
           /\ \A k \in Msg : k # m => Update(table, m, st)[k] = table[k]
           /\ Update(table, m, st)[m].state = st
           /\ Update(table, m, st)[m].origin = table[m].origin
           /\ table[m].state = st => Update(table, m, st)[m] = table[m]
<1>1. \A k \in Msg : /\ table[k].origin \in {"peer", "user"}
                     /\ table[k].id \in Nat
                     /\ table[k].state \in State
  BY DEF DeliveryRow, State
<1>2. \A k \in Msg : Row(st, table[k].origin, table[k].id) \in DeliveryRow
  BY <1>1, RowFacts
<1>3. Update(table, m, st) \in [Msg -> DeliveryRow]
  BY <1>2 DEF Update
<1>4. /\ \A k \in Msg : k # m => Update(table, m, st)[k] = table[k]
      /\ Update(table, m, st)[m] = Row(st, table[m].origin, table[m].id)
  BY DEF Update
<1>5. table[m].state = st => Row(st, table[m].origin, table[m].id) = table[m]
  BY DEF Row, DeliveryRow
<1>6. QED
  BY <1>1, <1>3, <1>4, <1>5, RowFacts

\* ingest() adds queued rows, with their origin, and leaves every other alone.
LEMMA IngestedFacts ==
    ASSUME TypeOK, NEW new \in SUBSET Msg
    PROVE  /\ Ingested(new) \in [Msg -> DeliveryRow]
           /\ \A m \in Msg :
                \/ Ingested(new)[m] = delivery[m]
                \/ /\ m \in new /\ delivery[m].state = "none"
                   /\ Ingested(new)[m].state = "queued"
                   /\ Ingested(new)[m].origin = Origin(m)
<1>. DEFINE Id(m) == Cardinality(Rows) + Cardinality({ k \in new \ Rows : k <= m })
<1>1. \A m \in Msg : Id(m) \in Nat
  <2>1. IsFiniteSet(Rows)
    BY MsgFacts, FS_Subset DEF Rows
  <2>2. ASSUME NEW m \in Msg PROVE IsFiniteSet({ k \in new \ Rows : k <= m })
    BY MsgFacts, FS_Subset
  <2>3. QED
    BY <2>1, <2>2, FS_CardinalityType
<1>2. \A m \in Msg : Origin(m) \in {"peer", "user"}
  BY DEF Origin
<1>3. \A m \in Msg : /\ Row("queued", Origin(m), Id(m)) \in DeliveryRow
                     /\ Row("queued", Origin(m), Id(m)).state = "queued"
                     /\ Row("queued", Origin(m), Id(m)).origin = Origin(m)
  BY <1>1, <1>2, RowFacts DEF State
<1>4. \A m \in Msg : Ingested(new)[m] = IF m \in new \ Rows
                                        THEN Row("queued", Origin(m), Id(m))
                                        ELSE delivery[m]
  BY DEF Ingested
<1>5. Ingested(new) \in [Msg -> DeliveryRow]
  BY <1>3 DEF Ingested, TypeOK
<1>6. QED
  BY <1>3, <1>4, <1>5 DEF Rows

\* What poll() ingests is messages.
LEMMA NewFacts == TypeOK => New \subseteq Msg /\ Inbox \subseteq Msg
BY DeliveryAssumption DEF TypeOK, New, Inbox, Msg

\* Giving up changes at most the active message's row.
LEMMA GivenUpFacts ==
    ASSUME TypeOK
    PROVE  /\ GivenUp(delivery) \in [Msg -> DeliveryRow]
           /\ \A k \in Msg : k # worker.active => GivenUp(delivery)[k] = delivery[k]
           /\ worker.active \in Msg =>
                /\ GivenUp(delivery)[worker.active].state = "uncertain"
                /\ GivenUp(delivery)[worker.active].origin = delivery[worker.active].origin
<1>1. CASE worker.active = NoMsg
  BY <1>1, MsgFacts DEF GivenUp, TypeOK
<1>2. CASE worker.active \in Msg
  <2>1. "uncertain" \in State
    BY DEF State, Settled
  <2>2. delivery \in [Msg -> DeliveryRow]
    BY DEF TypeOK
  <2>3. GivenUp(delivery) = Update(delivery, worker.active, "uncertain")
    BY <1>2, MsgFacts DEF GivenUp
  <2>4. QED
    BY <1>2, <2>1, <2>2, <2>3, UpdateFacts
<1>3. QED
  BY <1>1, <1>2 DEF TypeOK

\* A worker has its type.
Phase == {"none", "opening", "open", "closing"}
WorkerType == [ phase : Phase, active : Msg \cup {NoMsg}, dispatch : Msg \cup {NoMsg},
                quarantined : BOOLEAN, seen : Nat ]

-----------------------------------------------------------------------------
(* Types.                                                                  *)

\* The parts of TypeOK that most steps leave alone.
MeshTypeOK ==
    /\ last \in 0..MaxMessages /\ gone \subseteq Msg /\ read \subseteq Msg
    /\ intent \in [Sub -> Msg \cup {NoMsg}]
    /\ answered \in [Msg -> Nat]
WorkerTypeOK ==
    /\ worker \in WorkerType
    /\ worker.active # NoMsg => worker.phase = "open"
RowsTypeOK == delivery \in [Msg -> DeliveryRow]
RestTypeOK ==
    /\ binding \in {"none", "native", "other"}
    /\ daemon \in {"down", "up", "stopping"}
    /\ adapter \in {"ready", "busy", "interrupted", "error"}
    /\ run \in [Msg -> {"none", "running", "over"}]
    /\ sent \in [Msg -> Nat]
    /\ used \in [daemons : Nat, workers : Nat]

\* TypeOK is these four.
LEMMA TypeParts == TypeOK <=> MeshTypeOK /\ WorkerTypeOK /\ RowsTypeOK /\ RestTypeOK
BY DEF TypeOK, MeshTypeOK, WorkerTypeOK, RowsTypeOK, RestTypeOK, WorkerType, Phase

\* TypeOK holds at the start.
LEMMA TypeInit == Init => TypeOK
<1>. SUFFICES ASSUME Init PROVE TypeOK
  OBVIOUS
<1>1. MeshTypeOK
  BY DeliveryAssumption DEF Init, MeshTypeOK
<1>2. WorkerTypeOK
  BY DEF Init, WorkerTypeOK, NoWorker, Worker, WorkerType, NoMsg, Phase
<1>3. NoRow \in DeliveryRow
  BY RowFacts DEF NoRow, State
<1>4. RowsTypeOK
  BY <1>3 DEF Init, RowsTypeOK
<1>5. RestTypeOK
  BY DEF Init, RestTypeOK
<1>6. QED
  BY <1>1, <1>2, <1>4, <1>5, TypeParts

\* A step that does not touch mesh.db keeps its types.
LEMMA MeshUnchanged == MeshTypeOK /\ UNCHANGED <<mesh, answered>> => MeshTypeOK'
BY DEF MeshTypeOK, mesh

\* The workers that steps leave behind have their type.
LEMMA WorkersTyped ==
    ASSUME WorkerTypeOK
    PROVE  /\ NoWorker \in WorkerType /\ NoWorker.active = NoMsg
           /\ Closing \in WorkerType /\ Closing.active = NoMsg
           /\ Stopped \in WorkerType /\ Stopped.active = NoMsg
           /\ Free \in WorkerType /\ Free.active = NoMsg
           /\ NoWorker.phase = "none" /\ Closing.phase = "closing"
           /\ Stopped.phase = "closing" /\ Free.phase = "open"
<1>1. /\ worker.dispatch \in Msg \cup {NoMsg} /\ worker.quarantined \in BOOLEAN
      /\ worker.seen \in Nat
  BY DEF WorkerTypeOK, WorkerType
<1>2. /\ "none" \in Phase /\ "open" \in Phase /\ "closing" \in Phase
      /\ NoMsg \in Msg \cup {NoMsg} /\ 0 \in Nat
      /\ TRUE \in BOOLEAN /\ FALSE \in BOOLEAN
  BY DEF Phase
<1>3. QED
  BY <1>1, <1>2 DEF NoWorker, Closing, Stopped, Free, Worker, WorkerType

\* What is over is not running, and nothing else changes.
LEMMA OverFacts ==
    ASSUME RestTypeOK
    PROVE  /\ Over \in [Msg -> {"none", "running", "over"}]
           /\ \A m \in Msg : Over[m] # "running"
BY DEF RestTypeOK, Over

\* What the adapter shows after a turn is a status.
LEMMA AfterTurnType == \A o \in Outcomes : AfterTurn(o) \in {"ready", "interrupted", "error"}
BY DEF Outcomes, AfterTurn

\* Every step keeps what is known of the messages and the answers.
LEMMA MeshTypeStep == TypeOK /\ [Next]_vars => MeshTypeOK'
<1>. SUFFICES ASSUME TypeOK, [Next]_vars PROVE MeshTypeOK'
  OBVIOUS
<1>. MeshTypeOK /\ MaxMessages \in Nat
  BY TypeParts, DeliveryAssumption
<1>1. CASE UNCHANGED <<mesh, answered>>
  BY <1>1, MeshUnchanged
<1>2. CASE PeerSends
  BY <1>2 DEF PeerSends, MeshTypeOK
<1>3. ASSUME NEW m \in Msg, Acknowledge(m) \/ Expire(m) PROVE MeshTypeOK'
  BY <1>3 DEF Acknowledge, Expire, MeshTypeOK
<1>4. ASSUME NEW s \in Sub, NEW torn \in BOOLEAN, Submit(s, torn) PROVE MeshTypeOK'
  <2>1. \/ UNCHANGED <<last, intent>>
        \/ /\ last < MaxMessages /\ last' = last + 1
           /\ intent' = [intent EXCEPT ![s] = last']
    BY <1>4 DEF Submit
  <2>2. UNCHANGED <<gone, read, answered>>
    BY <1>4 DEF Submit
  <2>3. QED
    BY <2>1, <2>2 DEF MeshTypeOK, Msg
<1>5. ASSUME NEW m \in Msg, NEW outcome \in Outcomes, Answer(m, outcome),
             UNCHANGED <<last, gone, intent>>
      PROVE  MeshTypeOK'
  BY <1>5 DEF Answer, MeshTypeOK
<1>6. ASSUME NEW m \in Msg, TurnEnds(m) PROVE MeshTypeOK'
  BY <1>1, <1>5, <1>6 DEF TurnEnds, Completed, EndsUnnoticed
<1>7. ASSUME NEW m \in Msg, NEW outcome \in Outcomes, NEW killed \in BOOLEAN,
             CompletedTorn(m, outcome, killed)
      PROVE  MeshTypeOK'
  BY <1>5, <1>7 DEF CompletedTorn
<1>8. CASE Rebind \/ Start \/ Open \/ Opened \/ OpenFails \/ BeginClose \/ CloseDone
           \/ Shutdown \/ ReleaseStore \/ Crash \/ DirectoryChanged \/ SendRefused \/ HandlerFails
  BY <1>1, <1>8 DEF Rebind, Start, Open, Opened, OpenFails, BeginClose, CloseDone,
     Shutdown, ReleaseStore, Crash, DirectoryChanged, SendRefused, NotHandedOver, HandlerFails
<1>9. CASE Polls
  BY <1>1, <1>9 DEF Polls, PollIngests, PollMissing, PollDispatches
<1>10. ASSUME NEW m \in Msg, Settles(m) \/ Output(m) PROVE MeshTypeOK'
  BY <1>1, <1>10 DEF Settles, SendReturns, SendFails, Output
<1>11. ASSUME NEW torn \in BOOLEAN, Error(torn) PROVE MeshTypeOK'
  BY <1>1, <1>11 DEF Error
<1>12. QED
  BY <1>1, <1>2, <1>3, <1>4, <1>6, <1>7, <1>8, <1>9, <1>10, <1>11 DEF Next, vars, mesh

\* Every step leaves a worker of the type, with an active message only if open.
LEMMA WorkerTypeStep == TypeOK /\ [Next]_vars => WorkerTypeOK'
<1>. SUFFICES ASSUME TypeOK, [Next]_vars PROVE WorkerTypeOK'
  OBVIOUS
<1>. WorkerTypeOK
  BY TypeParts
<1>a. /\ worker.active \in Msg \cup {NoMsg} /\ worker.dispatch \in Msg \cup {NoMsg}
      /\ worker.quarantined \in BOOLEAN /\ worker.seen \in Nat
      /\ worker.phase \in Phase
      /\ last \in Nat
  BY DeliveryAssumption DEF WorkerTypeOK, WorkerType, TypeOK
<1>1. CASE UNCHANGED worker
  BY <1>1 DEF WorkerTypeOK
<1>2. CASE worker' \in {NoWorker, Closing, Stopped, Free}
  BY <1>2, WorkersTyped DEF WorkerTypeOK
<1>3. CASE Open
  BY <1>3, <1>a DEF Open, Worker, WorkerTypeOK, WorkerType, Phase
<1>4. CASE Opened
  BY <1>4, <1>a DEF Opened, Worker, WorkerTypeOK, WorkerType, Phase
<1>5. CASE Polls
  <2>1. CASE PollIngests \/ \E m \in Msg : PollMissing(m)
    <3>1. worker' = Worker("open", worker.active, worker.dispatch, worker.quarantined, last)
      BY <2>1 DEF PollIngests, PollMissing, Seen
    <3>2. QED
      BY <1>a, <3>1 DEF Worker, WorkerTypeOK, WorkerType, Phase
  <2>2. ASSUME NEW m \in Msg, PollDispatches(m) PROVE WorkerTypeOK'
    BY <1>a, <2>2 DEF PollDispatches, Worker, WorkerTypeOK, WorkerType, Phase
  <2>3. QED
    BY <1>5, <2>1, <2>2 DEF Polls
<1>6. CASE DirectoryChanged \/ SendRefused
  <2>1. \/ worker' = Worker("open", worker.active, worker.dispatch, TRUE, worker.seen)
        \/ worker' = Worker("open", NoMsg, NoMsg, TRUE, last)
    BY <1>6 DEF DirectoryChanged, SendRefused, NotHandedOver
  <2>2. CASE worker' = Worker("open", worker.active, worker.dispatch, TRUE, worker.seen)
    BY <1>a, <2>2 DEF Worker, WorkerTypeOK, WorkerType, Phase
  <2>3. CASE worker' = Worker("open", NoMsg, NoMsg, TRUE, last)
    BY <1>a, <2>3 DEF Worker, WorkerTypeOK, WorkerType, Phase
  <2>4. QED
    BY <2>1, <2>2, <2>3
<1>7. ASSUME NEW m \in Msg, Settles(m) PROVE WorkerTypeOK'
  <2>1. CASE SendReturns(m)
    BY <1>a, <2>1 DEF SendReturns, Worker, WorkerTypeOK, WorkerType
  <2>2. ASSUME NEW kind, SendFails(m, kind) PROVE WorkerTypeOK'
    BY <1>a, <2>2 DEF SendFails, Worker, WorkerTypeOK, WorkerType
  <2>3. QED
    BY <1>7, <2>1, <2>2 DEF Settles
<1>8. ASSUME NEW torn \in BOOLEAN, Error(torn) PROVE WorkerTypeOK'
  <2>1. \/ worker' = Stopped
        \/ worker' = Worker("open", NoMsg, worker.dispatch, TRUE, worker.seen)
    BY <1>8 DEF Error
  <2>2. CASE worker' = Worker("open", NoMsg, worker.dispatch, TRUE, worker.seen)
    BY <1>a, <2>2 DEF Worker, WorkerTypeOK, WorkerType, Phase
  <2>3. QED
    BY <1>2, <2>1, <2>2
<1>9. ASSUME NEW m \in Msg, Output(m) \/ TurnEnds(m) PROVE WorkerTypeOK'
  BY <1>1, <1>2, <1>9 DEF Output, TurnEnds, Completed, EndsUnnoticed
<1>10. ASSUME NEW m \in Msg, NEW outcome \in Outcomes, NEW killed \in BOOLEAN,
              CompletedTorn(m, outcome, killed)
       PROVE  WorkerTypeOK'
  BY <1>2, <1>10 DEF CompletedTorn
<1>11. CASE OpenFails \/ BeginClose \/ CloseDone \/ Shutdown \/ ReleaseStore \/ Crash \/ HandlerFails
  BY <1>1, <1>2, <1>11 DEF OpenFails, BeginClose, CloseDone, Shutdown, ReleaseStore, Crash,
     HandlerFails
<1>12. ASSUME NEW m \in Msg, Acknowledge(m) \/ Expire(m) PROVE WorkerTypeOK'
  BY <1>1, <1>12 DEF Acknowledge, Expire
<1>13. ASSUME NEW s \in Sub, NEW torn \in BOOLEAN, Submit(s, torn) PROVE WorkerTypeOK'
  BY <1>1, <1>13 DEF Submit
<1>14. CASE PeerSends \/ Rebind \/ Start
  BY <1>1, <1>14 DEF PeerSends, Rebind, Start
<1>15. QED
  BY <1>1, <1>3, <1>4, <1>5, <1>6, <1>7, <1>8, <1>9, <1>10, <1>11, <1>12, <1>13, <1>14
     DEF Next, vars

\* Every step leaves rows of the type.
LEMMA RowsTypeStep == TypeOK /\ [Next]_vars => RowsTypeOK'
<1>. SUFFICES ASSUME TypeOK, [Next]_vars PROVE RowsTypeOK'
  OBVIOUS
<1>. RowsTypeOK /\ delivery \in [Msg -> DeliveryRow]
  BY TypeParts DEF RowsTypeOK
<1>a. InFlight \cup Settled \subseteq State
  BY DEF State
<1>b. Ingested(New) \in [Msg -> DeliveryRow]
  BY NewFacts, IngestedFacts
<1>1. CASE UNCHANGED delivery
  BY <1>1 DEF RowsTypeOK
<1>2. CASE delivery' = GivenUp(delivery)
  BY <1>2, GivenUpFacts DEF RowsTypeOK
<1>3. ASSUME NEW m \in Msg, NEW st \in InFlight \cup Settled,
             \/ delivery' = Update(delivery, m, st)
             \/ delivery' = Update(Ingested(New), m, st)
      PROVE  RowsTypeOK'
  BY <1>3, <1>a, <1>b, UpdateFacts DEF RowsTypeOK
<1>4. CASE PeerSends \/ Rebind \/ Opened \/ OpenFails \/ CloseDone \/ ReleaseStore \/ Crash
  BY <1>1, <1>4 DEF PeerSends, Rebind, Opened, OpenFails, CloseDone, ReleaseStore, Crash
<1>5. ASSUME NEW m \in Msg, Acknowledge(m) \/ Expire(m) PROVE RowsTypeOK'
  BY <1>1, <1>5 DEF Acknowledge, Expire
<1>6. ASSUME NEW s \in Sub, NEW torn \in BOOLEAN, Submit(s, torn) PROVE RowsTypeOK'
  <2>. DEFINE id == Cardinality(Rows) + 1
  <2>1. id \in Nat
    BY MsgFacts, FS_Subset, FS_CardinalityType DEF Rows
  <2>2. Row("queued", "user", id) \in DeliveryRow
    BY <2>1, RowFacts DEF State
  <2>3. \E P \in SUBSET Msg :
          delivery' = [ m \in Msg |-> IF m \in P THEN Row("queued", "user", id)
                                                ELSE delivery[m] ]
    <3>1. CASE delivery' = [ m \in Msg |-> IF m = last' /\ ~torn
                                           THEN Row("queued", "user", id) ELSE delivery[m] ]
      <4>1. WITNESS { m \in Msg : m = last' /\ ~torn } \in SUBSET Msg
      <4>2. QED
        BY <3>1
    <3>2. CASE delivery' = [ m \in Msg |-> IF m = intent[s]
                                           THEN Row("queued", "user", id) ELSE delivery[m] ]
      <4>1. WITNESS { m \in Msg : m = intent[s] } \in SUBSET Msg
      <4>2. QED
        BY <3>2
    <3>3. QED
      BY <1>6, <3>1, <3>2 DEF Submit
  <2>4. QED
    BY <2>2, <2>3 DEF RowsTypeOK
<1>7. CASE Start
  <2>1. \A m \in Msg : Row("uncertain", delivery[m].origin, delivery[m].id) \in DeliveryRow
    BY RowFacts DEF State, Settled, DeliveryRow
  <2>2. QED
    BY <1>7, <2>1 DEF Start, RowsTypeOK
<1>8. CASE Open
  BY <1>8, NewFacts, IngestedFacts DEF Open, RowsTypeOK
<1>9. CASE BeginClose \/ Shutdown \/ HandlerFails
  BY <1>2, <1>9 DEF BeginClose, Shutdown, HandlerFails
<1>10. CASE Polls
  BY <1>3, <1>b, <1>10
     DEF Polls, PollIngests, PollMissing, PollDispatches, RowsTypeOK, InFlight, Settled
<1>11. CASE DirectoryChanged \/ SendRefused
  BY <1>1, <1>3, <1>11 DEF DirectoryChanged, SendRefused, NotHandedOver, InFlight, Settled
<1>12. ASSUME NEW m \in Msg, Settles(m) PROVE RowsTypeOK'
  BY <1>1, <1>3, <1>12 DEF Settles, SendReturns, SendFails, InFlight, Settled
<1>13. ASSUME NEW m \in Msg, Output(m) \/ TurnEnds(m) PROVE RowsTypeOK'
  BY <1>1, <1>3, <1>13 DEF Output, TurnEnds, Completed, EndsUnnoticed, InFlight, Settled
<1>14. ASSUME NEW m \in Msg, NEW outcome \in Outcomes, NEW killed \in BOOLEAN,
              CompletedTorn(m, outcome, killed)
       PROVE  RowsTypeOK'
  BY <1>1, <1>14 DEF CompletedTorn
<1>15. ASSUME NEW torn \in BOOLEAN, Error(torn) PROVE RowsTypeOK'
  BY <1>1, <1>3, <1>15 DEF Error, Settled, TypeOK
<1>16. QED
  BY <1>1, <1>4, <1>5, <1>6, <1>7, <1>8, <1>9, <1>10, <1>11, <1>12, <1>13, <1>14, <1>15
     DEF Next, vars

\* Every step keeps the types of the other variables.
LEMMA RestTypeStep == TypeOK /\ [Next]_vars => RestTypeOK'
<1>. SUFFICES ASSUME TypeOK, [Next]_vars PROVE RestTypeOK'
  OBVIOUS
<1>. RestTypeOK
  BY TypeParts
<1>1. CASE UNCHANGED <<binding, daemon, adapter, run, sent, used>>
  BY <1>1 DEF RestTypeOK
<1>2. CASE PeerSends \/ OpenFails \/ BeginClose \/ HandlerFails \/ DirectoryChanged
           \/ SendRefused
  BY <1>1, <1>2 DEF PeerSends, OpenFails, BeginClose, HandlerFails, DirectoryChanged,
     SendRefused
<1>3. CASE Rebind \/ Start \/ Open \/ Opened \/ Shutdown \/ ReleaseStore \/ CloseDone \/ Crash
  <2>1. CASE Rebind \/ Opened \/ Shutdown \/ ReleaseStore
    BY <2>1 DEF Rebind, Opened, Shutdown, ReleaseStore, RestTypeOK
  <2>2. CASE Start
    BY <2>2 DEF Start, RestTypeOK
  <2>3. CASE Open
    BY <2>3 DEF Open, RestTypeOK
  <2>4. CASE CloseDone \/ Crash
    BY <2>4, OverFacts DEF CloseDone, Crash, RestTypeOK
  <2>5. QED
    BY <1>3, <2>1, <2>2, <2>3, <2>4
<1>4. CASE Polls
  <2>1. ASSUME NEW m \in Msg, PollDispatches(m) PROVE RestTypeOK'
    <3>1. /\ adapter' = "busy" /\ run' = [run EXCEPT ![m] = "running"]
          /\ sent' = [sent EXCEPT ![m] = @ + 1]
          /\ UNCHANGED <<binding, daemon, used>>
      BY <2>1 DEF PollDispatches
    <3>2. QED
      BY <3>1 DEF RestTypeOK
  <2>2. CASE PollIngests \/ \E m \in Msg : PollMissing(m)
    BY <1>1, <2>2 DEF PollIngests, PollMissing
  <2>3. QED
    BY <1>4, <2>1, <2>2 DEF Polls
<1>5. ASSUME NEW m \in Msg, Acknowledge(m) \/ Expire(m) \/ SendReturns(m) \/ Output(m)
      PROVE  RestTypeOK'
  BY <1>1, <1>5 DEF Acknowledge, Expire, SendReturns, Output
<1>6. ASSUME NEW m \in Msg, NEW kind, SendFails(m, kind) PROVE RestTypeOK'
  BY <1>6 DEF SendFails, RestTypeOK
<1>7. ASSUME NEW m \in Msg, TurnEnds(m) PROVE RestTypeOK'
  BY <1>7, AfterTurnType DEF TurnEnds, Completed, EndsUnnoticed, RestTypeOK
<1>8. ASSUME NEW m \in Msg, NEW outcome \in Outcomes, NEW killed \in BOOLEAN,
             CompletedTorn(m, outcome, killed)
      PROVE  RestTypeOK'
  BY <1>8, AfterTurnType, OverFacts DEF CompletedTorn, RestTypeOK
<1>9. ASSUME NEW s \in Sub, NEW torn \in BOOLEAN, Submit(s, torn) PROVE RestTypeOK'
  BY <1>1, <1>9 DEF Submit
<1>10. ASSUME NEW torn \in BOOLEAN, Error(torn) PROVE RestTypeOK'
  BY <1>10 DEF Error, RestTypeOK
<1>11. QED
  BY <1>1, <1>2, <1>3, <1>4, <1>5, <1>6, <1>7, <1>8, <1>9, <1>10 DEF Next, Settles, vars

\* The variables of the delivery of messages have their types, in every state
\* of every instance; only an open worker has an active message (closeWorker()
\* clears it at once).
THEOREM TypeCorrect == Spec => []TypeOK
<1>1. TypeOK /\ [Next]_vars => TypeOK'
  <2>1. SUFFICES ASSUME TypeOK, [Next]_vars PROVE TypeOK'
    OBVIOUS
  <2>2. MeshTypeOK' /\ WorkerTypeOK' /\ RowsTypeOK' /\ RestTypeOK'
    BY <2>1, MeshTypeStep, WorkerTypeStep, RowsTypeStep, RestTypeStep
  <2>3. QED
    BY <2>2 DEF TypeOK, MeshTypeOK, WorkerTypeOK, RowsTypeOK, RestTypeOK, WorkerType, Phase
<1>2. QED
  BY <1>1, TypeInit, PTL DEF Spec

-----------------------------------------------------------------------------
(* The inductive invariant.                                                *)

Fresh == {"none", "queued"}

\* Rows and intents are of messages that have been written.
Known ==
    /\ \A m \in Rows : m <= last
    /\ \A s \in Sub : intent[s] <= last

\* The worker's view agrees with the table.
WorkerRows ==
    /\ worker.active # NoMsg => delivery[worker.active].state \in InFlight
    /\ worker.dispatch # NoMsg => delivery[worker.dispatch].state \notin Fresh

\* What has not left the queue has not been sent, and nothing twice.
SentOnce == \A m \in Msg : sent[m] <= 1 /\ (sent[m] # 0 => delivery[m].state \notin Fresh)

\* A running turn has a worker that knows of it or asks for inspection.
TurnWorker ==
    /\ daemon = "down" => worker.phase = "none"
    /\ \A m \in Msg : run[m] = "running" =>
         /\ worker.phase \in {"open", "closing"}
         /\ worker.phase = "open" /\ ~worker.quarantined => worker.active = m

\* A message that was answered has no turn running.
AnsweredIsOver == \A m \in Msg : answered[m] = 1 => run[m] # "running"

IInv ==
    /\ TypeOK
    /\ Known /\ WorkerRows /\ SentOnce /\ TurnWorker /\ AnsweredIsOver
    /\ OneTurnAtATime /\ ReplyMatchesReceipt /\ UserAuthority

\* The moves of the row of message k: it enters the queue, leaves it, or goes
\* on in flight; a settled row does not move.
Moves(k) ==
    \/ delivery'[k] = delivery[k]
    \/ /\ delivery[k].state \in Fresh
       /\ delivery'[k].state \in {"queued", "dispatching", "failed"}
       /\ k <= last'
       /\ delivery'[k].origin = "user" <=> \E s \in Sub : intent'[s] = k
    \/ /\ delivery[k].state \in InFlight
       /\ delivery'[k].origin = delivery[k].origin
       /\ \/ delivery'[k].state \in InFlight \cup {"uncertain"}
          \/ delivery'[k].state = "failed" /\ run[k] = "running"
          \/ delivery'[k].state = "completed" /\ answered'[k] = answered[k] + 1

\* It is sent, and its turn begins, only as its row leaves the queue; it is
\* answered only as its turn ends.
Leaves(k) == delivery[k].state \in Fresh /\ delivery'[k].state = "dispatching"
Events(k) ==
    /\ \/ sent'[k] = sent[k]
       \/ sent'[k] = sent[k] + 1 /\ Leaves(k)
    /\ run'[k] = "running" => run[k] = "running" \/ Leaves(k)
    /\ \/ answered'[k] = answered[k]
       \/ /\ answered'[k] = answered[k] + 1
          /\ run[k] = "running" /\ run'[k] # "running"
          /\ delivery[k].state \in InFlight
          /\ delivery'[k].state \in InFlight \cup {"completed"}

\* What ingest() leaves queued was queued or unknown before.
LEMMA IngestedQueued ==
    ASSUME IInv, UNCHANGED <<last, intent>>,
           NEW new \in SUBSET Inbox, NEW k \in Msg, Ingested(new)[k].state = "queued"
    PROVE  /\ delivery[k].state \in Fresh
           /\ k <= last'
           /\ Ingested(new)[k].origin = "user" <=> \E s \in Sub : intent'[s] = k
<1>1. TypeOK /\ Known /\ UserAuthority
  BY DEF IInv
<1>2. new \subseteq Msg /\ \A m \in new : m <= last
  BY <1>1, NewFacts, DeliveryAssumption DEF Inbox, TypeOK
<1>3. CASE Ingested(new)[k] = delivery[k]
  BY <1>1, <1>3 DEF Fresh, Known, UserAuthority, Rows
<1>4. CASE /\ k \in new /\ delivery[k].state = "none"
           /\ Ingested(new)[k].origin = Origin(k)
  BY <1>2, <1>4 DEF Fresh, Origin
<1>5. QED
  BY <1>1, <1>2, <1>3, <1>4, IngestedFacts

\* Ingesting moves rows as they may move.
LEMMA IngestMoves ==
    ASSUME IInv, UNCHANGED <<last, intent>>, NEW new \in SUBSET Inbox, NEW k \in Msg,
           delivery'[k] = Ingested(new)[k]
    PROVE  Moves(k)
<1>1. new \in SUBSET Msg /\ TypeOK
  BY NewFacts DEF IInv
<1>2. CASE Ingested(new)[k] = delivery[k]
  BY <1>2 DEF Moves
<1>3. CASE Ingested(new)[k].state = "queued"
  BY <1>3, IngestedQueued DEF Moves
<1>4. QED
  BY <1>1, <1>2, <1>3, IngestedFacts

\* So does poll(), which takes one of the queued rows further.
LEMMA PollMoves ==
    ASSUME IInv, UNCHANGED <<last, intent>>, NEW m \in Msg, NEW k \in Msg,
           Pending(Ingested(New), m), NEW st \in {"dispatching", "failed"},
           delivery' = Update(Ingested(New), m, st)
    PROVE  /\ Moves(k)
           /\ k = m => delivery[k].state \in Fresh /\ delivery'[k].state = st
<1>1. New \in SUBSET Inbox /\ New \in SUBSET Msg /\ TypeOK
  BY NewFacts DEF IInv, New
<1>2. Ingested(New) \in [Msg -> DeliveryRow] /\ st \in State
  BY <1>1, IngestedFacts DEF State, InFlight, Settled
<1>3. CASE k = m
  <2>1. Ingested(New)[k].state = "queued"
    BY <1>3 DEF Pending
  <2>2. delivery'[k].state = st /\ delivery'[k].origin = Ingested(New)[k].origin
    BY <1>2, <1>3, UpdateFacts
  <2>3. QED
    BY <1>1, <2>1, <2>2, IngestedQueued DEF Moves
<1>4. CASE k # m
  BY <1>1, <1>2, <1>4, UpdateFacts, IngestMoves
<1>5. QED
  BY <1>3, <1>4

\* The moves of a step that marks the active message's row, or gives it up.
LEMMA ActiveMoves ==
    ASSUME IInv, NEW k \in Msg,
           \/ delivery' = GivenUp(delivery)
           \/ /\ worker.active \in Msg
              /\ \E st \in InFlight \cup {"uncertain"} :
                    delivery' = Update(delivery, worker.active, st)
    PROVE  Moves(k)
<1>1. /\ TypeOK /\ delivery \in [Msg -> DeliveryRow] /\ WorkerRows
      /\ worker.active \in Msg \cup {NoMsg}
  BY DEF IInv, TypeOK
<1>2. CASE delivery' = GivenUp(delivery)
  <2>1. CASE k = worker.active
    BY <1>1, <1>2, <2>1, MsgFacts, GivenUpFacts DEF WorkerRows, Moves
  <2>2. CASE k # worker.active
    BY <1>1, <1>2, <2>2, GivenUpFacts DEF Moves
  <2>3. QED
    BY <2>1, <2>2
<1>3. ASSUME worker.active \in Msg, NEW st \in InFlight \cup {"uncertain"},
             delivery' = Update(delivery, worker.active, st)
      PROVE  Moves(k)
  <2>1. st \in State
    BY DEF State, Settled
  <2>2. CASE k = worker.active
    BY <1>1, <1>3, <2>1, <2>2, MsgFacts, UpdateFacts DEF WorkerRows, Moves
  <2>3. CASE k # worker.active
    BY <1>1, <1>3, <2>1, <2>3, UpdateFacts DEF Moves
  <2>4. QED
    BY <2>2, <2>3
<1>4. QED
  BY <1>2, <1>3

\* A submission queues a row that was not there.
LEMMA SubmitMoves ==
    ASSUME IInv, NEW s \in Sub, NEW torn \in BOOLEAN, Submit(s, torn), NEW k \in Msg
    PROVE  Moves(k)
<1>. DEFINE new == Row("queued", "user", Cardinality(Rows) + 1)
<1>1. /\ new.state = "queued" /\ new.origin = "user"
  BY DEF Row
<1>2. /\ last \in Nat /\ intent \in [Sub -> Msg \cup {NoMsg}]
      /\ \A m \in Rows : m <= last
      /\ \A r \in Sub : intent[r] <= last
  BY DeliveryAssumption DEF IInv, Known, TypeOK
<1>3. CASE /\ last' = last + 1
           /\ intent' = [intent EXCEPT ![s] = last']
           /\ delivery' = [m \in Msg |-> IF m = last' /\ ~torn THEN new ELSE delivery[m]]
  <2>1. CASE k = last' /\ ~torn
    <3>1. k \notin Rows /\ delivery'[k] = new /\ intent'[s] = k /\ k <= last'
      BY <1>2, <1>3, <2>1
    <3>2. QED
      BY <1>1, <3>1 DEF Rows, Fresh, Moves
  <2>2. QED
    BY <1>3, <2>1 DEF Moves
<1>4. CASE /\ intent[s] \in Inbox \ Rows
           /\ delivery' = [m \in Msg |-> IF m = intent[s] THEN new ELSE delivery[m]]
           /\ UNCHANGED <<last, intent>>
  <2>1. CASE k = intent[s]
    <3>1. k \notin Rows /\ delivery'[k] = new /\ intent'[s] = k /\ k <= last'
      BY <1>2, <1>4, <2>1
    <3>2. QED
      BY <1>1, <3>1 DEF Rows, Fresh, Moves
  <2>2. QED
    BY <1>4, <2>1 DEF Moves
<1>5. QED
  BY <1>3, <1>4 DEF Submit

\* The result of send() moves the row of the message it was about.
LEMMA SettlesMoves ==
    ASSUME IInv, NEW m \in Msg, Settles(m), NEW k \in Msg
    PROVE  Moves(k)
<1>1. /\ delivery \in [Msg -> DeliveryRow] /\ WorkerRows
      /\ \A n \in Msg : delivery[n].state \in State
  BY DEF IInv, TypeOK, DeliveryRow, State
<1>2. CASE SendReturns(m)
  <2>1. CASE worker.active # m
    BY <1>2, <2>1 DEF SendReturns, Moves
  <2>2. CASE worker.active = m
    BY <1>2, <2>2, ActiveMoves DEF SendReturns, InFlight
  <2>3. QED
    BY <2>1, <2>2
<1>3. ASSUME NEW kind \in {"refused", "lost"}, SendFails(m, kind) PROVE Moves(k)
  <2>1. delivery[m].state \notin Fresh
    BY <1>1, <1>3, MsgFacts DEF SendFails, WorkerRows
  <2>2. CASE delivery' = delivery
    BY <2>2 DEF Moves
  <2>3. CASE delivery' = Update(delivery, m, "uncertain")
             /\ delivery[m].state \in InFlight \cup {"uncertain"}
    <3>1. "uncertain" \in State
      BY DEF State, Settled
    <3>2. /\ k # m => delivery'[k] = delivery[k]
          /\ delivery'[m].state = "uncertain" /\ delivery'[m].origin = delivery[m].origin
          /\ delivery[m].state = "uncertain" => delivery'[m] = delivery[m]
      BY <1>1, <2>3, <3>1, UpdateFacts
    <3>3. QED
      BY <2>3, <3>2 DEF Moves
  <2>4. CASE /\ delivery' = Update(delivery, m, "failed")
             /\ delivery[m].state \in InFlight /\ run[m] = "running"
    <3>1. "failed" \in State
      BY DEF State, Settled
    <3>2. /\ k # m => delivery'[k] = delivery[k]
          /\ delivery'[m].state = "failed" /\ delivery'[m].origin = delivery[m].origin
      BY <1>1, <2>4, <3>1, UpdateFacts
    <3>3. QED
      BY <2>4, <3>2 DEF Moves
  <2>5. QED
    <3>1. delivery[m].state \in InFlight \cup Settled
      BY <1>1, <2>1 DEF State, Fresh
    <3>2. QED
      BY <1>3, <2>2, <2>3, <2>4, <3>1 DEF SendFails, Settled
<1>4. QED
  BY <1>2, <1>3 DEF Settles

\* Every step moves every row as it may move.
LEMMA RowMoves ==
    ASSUME IInv, [Next]_vars, NEW k \in Msg
    PROVE  Moves(k)
<1>1. /\ delivery \in [Msg -> DeliveryRow] /\ WorkerRows
      /\ worker.active \in Msg \cup {NoMsg}
      /\ New \in SUBSET Inbox
  BY DEF IInv, TypeOK, New
<1>2. CASE UNCHANGED delivery
  BY <1>2 DEF Moves
<1>3. CASE PeerSends \/ Rebind \/ Opened \/ OpenFails \/ CloseDone \/ ReleaseStore \/ Crash
  BY <1>2, <1>3 DEF PeerSends, Rebind, Opened, OpenFails, CloseDone, ReleaseStore, Crash
<1>4. ASSUME NEW m \in Msg, Acknowledge(m) \/ Expire(m) PROVE Moves(k)
  BY <1>2, <1>4 DEF Acknowledge, Expire
<1>5. CASE Start
  <2>1. CASE delivery[k].state \in InFlight
    <3>1. delivery'[k] = Row("uncertain", delivery[k].origin, delivery[k].id)
      BY <1>5, <2>1 DEF Start
    <3>2. QED
      BY <2>1, <3>1 DEF Row, Moves
  <2>2. QED
    BY <1>5, <2>1 DEF Start, Moves
<1>6. CASE Open
  <2>1. Inbox \ read \in SUBSET Inbox /\ UNCHANGED <<last, intent>>
    BY <1>6 DEF Open, mesh
  <2>2. delivery'[k] = Ingested(Inbox \ read)[k]
    BY <1>6 DEF Open
  <2>3. QED
    BY <2>1, <2>2, IngestMoves
<1>7. CASE BeginClose \/ Shutdown \/ HandlerFails
  BY <1>7, ActiveMoves DEF BeginClose, Shutdown, HandlerFails
<1>8. CASE Polls
  <2>1. CASE PollIngests
    <3>1. UNCHANGED <<last, intent>> /\ delivery'[k] = Ingested(New)[k]
      BY <2>1 DEF PollIngests, mesh
    <3>2. QED
      BY <1>1, <3>1, IngestMoves
  <2>2. ASSUME NEW m \in Msg, PollMissing(m) \/ PollDispatches(m) PROVE Moves(k)
    <3>1. /\ UNCHANGED <<last, intent>> /\ Pending(Ingested(New), m)
          /\ \E st \in {"dispatching", "failed"} : delivery' = Update(Ingested(New), m, st)
      BY <2>2 DEF PollMissing, PollDispatches, mesh
    <3>2. QED
      BY <3>1, PollMoves
  <2>3. QED
    BY <1>8, <2>1, <2>2 DEF Polls
<1>9. CASE DirectoryChanged \/ SendRefused
  <2>1. CASE UNCHANGED delivery
    BY <1>2, <2>1
  <2>2. ASSUME NEW m \in Msg, NEW mark \in {"dispatching", "failed"}, NotHandedOver(m, mark)
        PROVE  Moves(k)
    <3>1. /\ UNCHANGED <<last, intent>> /\ Pending(Ingested(New), m)
          /\ delivery' = Update(Ingested(New), m, mark)
      BY <1>9, <2>2 DEF DirectoryChanged, SendRefused, NotHandedOver, mesh
    <3>2. QED
      BY <3>1, PollMoves
  <2>3. QED
    BY <1>9, <2>1, <2>2 DEF DirectoryChanged, SendRefused
<1>10. ASSUME NEW m \in Msg, Output(m) PROVE Moves(k)
  <2>1. worker.active = m /\ delivery' = Update(delivery, m, "accepted")
    BY <1>10 DEF Output
  <2>2. QED
    BY <2>1, ActiveMoves DEF InFlight
<1>11. ASSUME NEW m \in Msg, NEW outcome \in Outcomes, Completed(m, outcome) PROVE Moves(k)
  <2>. DEFINE st == IF outcome = "completed" THEN "completed" ELSE "failed"
  <2>1. delivery' = Update(delivery, m, st) /\ st \in State
    BY <1>11 DEF Completed, State, Settled
  <2>2. /\ k # m => delivery'[k] = delivery[k]
        /\ delivery'[m].state = st /\ delivery'[m].origin = delivery[m].origin
    <3>. HIDE DEF st
    <3>. QED
      BY <1>1, <2>1, UpdateFacts
  <2>3. delivery[m].state \in InFlight /\ run[m] = "running"
    BY <1>1, <1>11, MsgFacts DEF Completed, WorkerRows
  <2>4. outcome = "completed" => answered'[m] = answered[m] + 1
    BY <1>11 DEF Completed, Answer, IInv, TypeOK
  <2>5. QED
    BY <2>2, <2>3, <2>4 DEF Moves
<1>12. ASSUME NEW m \in Msg, NEW outcome \in Outcomes, NEW killed \in BOOLEAN,
              CompletedTorn(m, outcome, killed) \/ EndsUnnoticed(m, outcome)
       PROVE  Moves(k)
  BY <1>2, <1>12 DEF CompletedTorn, EndsUnnoticed
<1>13. ASSUME NEW torn \in BOOLEAN, Error(torn) PROVE Moves(k)
  <2>1. CASE UNCHANGED delivery
    BY <1>2, <2>1
  <2>2. CASE delivery' = Update(delivery, worker.active, "uncertain")
    BY <1>1, <1>13, <2>2, ActiveMoves DEF Error
  <2>3. QED
    BY <1>13, <2>1, <2>2 DEF Error
<1>14. QED
  BY <1>2, <1>3, <1>4, <1>5, <1>6, <1>7, <1>8, <1>9, <1>10, <1>11, <1>12, <1>13,
     SubmitMoves, SettlesMoves DEF Next, TurnEnds, vars

\* Sending, running and answering follow the moves of the row in every step.
LEMMA RowEvents ==
    ASSUME IInv, [Next]_vars, NEW k \in Msg
    PROVE  Events(k)
<1>1. /\ delivery \in [Msg -> DeliveryRow] /\ WorkerRows
      /\ answered \in [Msg -> Nat] /\ sent \in [Msg -> Nat]
      /\ run \in [Msg -> {"none", "running", "over"}]
  BY DEF IInv, TypeOK
<1>2. CASE UNCHANGED <<run, sent, answered>>
  BY <1>2 DEF Events
<1>3. CASE UNCHANGED <<sent, answered>> /\ run' = Over
  BY <1>1, <1>3 DEF Events, Over
<1>4. CASE PeerSends \/ Rebind \/ Start \/ Open \/ Opened \/ OpenFails \/ BeginClose
           \/ Shutdown \/ ReleaseStore \/ DirectoryChanged \/ SendRefused \/ HandlerFails
  BY <1>2, <1>4 DEF PeerSends, Rebind, Start, Open, Opened, OpenFails, BeginClose,
     Shutdown, ReleaseStore, DirectoryChanged, SendRefused, NotHandedOver, HandlerFails
<1>5. CASE CloseDone \/ Crash
  BY <1>3, <1>5 DEF CloseDone, Crash
<1>6. ASSUME NEW m \in Msg, Acknowledge(m) \/ Expire(m) \/ SendReturns(m) \/ Output(m)
      PROVE  Events(k)
  BY <1>2, <1>6 DEF Acknowledge, Expire, SendReturns, Output
<1>7. ASSUME NEW torn \in BOOLEAN, Error(torn) \/ \E s \in Sub : Submit(s, torn)
      PROVE  Events(k)
  BY <1>2, <1>7 DEF Submit, Error
<1>8. CASE Polls
  <2>1. CASE PollIngests \/ \E m \in Msg : PollMissing(m)
    BY <1>2, <2>1 DEF PollIngests, PollMissing
  <2>2. ASSUME NEW m \in Msg, PollDispatches(m) PROVE Events(k)
    <3>1. /\ UNCHANGED <<last, intent, answered>> /\ Pending(Ingested(New), m)
          /\ delivery' = Update(Ingested(New), m, "dispatching")
          /\ run' = [run EXCEPT ![m] = "running"] /\ sent' = [sent EXCEPT ![m] = @ + 1]
      BY <2>2 DEF PollDispatches, mesh
    <3>2. k = m => Leaves(k)
      BY <3>1, PollMoves DEF Leaves
    <3>3. QED
      BY <1>1, <3>1, <3>2 DEF Events
  <2>3. QED
    BY <1>8, <2>1, <2>2 DEF Polls
<1>9. ASSUME NEW m \in Msg, NEW kind, SendFails(m, kind) PROVE Events(k)
  <2>1. run' = [run EXCEPT ![m] = IF kind = "refused" THEN "over" ELSE @]
        /\ UNCHANGED <<sent, answered>>
    BY <1>9 DEF SendFails
  <2>2. QED
    BY <1>1, <2>1 DEF Events
<1>10. ASSUME NEW m \in Msg, NEW outcome \in Outcomes, EndsUnnoticed(m, outcome)
       PROVE  Events(k)
  <2>1. run' = [run EXCEPT ![m] = "over"] /\ UNCHANGED <<sent, answered>>
    BY <1>10 DEF EndsUnnoticed
  <2>2. QED
    BY <1>1, <2>1 DEF Events
<1>11. ASSUME NEW m \in Msg, NEW outcome \in Outcomes, Answer(m, outcome),
              run[m] = "running", worker.active = m, UNCHANGED sent,
              run' = Over \/ run' = [run EXCEPT ![m] = "over"],
              outcome = "completed" => delivery'[m].state \in InFlight \cup {"completed"}
       PROVE  Events(k)
  <2>1. delivery[m].state \in InFlight
    BY <1>1, <1>11, MsgFacts DEF WorkerRows
  <2>2. run'[m] # "running" /\ (run'[k] = "running" => run[k] = "running")
    BY <1>1, <1>11 DEF Over
  <2>3. \/ answered' = answered
        \/ outcome = "completed" /\ answered' = [answered EXCEPT ![m] = @ + 1]
    BY <1>11 DEF Answer
  <2>4. QED
    BY <1>1, <1>11, <2>1, <2>2, <2>3 DEF Events
<1>12. ASSUME NEW m \in Msg, NEW outcome \in Outcomes, Completed(m, outcome) PROVE Events(k)
  <2>1. outcome = "completed" => delivery'[m].state = "completed"
    BY <1>1, <1>12, UpdateFacts DEF Completed, State, Settled
  <2>2. QED
    BY <1>11, <1>12, <2>1 DEF Completed
<1>13. ASSUME NEW m \in Msg, NEW outcome \in Outcomes, NEW killed \in BOOLEAN,
              CompletedTorn(m, outcome, killed)
       PROVE  Events(k)
  <2>1. delivery' = delivery /\ delivery[m].state \in InFlight
    BY <1>1, <1>13, MsgFacts DEF CompletedTorn, WorkerRows
  <2>2. QED
    BY <1>11, <1>13, <2>1 DEF CompletedTorn
<1>14. QED
  BY <1>2, <1>4, <1>5, <1>6, <1>7, <1>8, <1>9, <1>10, <1>12, <1>13
     DEF Next, Settles, TurnEnds, vars

\* The parts of the invariant that speak of one message follow from these.
LEMMA MessageStep ==
    ASSUME IInv, [Next]_vars
    PROVE  SentOnce' /\ AnsweredIsOver' /\ ReplyMatchesReceipt'
<1>1. ASSUME NEW k \in Msg
      PROVE  /\ sent[k] \in Nat /\ answered[k] \in Nat
             /\ Moves(k) /\ Events(k)
             /\ sent[k] <= 1 /\ (sent[k] # 0 => delivery[k].state \notin Fresh)
             /\ answered[k] <= 1
             /\ answered[k] = 1 => run[k] # "running"
             /\ delivery[k].state = "completed" => answered[k] = 1
             /\ answered[k] = 1 => delivery[k].state \in InFlight \cup {"completed", "uncertain"}
  BY <1>1, RowMoves, RowEvents
     DEF IInv, TypeOK, SentOnce, AnsweredIsOver, ReplyMatchesReceipt
<1>2. SentOnce'
  <2>1. ASSUME NEW k \in Msg
        PROVE  sent'[k] <= 1 /\ (sent'[k] # 0 => delivery'[k].state \notin Fresh)
    BY <1>1 DEF Moves, Events, Leaves, Fresh, InFlight
  <2>2. QED
    BY <2>1 DEF SentOnce
<1>3. ASSUME NEW k \in Msg, answered'[k] = answered[k]
      PROVE  /\ answered'[k] <= 1
             /\ answered'[k] = 1 => run'[k] # "running"
             /\ delivery'[k].state = "completed" => answered'[k] = 1
             /\ answered'[k] = 1 => delivery'[k].state \in InFlight \cup {"completed", "uncertain"}
  <2>1. CASE delivery'[k] = delivery[k]
    BY <1>1, <1>3, <2>1 DEF Events, Leaves, Fresh
  <2>2. CASE delivery'[k] # delivery[k]
    BY <1>1, <1>3, <2>2 DEF Moves, Events, Leaves, Fresh, InFlight
  <2>3. QED
    BY <2>1, <2>2
<1>4. ASSUME NEW k \in Msg, answered'[k] # answered[k]
      PROVE  /\ answered'[k] = 1 /\ run'[k] # "running"
             /\ delivery'[k].state \in InFlight \cup {"completed"}
  BY <1>1, <1>4 DEF Events
<1>5. QED
  BY <1>2, <1>3, <1>4 DEF AnsweredIsOver, ReplyMatchesReceipt

\* Messages and intents are only added, and an intent is of a new message.
LEMMA IntentStep ==
    ASSUME IInv, [Next]_vars
    PROVE  /\ last' \in Nat /\ last <= last'
           /\ \A s \in Sub : intent'[s] <= last'
           /\ \A k \in Msg : k <= last =>
                ((\E s \in Sub : intent'[s] = k) <=> \E s \in Sub : intent[s] = k)
<1>1. /\ last \in Nat /\ \A s \in Sub : intent[s] <= last
      /\ intent \in [Sub -> Msg \cup {NoMsg}]
  BY DeliveryAssumption DEF IInv, Known, TypeOK
<1>2. \/ UNCHANGED <<last, intent>>
      \/ last' = last + 1 /\ intent' = intent
      \/ \E s \in Sub : /\ intent[s] = NoMsg /\ last' = last + 1
                        /\ intent' = [intent EXCEPT ![s] = last']
  <2>1. CASE PeerSends
    BY <2>1 DEF PeerSends
  <2>2. ASSUME NEW s \in Sub, NEW torn \in BOOLEAN, Submit(s, torn)
        PROVE  \/ UNCHANGED <<last, intent>>
               \/ /\ intent[s] = NoMsg /\ last' = last + 1
                  /\ intent' = [intent EXCEPT ![s] = last']
    BY <2>2 DEF Submit
  <2>3. ASSUME NEW m \in Msg, Acknowledge(m) \/ Expire(m) \/ Settles(m) \/ Output(m) \/ TurnEnds(m)
        PROVE  UNCHANGED <<last, intent>>
    BY <2>3 DEF Acknowledge, Expire, Settles, SendReturns, SendFails, Output, TurnEnds,
       Completed, EndsUnnoticed, mesh
  <2>4. ASSUME NEW m \in Msg, NEW outcome \in Outcomes, NEW killed \in BOOLEAN,
               CompletedTorn(m, outcome, killed)
        PROVE  UNCHANGED <<last, intent>>
    BY <2>4 DEF CompletedTorn
  <2>5. CASE Rebind \/ Start \/ Open \/ Opened \/ OpenFails \/ BeginClose \/ CloseDone
             \/ Shutdown \/ ReleaseStore \/ Crash \/ DirectoryChanged \/ SendRefused \/ HandlerFails
    BY <2>5 DEF Rebind, Start, Open, Opened, OpenFails, BeginClose, CloseDone, Shutdown,
       ReleaseStore, Crash, DirectoryChanged, SendRefused, NotHandedOver, HandlerFails, mesh
  <2>6. CASE Polls \/ \E torn \in BOOLEAN : Error(torn)
    BY <2>6 DEF Polls, PollIngests, PollMissing, PollDispatches, Error, mesh
  <2>7. CASE UNCHANGED vars
    BY <2>7 DEF vars
  <2>8. QED
    BY <2>1, <2>2, <2>3, <2>4, <2>5, <2>6, <2>7 DEF Next
<1>3. CASE intent' = intent /\ last' \in {last, last + 1}
  BY <1>1, <1>3, MsgFacts DEF NoMsg
<1>4. ASSUME NEW s \in Sub, intent[s] = NoMsg, last' = last + 1,
             intent' = [intent EXCEPT ![s] = last']
      PROVE  /\ \A r \in Sub : intent'[r] <= last'
             /\ \A k \in Msg : k <= last =>
                  ((\E r \in Sub : intent'[r] = k) <=> \E r \in Sub : intent[r] = k)
  <2>1. /\ intent'[s] = last + 1
        /\ \A r \in Sub : r # s => intent'[r] = intent[r]
        /\ \A r \in Sub : intent[r] \in Nat
        /\ \A k \in Msg : k # NoMsg /\ k \in Nat
    BY <1>1, <1>4, MsgFacts DEF NoMsg
  <2>2. \A r \in Sub : intent'[r] <= last'
    BY <1>1, <1>4, <2>1
  <2>3. ASSUME NEW k \in Msg, k <= last, NEW r \in Sub
        PROVE  intent'[r] = k <=> intent[r] = k
    BY <1>1, <1>4, <2>1, <2>3
  <2>4. QED
    BY <2>2, <2>3
<1>5. QED
  BY <1>1, <1>2, <1>3, <1>4

\* What is known of rows and intents, and whose they are, is kept.
LEMMA OriginStep ==
    ASSUME IInv, [Next]_vars
    PROVE  Known' /\ UserAuthority'
<1>1. /\ last \in Nat /\ (\A m \in Rows : m <= last) /\ UserAuthority
      /\ \A k \in Msg : k \in Nat
  BY DeliveryAssumption, MsgFacts DEF IInv, Known, TypeOK
<1>2. ASSUME NEW k \in Msg, delivery'[k].state # "none"
      PROVE  k <= last' /\ (delivery'[k].origin = "user" <=> \E s \in Sub : intent'[s] = k)
  <2>1. CASE k \in Rows /\ delivery'[k].origin = delivery[k].origin
    BY <1>1, <2>1, IntentStep DEF UserAuthority
  <2>2. CASE /\ k <= last'
             /\ delivery'[k].origin = "user" <=> \E s \in Sub : intent'[s] = k
    BY <2>2
  <2>3. QED
    BY <1>2, <2>1, <2>2, RowMoves DEF Moves, Rows, InFlight
<1>3. QED
  BY <1>2, IntentStep DEF Known, UserAuthority, Rows

\* The ways a worker goes on.  Calmer: nothing new runs, and what runs is still
\* known or the worker asks for inspection.
Calmer ==
    /\ \A k \in Msg : run'[k] = "running" => run[k] = "running"
    /\ daemon' = "down" => worker'.phase = "none"
    /\ \A k \in Msg : run'[k] = "running" =>
         /\ worker'.phase \in {"open", "closing"}
         /\ worker'.phase = "open" /\ ~worker'.quarantined => worker'.active = k

\* The message the worker holds active, if any, is the one it held before, in
\* flight still.
Holds ==
    /\ worker'.active # NoMsg =>
         worker'.active = worker.active /\ delivery'[worker.active].state \in InFlight
    /\ worker'.dispatch \in {worker.dispatch, NoMsg}

\* A message that is no longer fresh does not become fresh again.
LEMMA NotFreshAgain ==
    ASSUME IInv, [Next]_vars, NEW k \in Msg, delivery[k].state \notin Fresh
    PROVE  delivery'[k].state \notin Fresh
BY RowMoves DEF Moves, Fresh, InFlight

\* A worker that holds on to its message has the rows it should have.
LEMMA HoldsRows ==
    ASSUME IInv, [Next]_vars, Holds
    PROVE  WorkerRows'
<1>1. worker.dispatch \in Msg \cup {NoMsg} /\ WorkerRows
  BY DEF IInv, TypeOK
<1>2. worker'.dispatch # NoMsg => delivery'[worker'.dispatch].state \notin Fresh
  BY <1>1, NotFreshAgain DEF Holds, WorkerRows
<1>3. QED
  BY <1>2 DEF Holds, WorkerRows

\* A calmer worker keeps what was known of the turns.
LEMMA CalmerTurns ==
    ASSUME IInv, Calmer
    PROVE  TurnWorker' /\ OneTurnAtATime'
BY DEF IInv, Calmer, TurnWorker, OneTurnAtATime

\* The step that hands a message over: no turn was running.
LEMMA DispatchStep ==
    ASSUME IInv, NEW m \in Msg, PollDispatches(m)
    PROVE  WorkerRows' /\ TurnWorker' /\ OneTurnAtATime'
<1>1. /\ daemon = "up" /\ worker.phase = "open" /\ ~worker.quarantined
      /\ worker.active = NoMsg
      /\ UNCHANGED <<last, intent, daemon>>
      /\ Pending(Ingested(New), m)
      /\ delivery' = Update(Ingested(New), m, "dispatching")
      /\ run' = [run EXCEPT ![m] = "running"]
      /\ worker' = Worker("open", m, m, FALSE, last)
  BY DEF PollDispatches, Polled, MayDispatch, mesh
<1>2. \A k \in Msg : run[k] # "running"
  BY <1>1, MsgFacts DEF IInv, TurnWorker
<1>3. /\ worker'.phase = "open" /\ worker'.active = m /\ worker'.dispatch = m
  BY <1>1 DEF Worker
<1>4. delivery'[m].state = "dispatching"
  BY <1>1, PollMoves
<1>5. \A k \in Msg : run'[k] = "running" => k = m
  BY <1>1, <1>2 DEF IInv, TypeOK
<1>6. WorkerRows'
  BY <1>3, <1>4 DEF WorkerRows, InFlight, Fresh
<1>7. QED
  BY <1>1, <1>3, <1>5, <1>6 DEF TurnWorker, OneTurnAtATime

\* Every other step leaves the worker calmer, and it holds on to its message.
LEMMA OtherSteps ==
    ASSUME IInv, [Next]_vars, \A m \in Msg : ~PollDispatches(m)
    PROVE  Calmer /\ Holds
<1>1. /\ delivery \in [Msg -> DeliveryRow] /\ run \in [Msg -> {"none", "running", "over"}]
      /\ worker.active \in Msg \cup {NoMsg} /\ worker.dispatch \in Msg \cup {NoMsg}
      /\ worker.active # NoMsg => worker.phase = "open"
      /\ worker.active # NoMsg => delivery[worker.active].state \in InFlight
      /\ daemon = "down" => worker.phase = "none"
      /\ \A k \in Msg : run[k] = "running" =>
           /\ worker.phase \in {"open", "closing"}
           /\ worker.phase = "open" /\ ~worker.quarantined => worker.active = k
  BY DEF IInv, TypeOK, WorkerRows, TurnWorker
<1>2. CASE UNCHANGED <<worker, run, daemon, delivery>>
  BY <1>1, <1>2 DEF Calmer, Holds
<1>3. CASE PeerSends \/ Rebind \/ \E m \in Msg : Acknowledge(m) \/ Expire(m)
  BY <1>2, <1>3 DEF PeerSends, Rebind, Acknowledge, Expire
<1>4. ASSUME NEW s \in Sub, NEW torn \in BOOLEAN, Submit(s, torn) PROVE Calmer /\ Holds
  <2>1. UNCHANGED <<worker, run, daemon>>
    BY <1>4 DEF Submit
  <2>2. worker.active # NoMsg => delivery'[worker.active] = delivery[worker.active]
    <3>1. worker.active # NoMsg => worker.active \in Rows /\ worker.active <= last
      BY <1>1 DEF IInv, Known, Rows, InFlight
    <3>2. last \in Nat
      BY DeliveryAssumption DEF IInv, TypeOK
    <3>3. QED
      BY <1>1, <1>4, <3>1, <3>2 DEF Submit
  <2>3. QED
    BY <1>1, <2>1, <2>2 DEF Calmer, Holds
<1>5. CASE Start
  <2>1. worker.phase = "none" /\ UNCHANGED <<worker, run>> /\ daemon' = "up"
    BY <1>1, <1>5 DEF Start
  <2>2. QED
    BY <1>1, <2>1 DEF Calmer, Holds
<1>6. CASE Open
  <2>1. /\ worker.phase = "none" /\ UNCHANGED <<run, daemon>> /\ daemon = "up"
        /\ worker'.active = NoMsg /\ worker'.dispatch = NoMsg
    BY <1>6 DEF Open, Worker
  <2>2. QED
    BY <1>1, <2>1 DEF Calmer, Holds
<1>7. CASE Opened
  <2>1. /\ worker.phase = "opening" /\ UNCHANGED <<run, daemon>> /\ daemon = "up"
        /\ worker'.active = NoMsg /\ worker'.dispatch = NoMsg
    BY <1>7 DEF Opened, Worker
  <2>2. QED
    BY <1>1, <2>1 DEF Calmer, Holds
<1>8. CASE OpenFails
  <2>1. /\ worker.phase = "opening" /\ UNCHANGED <<run, daemon>>
        /\ worker'.active = NoMsg /\ worker'.dispatch = NoMsg /\ worker'.phase = "none"
    BY <1>8 DEF OpenFails, NoWorker, Worker
  <2>2. QED
    BY <1>1, <2>1 DEF Calmer, Holds
<1>9. CASE BeginClose \/ Shutdown \/ HandlerFails
  <2>1. CASE worker' \in {Closing, Stopped}
    <3>1. /\ worker'.active = NoMsg /\ worker'.phase = "closing"
          /\ worker'.dispatch = worker.dispatch
      BY <2>1 DEF Closing, Stopped, Worker
    <3>2. UNCHANGED run /\ daemon' # "down"
      BY <1>9 DEF BeginClose, Shutdown, HandlerFails
    <3>3. QED
      BY <1>1, <3>1, <3>2 DEF Calmer, Holds
  <2>2. CASE Shutdown /\ worker.phase \notin {"opening", "open"}
    <3>1. UNCHANGED <<worker, run>> /\ daemon' # "down"
      BY <2>2 DEF Shutdown
    <3>2. QED
      BY <1>1, <2>2, <3>1 DEF Calmer, Holds
  <2>3. QED
    BY <1>9, <2>1, <2>2 DEF BeginClose, Shutdown, HandlerFails
<1>10. CASE CloseDone \/ Crash
  <2>1. /\ worker'.active = NoMsg /\ worker'.dispatch = NoMsg /\ worker'.phase = "none"
        /\ run' = Over
    BY <1>10 DEF CloseDone, Crash, NoWorker, Worker
  <2>2. \A k \in Msg : run'[k] # "running"
    BY <1>1, <2>1 DEF Over
  <2>3. QED
    BY <2>1, <2>2 DEF Calmer, Holds
<1>11. CASE ReleaseStore
  <2>1. worker.phase = "none" /\ UNCHANGED <<worker, run>>
    BY <1>11 DEF ReleaseStore
  <2>2. QED
    BY <1>1, <2>1 DEF Calmer, Holds
<1>12. CASE Polls
  <2>1. /\ worker' = Seen /\ UNCHANGED <<run, daemon>> /\ worker.phase = "open"
        /\ daemon = "up"
    BY <1>12 DEF Polls, PollIngests, PollMissing, PollDispatches, Polled
  <2>2. /\ worker'.phase = "open" /\ worker'.active = worker.active
        /\ worker'.dispatch = worker.dispatch /\ worker'.quarantined = worker.quarantined
    BY <2>1 DEF Seen, Worker
  <2>3. worker.active # NoMsg => delivery'[worker.active].state \in InFlight
    <3>1. worker.active # NoMsg => delivery' = Ingested(New)
      BY <1>12 DEF Polls, PollIngests, PollMissing, PollDispatches, MayDispatch
    <3>2. \A k \in Msg : delivery[k].state # "none" => Ingested(New)[k] = delivery[k]
      BY NewFacts, IngestedFacts DEF IInv
    <3>3. QED
      BY <1>1, <3>1, <3>2 DEF InFlight
  <2>4. QED
    BY <1>1, <2>1, <2>2, <2>3 DEF Calmer, Holds
<1>13. CASE DirectoryChanged \/ SendRefused
  <2>1. UNCHANGED <<run, daemon>> /\ daemon = "up" /\ worker.phase = "open"
    BY <1>13 DEF DirectoryChanged, SendRefused, NotHandedOver, Polled
  <2>2. CASE UNCHANGED delivery /\ worker' = Worker("open", worker.active, worker.dispatch, TRUE, worker.seen)
    BY <1>1, <2>1, <2>2 DEF Worker, Calmer, Holds
  <2>3. CASE worker' = Worker("open", NoMsg, NoMsg, TRUE, last)
    BY <1>1, <2>1, <2>3 DEF Worker, Calmer, Holds
  <2>4. QED
    BY <1>13, <2>2, <2>3 DEF DirectoryChanged, SendRefused, NotHandedOver
<1>14. ASSUME NEW m \in Msg, SendReturns(m) PROVE Calmer /\ Holds
  <2>1. /\ worker'.phase = worker.phase /\ worker'.active = worker.active
        /\ worker'.dispatch = NoMsg /\ worker'.quarantined = worker.quarantined
        /\ UNCHANGED <<run, daemon>>
    BY <1>14 DEF SendReturns, Worker
  <2>2. worker.active = m => delivery'[worker.active].state \in InFlight
    BY <1>1, <1>14, UpdateFacts DEF SendReturns, InFlight, State
  <2>3. worker.active # m => delivery' = delivery
    BY <1>14 DEF SendReturns
  <2>4. QED
    BY <1>1, <2>1, <2>2, <2>3 DEF Calmer, Holds
<1>15. ASSUME NEW m \in Msg, NEW kind \in {"refused", "lost"}, SendFails(m, kind)
       PROVE  Calmer /\ Holds
  <2>1. /\ worker'.phase = worker.phase /\ worker'.quarantined = TRUE
        /\ worker'.active = IF worker.active = m THEN NoMsg ELSE worker.active
        /\ worker'.dispatch = NoMsg
        /\ UNCHANGED daemon
        /\ run' = [run EXCEPT ![m] = IF kind = "refused" THEN "over" ELSE @]
    BY <1>15 DEF SendFails, Worker
  <2>2. \A k \in Msg : k # m => delivery'[k] = delivery[k]
    BY <1>15 DEF SendFails, Update
  <2>3. \A k \in Msg : run'[k] = "running" => run[k] = "running"
    BY <1>1, <2>1
  <2>4. QED
    BY <1>1, <2>1, <2>2, <2>3 DEF Calmer, Holds
<1>16. ASSUME NEW m \in Msg, Output(m) PROVE Calmer /\ Holds
  <2>1. UNCHANGED <<worker, run, daemon>> /\ worker.active = m
        /\ delivery' = Update(delivery, m, "accepted")
    BY <1>16 DEF Output
  <2>2. delivery'[m].state = "accepted"
    BY <1>1, <2>1, UpdateFacts DEF State, InFlight
  <2>3. QED
    BY <1>1, <2>1, <2>2 DEF Calmer, Holds, InFlight
<1>17. ASSUME NEW m \in Msg, TurnEnds(m) PROVE Calmer /\ Holds
  <2>1. /\ run' = [run EXCEPT ![m] = "over"] /\ UNCHANGED daemon
        /\ daemon = "up" /\ worker.phase = "open"
    BY <1>17 DEF TurnEnds, Completed, EndsUnnoticed, Recorded
  <2>2. CASE worker.active = m /\ worker' = Free
    <3>1. /\ worker'.phase = "open" /\ worker'.active = NoMsg
          /\ worker'.dispatch = worker.dispatch /\ worker'.quarantined = worker.quarantined
      BY <2>2 DEF Free, Worker
    <3>2. \A k \in Msg : run'[k] = "running" => run[k] = "running" /\ k # m
      BY <1>1, <2>1
    <3>3. QED
      BY <1>1, <2>1, <2>2, <3>1, <3>2 DEF Calmer, Holds
  <2>3. CASE UNCHANGED <<worker, delivery>>
    <3>1. \A k \in Msg : run'[k] = "running" => run[k] = "running"
      BY <1>1, <2>1
    <3>2. QED
      BY <1>1, <2>1, <2>3, <3>1 DEF Calmer, Holds
  <2>4. QED
    BY <1>17, <2>2, <2>3 DEF TurnEnds, Completed, EndsUnnoticed
<1>18. ASSUME NEW m \in Msg, NEW outcome \in Outcomes, NEW killed \in BOOLEAN,
              CompletedTorn(m, outcome, killed)
       PROVE  Calmer /\ Holds
  <2>1. CASE killed
    <3>1. worker' = NoWorker /\ run' = Over
      BY <1>18, <2>1 DEF CompletedTorn
    <3>2. /\ worker'.active = NoMsg /\ worker'.dispatch = NoMsg /\ worker'.phase = "none"
          /\ \A k \in Msg : run'[k] # "running"
      BY <1>1, <3>1 DEF NoWorker, Worker, Over
    <3>3. QED
      BY <3>2 DEF Calmer, Holds
  <2>2. CASE ~killed
    <3>1. /\ worker' = Stopped /\ run' = [run EXCEPT ![m] = "over"]
          /\ UNCHANGED daemon /\ daemon = "up"
      BY <1>18, <2>2 DEF CompletedTorn, Recorded
    <3>2. /\ worker'.active = NoMsg /\ worker'.dispatch = worker.dispatch
          /\ worker'.phase = "closing"
          /\ \A k \in Msg : run'[k] = "running" => run[k] = "running"
      BY <1>1, <3>1 DEF Stopped, Worker
    <3>3. QED
      BY <3>1, <3>2 DEF Calmer, Holds
  <2>3. QED
    BY <2>1, <2>2
<1>19. ASSUME NEW torn \in BOOLEAN, Error(torn) PROVE Calmer /\ Holds
  <2>1. UNCHANGED <<run, daemon>> /\ daemon = "up" /\ worker.phase = "open"
    BY <1>19 DEF Error, Recorded
  <2>2. /\ worker'.active = NoMsg /\ worker'.dispatch = worker.dispatch
        /\ worker'.quarantined = TRUE /\ worker'.phase \in {"open", "closing"}
    BY <1>19 DEF Error, Stopped, Worker
  <2>3. QED
    BY <1>1, <2>1, <2>2 DEF Calmer, Holds
<1>20. QED
  BY <1>2, <1>3, <1>4, <1>5, <1>6, <1>7, <1>8, <1>9, <1>10, <1>11, <1>12, <1>13, <1>14,
     <1>15, <1>16, <1>17, <1>18, <1>19 DEF Next, Settles, vars

-----------------------------------------------------------------------------
(* Theorems.                                                               *)

\* The invariant holds at the start: no message, no row, no worker.
LEMMA InvInit == Init => IInv
<1>. SUFFICES ASSUME Init PROVE IInv
  OBVIOUS
<1>1. TypeOK
  BY TypeInit
<1>2. Rows = {} /\ \A m \in Msg : delivery[m].state = "none"
  BY DEF Init, Rows, NoRow, Row
<1>3. worker.phase = "none" /\ worker.active = NoMsg /\ worker.dispatch = NoMsg
  BY DEF Init, NoWorker, Worker
<1>4. Known /\ UserAuthority
  BY <1>2 DEF Init, Known, UserAuthority, NoMsg
<1>5. WorkerRows /\ SentOnce /\ TurnWorker /\ AnsweredIsOver
  BY <1>3 DEF Init, WorkerRows, SentOnce, TurnWorker, AnsweredIsOver
<1>6. OneTurnAtATime /\ ReplyMatchesReceipt
  BY <1>2 DEF Init, OneTurnAtATime, ReplyMatchesReceipt
<1>7. QED
  BY <1>1, <1>4, <1>5, <1>6 DEF IInv

\* ... and every step keeps it.
LEMMA InvStep == IInv /\ [Next]_vars => IInv'
<1>. SUFFICES ASSUME IInv, [Next]_vars PROVE IInv'
  OBVIOUS
<1>1. TypeOK'
  <2>1. MeshTypeOK' /\ WorkerTypeOK' /\ RowsTypeOK' /\ RestTypeOK'
    BY MeshTypeStep, WorkerTypeStep, RowsTypeStep, RestTypeStep DEF IInv
  <2>2. QED
    BY <2>1 DEF TypeOK, MeshTypeOK, WorkerTypeOK, RowsTypeOK, RestTypeOK, WorkerType, Phase
<1>2. WorkerRows' /\ TurnWorker' /\ OneTurnAtATime'
  <2>1. CASE \E m \in Msg : PollDispatches(m)
    BY <2>1, DispatchStep
  <2>2. CASE \A m \in Msg : ~PollDispatches(m)
    BY <2>2, OtherSteps, HoldsRows, CalmerTurns
  <2>3. QED
    BY <2>1, <2>2
<1>3. Known' /\ UserAuthority'
  BY OriginStep
<1>4. SentOnce' /\ AnsweredIsOver' /\ ReplyMatchesReceipt'
  BY MessageStep
<1>5. QED
  BY <1>1, <1>2, <1>3, <1>4 DEF IInv

\* The invariant holds in every reachable state.
THEOREM Invariance == Spec => []IInv
BY InvInit, InvStep, PTL DEF Spec

\* No message is handed to the provider twice, for any number of messages,
\* retries, restarts of workers and daemons (ingest()'s INSERT OR IGNORE,
\* disconnected()): what has been sent never is fresh again.
THEOREM NeverSentTwice == Spec => []AtMostOneSend
<1>1. IInv => AtMostOneSend
  BY DEF IInv, SentOnce, AtMostOneSend
<1>2. QED
  BY <1>1, Invariance, PTL

\* The provider never works on two messages at once: a running turn belongs to
\* the active message, or its worker is quarantined or closing (poll()).
THEOREM OneTurn == Spec => []OneTurnAtATime
<1>1. IInv => OneTurnAtATime
  BY DEF IInv
<1>2. QED
  BY <1>1, Invariance, PTL

\* The two databases disagree no further than in flight or uncertain, wherever
\* a daemon is killed or saving fails (record()).
THEOREM ReceiptsAgree == Spec => []ReplyMatchesReceipt
<1>1. IInv => ReplyMatchesReceipt
  BY DEF IInv
<1>2. QED
  BY <1>1, Invariance, PTL

\* A row carries the user's authority exactly if its message was submitted,
\* whichever of send, retry and ingest made it (ingest(), sendMessage()).
THEOREM Authority == Spec => []UserAuthority
<1>1. IInv => UserAuthority
  BY DEF IInv
<1>2. QED
  BY <1>1, Invariance, PTL

\* What is settled stays as it is: no move of a row starts at a settled state,
\* although updateDelivery() itself asks nothing.
THEOREM SettledStays == Spec => SettledIsFinal
<1>1. IInv /\ [Next]_vars =>
        [ \A m \in Msg : delivery[m].state \in Settled => delivery'[m] = delivery[m] ]_vars
  <2>1. ASSUME IInv, [Next]_vars, NEW m \in Msg, delivery[m].state \in Settled
        PROVE  delivery'[m] = delivery[m]
    BY <2>1, RowMoves DEF Moves, Settled, Fresh, InFlight
  <2>2. QED
    BY <2>1
<1>2. QED
  BY <1>1, Invariance, PTL DEF Spec, SettledIsFinal

\* Delivery implements the promise made to senders: every step, seen through
\* the mapping, moves each receipt the way it may move (Moves and Events are
\* its steps, message by message).
THEOREM Implements == Spec => KeepsPromise
<1>. DEFINE receipt == [ m \in Msg |-> IF delivery[m].state \in InFlight THEN "working"
                                       ELSE delivery[m].state ]
<1>1. Init => Promise!Init
  <2>1. NoRow.state = "none"
    BY DEF NoRow, Row
  <2>2. QED
    BY <2>1 DEF Init, Promise!Init, InFlight
<1>2. IInv /\ IInv' /\ [Next]_vars => [Promise!Next]_<<receipt, sent, answered>>
  <2>1. ASSUME IInv, IInv', [Next]_vars, NEW m \in Msg
        PROVE  \/ Promise!Stays(m) \/ Promise!Queues(m) \/ Promise!Takes(m)
               \/ Promise!Fails(m) \/ Promise!Answers(m) \/ Promise!GivesUp(m)
    <3>1. /\ Moves(m) /\ Events(m)
          /\ sent[m] \in Nat /\ answered[m] \in Nat
          /\ delivery[m].state \in Fresh => sent[m] = 0 /\ answered[m] = 0
          /\ answered[m] <= 1
          /\ run[m] = "running" => answered[m] = 0
      <4>1. Moves(m) /\ Events(m)
        BY <2>1, RowMoves, RowEvents
      <4>2. TypeOK /\ SentOnce /\ AnsweredIsOver /\ ReplyMatchesReceipt
        BY <2>1 DEF IInv
      <4>3. sent[m] \in Nat /\ answered[m] \in Nat
        BY <4>2 DEF TypeOK
      <4>4. QED
        BY <4>1, <4>2, <4>3
           DEF SentOnce, AnsweredIsOver, ReplyMatchesReceipt, Fresh, InFlight
    <3>. DEFINE old == delivery[m].state
                new == delivery'[m].state
    <3>2. /\ receipt[m] = IF old \in InFlight THEN "working" ELSE old
          /\ receipt'[m] = IF new \in InFlight THEN "working" ELSE new
      OBVIOUS
    <3>3. CASE answered'[m] # answered[m]
      BY <3>1, <3>2, <3>3
         DEF Moves, Events, Leaves, Fresh, InFlight, Promise!Answers, Promise!From,
             Promise!Handed, Promise!Replies
    <3>4. CASE answered'[m] = answered[m] /\ delivery'[m] = delivery[m]
      BY <3>1, <3>2, <3>4
         DEF Events, Leaves, Fresh, InFlight, Promise!Stays, Promise!Handed, Promise!Replies
    <3>5. CASE answered'[m] = answered[m] /\ old \in Fresh /\ new = "queued"
      BY <3>1, <3>2, <3>5
         DEF Events, Leaves, Fresh, InFlight, Promise!Stays, Promise!Queues, Promise!From,
             Promise!Handed, Promise!Replies
    <3>6. CASE answered'[m] = answered[m] /\ old \in Fresh /\ new = "dispatching"
      BY <3>1, <3>2, <3>6
         DEF Events, Leaves, Fresh, InFlight, Promise!Takes, Promise!From, Promise!Waiting,
             Promise!Handed, Promise!Replies
    <3>7. CASE answered'[m] = answered[m] /\ new = "failed" /\ old \in Fresh \cup InFlight
      <4>1. sent'[m] = sent[m] /\ (old \in InFlight => answered[m] = 0 \/ delivery'[m] = delivery[m])
        BY <3>1, <3>7 DEF Moves, Events, Leaves, Fresh, InFlight
      <4>2. QED
        BY <3>1, <3>2, <3>7, <4>1
           DEF Fresh, InFlight, Promise!Fails, Promise!From, Promise!Waiting,
               Promise!Handed, Promise!Replies
    <3>8. CASE answered'[m] = answered[m] /\ old \in InFlight /\ new \in InFlight
      BY <3>1, <3>2, <3>8
         DEF Events, Leaves, Fresh, InFlight, Promise!Stays, Promise!Handed, Promise!Replies
    <3>9. CASE answered'[m] = answered[m] /\ old \in InFlight /\ new = "uncertain"
      BY <3>1, <3>2, <3>9
         DEF Events, Leaves, Fresh, InFlight, Promise!GivesUp, Promise!From,
             Promise!Handed, Promise!Replies
    <3>10. QED
      BY <3>1, <3>3, <3>4, <3>5, <3>6, <3>7, <3>8, <3>9 DEF Moves
  <2>2. QED
    BY <2>1 DEF Promise!Next
<1>3. QED
  BY <1>1, <1>2, Invariance, PTL DEF Spec, KeepsPromise, Promise!Spec
===============================================================================
