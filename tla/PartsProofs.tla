------------------------------ MODULE PartsProofs ------------------------------
(* Proofs about the parts that keep to themselves: the native owner, for any *)
(* number of daemons, hooks and commands, the file lock it takes and the     *)
(* journal of the commands that address it; and, with what MailProofs and    *)
(* RunSessionProofs show of the others, about the parts together (MCParts).  *)
(*                                                                           *)
(* The owner: everything rests on its row.  A daemon that may write has the  *)
(* row active under its generation (OpenOwns), and so has whoever is inside  *)
(* the writer lock (WriterOwns); as the row changes only under that lock, the*)
(* two keep each other up.  Neither pointer nor ports are needed.            *)
EXTENDS MCParts, MailProofs, RunSessionProofs, TLAPS

\* An active row was claimed.
ActiveIsClaimed == owner.state = "active" => owner.epoch > 0

OpenOwns == \A d \in Daemon : stage[d] \in Open => Owns(d)

WriterOwns == \A w \in Daemon \cup Hook : writing[w] # Nobody => Owns(writing[w])

\* A request is sent to the runtime that was asked for its status.
SentAsAsked == \A c \in Client : request[c].sent # Nobody => request[c].sent = request[c].asked

OwnerInv == OwnerTypeOK /\ ActiveIsClaimed /\ OpenOwns /\ WriterOwns /\ SentAsAsked

LEMMA DaemonIsSomebody == Nobody \notin Daemon /\ Daemon \subseteq Nat
  BY OwnerAssumption DEF Nobody, Daemon

LEMMA OwnerInvInit == OwnerInit => OwnerInv
  BY DaemonIsSomebody DEF OwnerInit, OwnerInv, OwnerTypeOK, ActiveIsClaimed, OpenOwns, WriterOwns,
     SentAsAsked,
     OwnerRow, NoRequest, Request, Stages, Before, Open, Owns

-----------------------------------------------------------------------------
(* Steps of a daemon, one lemma for each kind.                             *)

\* The stage moves, and no daemon enters the stages that write.
LEMMA MoveKeepsInv ==
  ASSUME OwnerInv, NEW d \in Daemon, NEW s \in Stages \ Open, Stands(d, s),
         UNCHANGED <<owner, epochOf, scope, latest, request>>,
         pointer' \in Daemon \cup {Nobody}, ports' \in Daemon \cup {Nobody},
         \/ UNCHANGED writing
         \/ writing' = [writing EXCEPT ![d] = Nobody]
  PROVE  OwnerInv'
  <1>1. OwnerTypeOK'
    BY DEF OwnerInv, OwnerTypeOK, Stands
  <1>2. ActiveIsClaimed'
    BY DEF OwnerInv, ActiveIsClaimed
  <1>3. OpenOwns'
    <2> SUFFICES ASSUME NEW e \in Daemon, stage'[e] \in Open PROVE Owns(e)'
      BY DEF OpenOwns
    <2>1. stage[e] \in Open
      BY DEF OwnerInv, OwnerTypeOK, Stands
    <2> QED
      BY <2>1 DEF OwnerInv, OpenOwns, Owns
  <1>4. WriterOwns'
    <2> SUFFICES ASSUME NEW w \in Daemon \cup Hook, writing'[w] # Nobody PROVE Owns(writing[w])' /\ writing'[w] = writing[w]
      BY DEF WriterOwns, Owns
    <2>1. writing'[w] = writing[w]
      BY DEF OwnerInv, OwnerTypeOK
    <2> QED
      BY <2>1 DEF OwnerInv, WriterOwns, Owns
  <1>5. SentAsAsked'
    BY DEF OwnerInv, SentAsAsked
  <1> QED
    BY <1>1, <1>2, <1>3, <1>4, <1>5 DEF OwnerInv

LEMMA EndKeepsInv ==
  ASSUME OwnerInv, NEW d \in Daemon, Ends(d)
  PROVE  OwnerInv'
  <1>1. "dead" \in Stages \ Open
    BY DEF Stages, After, Open
  <1>2. ports' \in Daemon \cup {Nobody} /\ pointer' \in Daemon \cup {Nobody}
    BY DEF OwnerInv, OwnerTypeOK, Ends
  <1> QED
    BY <1>1, <1>2, MoveKeepsInv DEF Ends

\* The row passes to a daemon: no other was writing, for the row was not its.
LEMMA ClaimKeepsInv ==
  ASSUME OwnerInv, NEW d \in Daemon, Claim(d)
  PROVE  OwnerInv'
  <1>1. owner' = OwnerRow(d, "active", owner.epoch + 1) /\ owner.epoch \in Nat
    BY DEF OwnerInv, OwnerTypeOK, Claim
  <1>2. OwnerTypeOK'
    <2>1. owner' \in [generation : Daemon \cup {Nobody}, state : {"active", "released"}, epoch : Nat]
      BY <1>1 DEF OwnerRow
    <2>2. epochOf' \in [Daemon -> Nat] /\ epochOf'[d] = owner.epoch + 1
      BY <1>1 DEF OwnerInv, OwnerTypeOK, Claim
    <2>3. owner'.epoch > 0 => owner'.generation \in Daemon /\ epochOf'[owner'.generation] = owner'.epoch
      BY <1>1, <2>2 DEF OwnerRow
    <2>4. stage' \in [Daemon -> Stages]
      BY DEF OwnerInv, OwnerTypeOK, Claim, Stands, Stages, Open
    <2> QED
      BY <2>1, <2>2, <2>3, <2>4 DEF OwnerInv, OwnerTypeOK, Claim
  <1>3. ActiveIsClaimed'
    BY <1>1 DEF ActiveIsClaimed, OwnerRow
  <1>4. OpenOwns'
    <2> SUFFICES ASSUME NEW e \in Daemon, stage'[e] \in Open PROVE Owns(e)'
      BY DEF OpenOwns
    <2>1. CASE e = d
      BY <2>1, <1>1 DEF Owns, OwnerRow
    <2>2. CASE e # d
      <3>1. stage[e] \in Open
        BY <2>2 DEF Claim, Stands, OwnerInv, OwnerTypeOK
      <3>2. Owns(e) /\ Alive(e)
        BY <3>1 DEF OwnerInv, OpenOwns, Alive, Open
      <3> QED
        BY <3>2 DEF Claim, MayReplace, MayFindExited, Owns
    <2> QED
      BY <2>1, <2>2
  <1>5. WriterOwns'
    BY DEF WriterOwns, Claim, WriterFree
  <1>6. SentAsAsked'
    BY DEF OwnerInv, SentAsAsked, Claim
  <1> QED
    BY <1>2, <1>3, <1>4, <1>5, <1>6 DEF OwnerInv

\* Between two of the stages that write, the row stays.
LEMMA StayOpenKeepsInv ==
  ASSUME OwnerInv, NEW d \in Daemon, Publish(d) \/ Stop(d)
  PROVE  OwnerInv'
  <1>1. PICK s \in Open : Stands(d, s)
    BY DEF Publish, Stop, Open
  <1>2. stage[d] \in Open
    BY DEF Publish, Stop, Open
  <1>3. /\ UNCHANGED <<owner, ports, epochOf, scope, writing, latest, request>>
        /\ pointer' \in Daemon \cup {Nobody}
    BY DEF Publish, Stop, OwnerInv, OwnerTypeOK
  <1>4. OwnerTypeOK'
    BY <1>1, <1>3 DEF OwnerInv, OwnerTypeOK, Stands, Stages
  <1>5. OpenOwns'
    BY <1>1, <1>2, <1>3 DEF OwnerInv, OpenOwns, Owns, Stands, OwnerTypeOK
  <1>6. ActiveIsClaimed' /\ WriterOwns' /\ SentAsAsked'
    BY <1>3 DEF OwnerInv, ActiveIsClaimed, WriterOwns, SentAsAsked, Owns
  <1> QED
    BY <1>4, <1>5, <1>6 DEF OwnerInv

\* The row is released by the one daemon that had it open.
LEMMA CloseKeepsInv ==
  ASSUME OwnerInv, NEW d \in Daemon, ClosePersistence(d)
  PROVE  OwnerInv'
  <1>1. owner' = OwnerRow(d, "released", owner.epoch)
    BY DEF ClosePersistence, Released, Owns
  <1>2. OwnerTypeOK'
    <2>1. owner' \in [generation : Daemon \cup {Nobody}, state : {"active", "released"}, epoch : Nat]
      BY <1>1 DEF OwnerInv, OwnerTypeOK, OwnerRow
    <2>2. owner'.epoch > 0 => owner'.generation \in Daemon /\ epochOf'[owner'.generation] = owner'.epoch
      BY <1>1 DEF OwnerInv, OwnerTypeOK, OwnerRow, ClosePersistence, Owns
    <2>3. stage' \in [Daemon -> Stages]
      BY DEF OwnerInv, OwnerTypeOK, ClosePersistence, Stands, Stages, After
    <2> QED
      BY <2>1, <2>2, <2>3 DEF OwnerInv, OwnerTypeOK, ClosePersistence
  <1>3. ActiveIsClaimed'
    BY <1>1 DEF ActiveIsClaimed, OwnerRow
  <1>4. OpenOwns'
    <2> SUFFICES ASSUME NEW e \in Daemon, stage'[e] \in Open PROVE FALSE
      BY DEF OpenOwns
    <2>1. e # d /\ stage[e] \in Open
      BY DEF ClosePersistence, Stands, OwnerInv, OwnerTypeOK, Open
    <2>2. Owns(e)
      BY <2>1 DEF OwnerInv, OpenOwns
    <2> QED
      BY <2>1, <2>2 DEF ClosePersistence, Owns
  <1>5. WriterOwns'
    BY DEF WriterOwns, ClosePersistence, WriterFree
  <1>6. SentAsAsked'
    BY DEF OwnerInv, SentAsAsked, ClosePersistence
  <1> QED
    BY <1>2, <1>3, <1>4, <1>5, <1>6 DEF OwnerInv

-----------------------------------------------------------------------------
(* Writes and requests                                                     *)

LEMMA WriteKeepsInv ==
  ASSUME OwnerInv, NEW w \in Daemon \cup Hook, NEW g \in Daemon \cup {Nobody},
         g # Nobody => Owns(g),
         writing' = [writing EXCEPT ![w] = g], latest' \in Nat,
         UNCHANGED <<owner, pointer, ports, stage, epochOf, scope, request>>
  PROVE  OwnerInv'
  <1>1. OwnerTypeOK'
    BY DEF OwnerInv, OwnerTypeOK
  <1>2. WriterOwns'
    <2> SUFFICES ASSUME NEW v \in Daemon \cup Hook, writing'[v] # Nobody PROVE Owns(writing'[v])
      BY DEF WriterOwns, Owns
    <2>1. CASE v = w
      BY <2>1 DEF OwnerInv, OwnerTypeOK
    <2>2. CASE v # w
      BY <2>2 DEF OwnerInv, OwnerTypeOK, WriterOwns
    <2> QED
      BY <2>1, <2>2
  <1>3. ActiveIsClaimed' /\ OpenOwns' /\ SentAsAsked'
    BY DEF OwnerInv, ActiveIsClaimed, OpenOwns, SentAsAsked, Owns
  <1> QED
    BY <1>1, <1>2, <1>3 DEF OwnerInv

LEMMA BeginKeepsInv ==
  ASSUME OwnerInv, NEW w \in Daemon \cup Hook, NEW g, BeginWrite(w, g)
  PROVE  OwnerInv'
  <1>1. g \in Daemon /\ Owns(g)
    BY DEF BeginWrite, Alive
  <1>2. latest' \in Nat
    BY DEF BeginWrite, OwnerInv, OwnerTypeOK
  <1> QED
    BY <1>1, <1>2, WriteKeepsInv DEF BeginWrite

\* What is committed carries the epoch that the row has at that moment.
LEMMA CommittedEpoch ==
  ASSUME OwnerInv, NEW w \in Daemon \cup Hook, Commit(w)
  PROVE  latest' = owner.epoch /\ owner.epoch \in Nat /\ owner.epoch > 0
  <1>1. Owns(writing[w])
    BY DEF Commit, OwnerInv, WriterOwns
  <1>2. owner.epoch \in Nat /\ owner.epoch > 0
    BY <1>1 DEF OwnerInv, OwnerTypeOK, ActiveIsClaimed, Owns
  <1> QED
    BY <1>1, <1>2 DEF Commit, Owns, OwnerInv, OwnerTypeOK

LEMMA EndWriteKeepsInv ==
  ASSUME OwnerInv, NEW w \in Daemon \cup Hook, Commit(w) \/ Rollback(w)
  PROVE  OwnerInv'
  <1>1. latest' \in Nat
    BY CommittedEpoch DEF Rollback, OwnerInv, OwnerTypeOK
  <1> QED
    BY <1>1, WriteKeepsInv DEF Commit, Rollback

LEMMA SpawnKeepsInv ==
  ASSUME OwnerInv, NEW h \in Hook, NEW d \in Daemon, SpawnHook(h, d)
  PROVE  OwnerInv'
  <1>1. OwnerTypeOK'
    BY DEF OwnerInv, OwnerTypeOK, SpawnHook
  <1> QED
    BY <1>1 DEF OwnerInv, SpawnHook, ActiveIsClaimed, OpenOwns, WriterOwns, SentAsAsked, Owns

LEMMA ClientKeepsInv ==
  ASSUME OwnerInv, NEW c \in Client, ClientStep(c)
  PROVE  OwnerInv'
  <1>1. PICK r \in [asked : Daemon \cup {Nobody}, sent : Daemon \cup {Nobody}] :
          /\ request' = [request EXCEPT ![c] = r]
          /\ r.sent # Nobody => r.sent = r.asked
    <2> DEFINE G == Daemon \cup {Nobody}
    <2>4. \A a, s \in G : /\ Request(a, s) \in [asked : G, sent : G]
                         /\ Request(a, s).asked = a /\ Request(a, s).sent = s
      BY DEF Request
    <2>5. Nobody \in G /\ pointer \in G /\ request[c].asked \in G
      BY DEF OwnerInv, OwnerTypeOK
    <2>1. CASE AskStatus(c)
      <3>1. request' = [request EXCEPT ![c] = Request(pointer, Nobody)]
        BY <2>1 DEF AskStatus
      <3> QED
        BY <3>1, <2>4, <2>5
    <2>2. CASE SendRequest(c)
      <3>1. CASE PointsToOwner /\ SameRuntime(c)
        <4>1. request' = [request EXCEPT ![c] = Request(pointer, pointer)]
          BY <2>2, <3>1 DEF SendRequest, SameRuntime
        <4>2. /\ Request(pointer, pointer) \in [asked : G, sent : G]
              /\ Request(pointer, pointer).asked = Request(pointer, pointer).sent
          BY <2>4, <2>5
        <4> QED
          BY <4>1, <4>2
      <3>2. CASE ~(PointsToOwner /\ SameRuntime(c))
        <4>1. request' = [request EXCEPT ![c] = Request(Nobody, Nobody)]
          BY <2>2, <3>2 DEF SendRequest, NoRequest
        <4> QED
          BY <4>1, <2>4, <2>5
      <3> QED
        BY <3>1, <3>2
    <2>3. CASE Handle(c) \/ Unanswered(c)
      <3>1. request' = [request EXCEPT ![c] = Request(Nobody, Nobody)]
        BY <2>3 DEF Handle, Unanswered, Forget, NoRequest
      <3> QED
        BY <3>1, <2>4, <2>5
    <2> QED
      BY <2>1, <2>2, <2>3 DEF ClientStep
  <1>2. UNCHANGED <<owner, pointer, ports, stage, epochOf, scope, writing, latest>>
    BY DEF ClientStep, AskStatus, SendRequest, Handle, Unanswered, Forget
  <1>3. OwnerTypeOK'
    BY <1>1, <1>2 DEF OwnerInv, OwnerTypeOK
  <1>4. SentAsAsked'
    BY <1>1 DEF OwnerInv, SentAsAsked, OwnerTypeOK
  <1> QED
    BY <1>2, <1>3, <1>4 DEF OwnerInv, ActiveIsClaimed, OpenOwns, WriterOwns, Owns

-----------------------------------------------------------------------------
LEMMA DaemonKeepsInv ==
  ASSUME OwnerInv, NEW d \in Daemon, DaemonStep(d)
  PROVE  OwnerInv'
  <1>1. CASE Start(d) \/ CheckPointer(d) \/ TakePorts(d) \/ ReadOwnPointer(d) \/ RemovePointer(d)
    <2>1. PICK s \in Stages \ Open : Stands(d, s)
      <3>1. CASE CheckPointer(d)
        BY <3>1 DEF CheckPointer, StageAfterCheck, Stages, Before, Open
      <3>2. CASE Start(d) \/ TakePorts(d)
        BY <3>2 DEF Start, TakePorts, Stages, Before, Open
      <3>3. CASE ReadOwnPointer(d) \/ RemovePointer(d)
        BY <3>3 DEF ReadOwnPointer, RemovePointer, Stages, After, Open
      <3> QED
        BY <1>1, <3>1, <3>2, <3>3
    <2>2. /\ UNCHANGED <<owner, epochOf, scope, latest, request, writing>>
          /\ pointer' \in Daemon \cup {Nobody} /\ ports' \in Daemon \cup {Nobody}
      BY <1>1 DEF Start, CheckPointer, TakePorts, ReadOwnPointer, RemovePointer, OwnerInv,
         OwnerTypeOK
    <2> QED
      BY <2>1, <2>2, MoveKeepsInv
  <1>2. CASE RefusedByPointer(d) \/ RefusedByPorts(d) \/ RefusedByRow(d) \/ Leave(d) \/ Crash(d)
    BY <1>2, EndKeepsInv DEF RefusedByPointer, RefusedByPorts, RefusedByRow, Leave, Crash
  <1>3. CASE DaemonWrites(d)
    BY <1>3, BeginKeepsInv DEF DaemonWrites
  <1>4. CASE LosePorts(d)
    <2>1. OwnerTypeOK'
      BY <1>4 DEF LosePorts, OwnerInv, OwnerTypeOK
    <2> QED
      BY <1>4, <2>1 DEF LosePorts, OwnerInv, ActiveIsClaimed, OpenOwns, WriterOwns, SentAsAsked,
         Owns
  <1> QED
    BY <1>1, <1>2, <1>3, <1>4, ClaimKeepsInv, StayOpenKeepsInv, CloseKeepsInv DEF DaemonStep

LEMMA OwnerInvStep == OwnerInv /\ [OwnerNext]_ownerVars => OwnerInv'
  <1> SUFFICES ASSUME OwnerInv, [OwnerNext]_ownerVars PROVE OwnerInv'
    OBVIOUS
  <1>1. CASE UNCHANGED ownerVars
    BY <1>1 DEF ownerVars, OwnerInv, OwnerTypeOK, ActiveIsClaimed, OpenOwns, WriterOwns,
       SentAsAsked, Owns
  <1>2. ASSUME NEW h \in Hook, HookWrites(h) PROVE OwnerInv'
    BY <1>2, BeginKeepsInv DEF HookWrites
  <1> QED
    BY <1>1, <1>2, DaemonKeepsInv, SpawnKeepsInv, EndWriteKeepsInv, ClientKeepsInv DEF OwnerNext

LEMMA OwnerInvAlways == OwnerSpec => []OwnerInv
  BY OwnerInvInit, OwnerInvStep, PTL DEF OwnerSpec

-----------------------------------------------------------------------------
(* The variables of the native owner keep their types; an active row names  *)
(* the daemon that made the latest claim (claimNativeOwner).                *)
THEOREM OwnerTypeCorrect == OwnerSpec => []OwnerTypeOK
  BY OwnerInvAlways, PTL DEF OwnerInv

(* At most one live daemon has the native store open, whatever becomes of   *)
(* the pointer file and the ownership ports (startNativeService).           *)
THEOREM OneOwner == OwnerSpec => []SoleOwner
  <1>1. OwnerInv => SoleOwner
    BY DEF OwnerInv, OpenOwns, SoleOwner, Owns
  <1> QED
    BY <1>1, OwnerInvAlways, PTL

-----------------------------------------------------------------------------
(* Every step maps to a step of the fenced store or to a stutter.          *)
LEMMA StepIsFenced ==
  ASSUME OwnerInv, [OwnerNext]_ownerVars
  PROVE  [Fenced!Next]_<<owner.epoch, latest>>
  <1>1. CASE UNCHANGED ownerVars
    BY <1>1 DEF ownerVars
  <1>2. ASSUME NEW d \in Daemon, DaemonStep(d) PROVE [Fenced!Next]_<<owner.epoch, latest>>
    <2>1. CASE Claim(d)
      BY <2>1 DEF Claim, OwnerRow, Fenced!Next, Fenced!Succeed
    <2>2. CASE ClosePersistence(d)
      BY <2>2 DEF ClosePersistence, Released, OwnerRow
    <2>3. CASE UNCHANGED <<owner, latest>>
      BY <2>3
    <2> QED
      BY <1>2, <2>1, <2>2, <2>3 DEF DaemonStep, Start, CheckPointer, RefusedByPointer, TakePorts,
         RefusedByPorts, RefusedByRow, Publish, DaemonWrites, BeginWrite, Stop, ReadOwnPointer,
         RemovePointer, Leave, Crash, LosePorts, Ends
  <1>3. ASSUME NEW w \in Daemon \cup Hook, Commit(w) PROVE [Fenced!Next]_<<owner.epoch, latest>>
    <2>1. owner.epoch > 0 /\ latest' = owner.epoch /\ owner' = owner
      BY <1>3, CommittedEpoch DEF Commit
    <2> QED
      BY <2>1 DEF Fenced!Next, Fenced!Write
  <1>4. CASE UNCHANGED <<owner, latest>>
    BY <1>4
  <1> QED
    <2>1. ASSUME NEW h \in Hook, HookWrites(h) \/ \E d \in Daemon : SpawnHook(h, d)
          PROVE  UNCHANGED <<owner, latest>>
      BY <2>1 DEF HookWrites, BeginWrite, SpawnHook
    <2>2. ASSUME NEW w \in Daemon \cup Hook, Rollback(w) PROVE UNCHANGED <<owner, latest>>
      BY <2>2 DEF Rollback
    <2>3. ASSUME NEW c \in Client, ClientStep(c) PROVE UNCHANGED <<owner, latest>>
      BY <2>3 DEF ClientStep, AskStatus, SendRequest, Handle, Unanswered, Forget
    <2> QED
      BY <1>1, <1>2, <1>3, <1>4, <2>1, <2>2, <2>3 DEF OwnerNext

(* The store is written by one generation after another: nothing of an old  *)
(* generation arrives after a newer one has claimed the row, not even from a*)
(* hook that outlives its daemon (store.mjs, acquireNativeOwnerWrite).      *)
THEOREM WritesFollowEpochs == OwnerSpec => WritesAreFenced
  <1>1. OwnerInit => Fenced!Init
    BY DEF OwnerInit, OwnerRow, Fenced!Init
  <1>2. OwnerInv /\ [OwnerNext]_ownerVars => [Fenced!Next]_<<owner.epoch, latest>>
    BY StepIsFenced
  <1> QED
    BY <1>1, <1>2, OwnerInvAlways, PTL DEF OwnerSpec, WritesAreFenced, Fenced!Spec

(* A request that follows a check of the runtime's policy is carried out by *)
(* the runtime that was checked, while it owns the project (nativeRequest). *)
THEOREM RequestsReachTheChecked == OwnerSpec => RequestsStayPut
  <1>1. OwnerInv /\ [OwnerNext]_ownerVars => [HandledByTheChecked]_ownerVars
    <2> SUFFICES ASSUME OwnerInv, NEW c \in Client, Handle(c)
                 PROVE  request[c].sent = request[c].asked /\ Owns(request[c].asked)
      BY DEF HandledByTheChecked
    <2>1. request[c].sent # Nobody /\ Owns(request[c].sent)
      BY DEF Handle, Accepts
    <2>2. request[c].sent = request[c].asked
      BY <2>1 DEF OwnerInv, SentAsAsked
    <2> QED
      BY <2>1, <2>2
  <1> QED
    BY <1>1, OwnerInvAlways, PTL DEF OwnerSpec, RequestsStayPut

-----------------------------------------------------------------------------
(* The file lock (SocketLock).  A contender that nothing has misled finds    *)
(* every port it has left behind its own or a stranger's (BehindIsSettled):  *)
(* so no holder can come after it, nor can it be that holder's second.       *)

\* Nothing has misled an attempt, silence aside for those it does not mislead.
Sighted(c) == blind[c] \ (IF c \in Strict THEN {"slow"} ELSE {}) = {}

\* The ports an attempt under way has left behind.
Behind(c) == { p \in Port : p < attempt[c].port }

\* What a sighted attempt has left behind is its own or a stranger's.
BehindIsSettled ==
    \A c \in Contender : Trying(c) /\ Sighted(c) =>
        \A p \in Behind(c) : listener[p] = c \/ listener[p] \in Stranger

\* A probe is of a port.
ProbesAPort == \A c \in Contender : attempt[c].phase = "probing" => attempt[c].port \in Port

LockInv == LockTypeOK /\ ProbesAPort /\ BehindIsSettled /\ LockIsExclusive

LEMMA FreeIsNobody == Free \notin Contender \cup Stranger /\ Contender \cap Stranger = {}
  BY SocketAssumption DEF Free, Stranger, Silent, Talker

LEMMA LockInvInit == LockInit => LockInv
  BY SocketAssumption DEF LockInit, LockInv, LockTypeOK, ProbesAPort, BehindIsSettled,
     LockIsExclusive,
     Idle, Attempt, Bound, Trying, Holds, Port, Stranger, Free

\* A contender that starts over has no port, no attempt and no history.
LEMMA StartOverKeepsInv ==
  ASSUME LockInv, NEW c \in Contender, StartOver(c), UNCHANGED strangers
  PROVE  LockInv'
  <1> USE SocketAssumption
  <1>1. /\ \A p \in Port : listener'[p] = IF listener[p] = c THEN Free ELSE listener[p]
        /\ \A d \in Contender : /\ attempt'[d] = IF d = c THEN Idle ELSE attempt[d]
                                /\ blind'[d] = IF d = c THEN {} ELSE blind[d]
    BY DEF StartOver, Closed, LockInv, LockTypeOK
  <1>2. LockTypeOK'
    <2>1. listener' \in [Port -> Contender \cup Stranger \cup {Free}]
      BY DEF StartOver, Closed, LockInv, LockTypeOK
    <2>2. Idle \in [phase : {"idle", "binding", "probing", "held"}, port : 1..(PortCount + 1)]
      BY DEF Idle, Attempt
    <2>3. /\ attempt' \in [Contender -> [phase : {"idle", "binding", "probing", "held"},
                                         port : 1..(PortCount + 1)]]
          /\ blind' \in [Contender -> SUBSET {"gone", "slow", "left"}]
      BY <2>2 DEF StartOver, LockInv, LockTypeOK
    <2>4. \A d \in Contender : attempt'[d].phase = "idle" => Bound(d)' = {}
      BY <1>1 DEF LockInv, LockTypeOK, Bound, Free
    <2> QED
      BY <2>1, <2>3, <2>4 DEF LockInv, LockTypeOK
  <1>3. BehindIsSettled'
    <2> SUFFICES ASSUME NEW d \in Contender, Trying(d)', Sighted(d)',
                        NEW p \in Port, p < attempt'[d].port
                 PROVE  listener'[p] = d \/ listener'[p] \in Stranger
      BY DEF BehindIsSettled, Behind
    <2>1. d # c
      BY <1>1 DEF Trying, Idle, Attempt
    <2>2. listener[p] = d \/ listener[p] \in Stranger
      BY <1>1, <2>1 DEF LockInv, BehindIsSettled, Behind, Trying, Sighted
    <2> QED
      BY <1>1, <2>1, <2>2
  <1>4. LockIsExclusive'
    <2>1. \A d \in Contender : Holds(d)' => d # c /\ Holds(d)
      BY <1>1 DEF Holds, Bound, Idle, Attempt, Free
    <2> QED
      BY <1>1, <2>1 DEF LockInv, LockIsExclusive
  <1>5. ProbesAPort'
    BY <1>1 DEF LockInv, ProbesAPort, Idle, Attempt
  <1> QED
    BY <1>2, <1>3, <1>4, <1>5 DEF LockInv

\* An attempt goes on without touching a port.
LEMMA TurnKeepsInv ==
  ASSUME LockInv, NEW c \in Contender, Trying(c) \/ attempt[c] = Idle,
         NEW step \in {"binding", "probing"}, NEW port \in 1..(PortCount + 1),
         Turns(c, step, port), NEW reasons \in SUBSET {"gone", "slow", "left"},
         blind' = [blind EXCEPT ![c] = @ \cup reasons],
         UNCHANGED <<listener, strangers>>, step = "probing" => port \in Port,
         Sighted(c)' => \A p \in Port : p < port =>
                          listener[p] = c \/ listener[p] \in Stranger
  PROVE  LockInv'
  <1>1. \A d \in Contender : /\ attempt'[d] = IF d = c THEN Attempt(step, port) ELSE attempt[d]
                             /\ blind'[d] = IF d = c THEN blind[c] \cup reasons ELSE blind[d]
    BY DEF LockInv, LockTypeOK, Turns
  <1>2. LockTypeOK'
    <2>1. Attempt(step, port) \in [phase : {"idle", "binding", "probing", "held"},
                                    port : 1..(PortCount + 1)]
      BY DEF Attempt
    <2>2. /\ attempt' \in [Contender -> [phase : {"idle", "binding", "probing", "held"},
                                         port : 1..(PortCount + 1)]]
          /\ blind' \in [Contender -> SUBSET {"gone", "slow", "left"}]
      BY <2>1 DEF LockInv, LockTypeOK, Turns
    <2>3. \A d \in Contender : attempt'[d].phase = "idle" => Bound(d)' = {}
      BY <1>1 DEF LockInv, LockTypeOK, Bound, Attempt
    <2> QED
      BY <2>2, <2>3 DEF LockInv, LockTypeOK
  <1>3. BehindIsSettled'
    BY <1>1 DEF LockInv, BehindIsSettled, Behind, Trying, Sighted, Attempt
  <1>4. LockIsExclusive'
    <2>1. \A d \in Contender : Holds(d)' => d # c /\ Holds(d)
      BY <1>1 DEF Holds, Bound, Attempt
    <2> QED
      BY <1>1, <2>1 DEF LockInv, LockIsExclusive
  <1>5. ProbesAPort'
    BY <1>1 DEF LockInv, ProbesAPort, Attempt
  <1> QED
    BY <1>2, <1>3, <1>4, <1>5 DEF LockInv

LEMMA BindKeepsInv ==
  ASSUME LockInv, NEW c \in Contender, Bind(c)
  PROVE  LockInv'
  <1> USE SocketAssumption
  <1> DEFINE q == attempt[c].port
  <1>1. /\ q \in Port /\ listener[q] = Free /\ attempt[c].phase = "binding"
        /\ \A p \in Port : listener'[p] = IF p = q THEN c ELSE listener[p]
        /\ \A d \in Contender : attempt'[d] = IF d = c THEN Attempt("binding", q + 1) ELSE attempt[d]
        /\ UNCHANGED <<blind, strangers>>
    BY DEF Bind, Candidate, LockInv, LockTypeOK, Turns
  <1>2. LockTypeOK'
    <2>1. q + 1 \in 1..(PortCount + 1)
      BY <1>1 DEF Port
    <2>2. Attempt("binding", q + 1) \in [phase : {"idle", "binding", "probing", "held"},
                                         port : 1..(PortCount + 1)]
      BY <2>1 DEF Attempt
    <2>3. /\ attempt' \in [Contender -> [phase : {"idle", "binding", "probing", "held"},
                                         port : 1..(PortCount + 1)]]
          /\ listener' \in [Port -> Contender \cup Stranger \cup {Free}]
      BY <2>2 DEF LockInv, LockTypeOK, Bind, Turns, Candidate
    <2>4. \A d \in Contender : attempt'[d].phase = "idle" => Bound(d)' = {}
      BY <1>1 DEF LockInv, LockTypeOK, Bound, Attempt
    <2> QED
      BY <1>1, <2>3, <2>4 DEF LockInv, LockTypeOK
  <1>3. BehindIsSettled'
    <2> SUFFICES ASSUME NEW d \in Contender, Trying(d)', Sighted(d)',
                        NEW p \in Port, p < attempt'[d].port
                 PROVE  listener'[p] = d \/ listener'[p] \in Stranger
      BY DEF BehindIsSettled, Behind
    <2>1. CASE d # c
      <3>1. listener[p] = d \/ listener[p] \in Stranger
        BY <1>1, <2>1 DEF LockInv, BehindIsSettled, Behind, Trying, Sighted
      <3> QED
        BY <1>1, <2>1, <3>1, FreeIsNobody
    <2>2. CASE d = c
      <3>1. p < q + 1 /\ p \in Nat /\ q \in Nat
        BY <1>1, <2>2 DEF Attempt, Port
      <3>2. CASE p = q
        BY <1>1, <2>2, <3>2
      <3>3. CASE p < q
        <4>1. listener[p] = c \/ listener[p] \in Stranger
          BY <1>1, <2>2, <3>3 DEF LockInv, BehindIsSettled, Behind, Trying, Sighted
        <4> QED
          BY <1>1, <2>2, <4>1
      <3> QED
        BY <3>1, <3>2, <3>3
    <2> QED
      BY <2>1, <2>2
  <1>4. LockIsExclusive'
    <2>1. \A d \in Contender : Holds(d)' => d # c /\ Holds(d)
      BY <1>1 DEF Holds, Bound, Attempt
    <2> QED
      BY <1>1, <2>1 DEF LockInv, LockIsExclusive
  <1>5. ProbesAPort'
    BY <1>1 DEF LockInv, ProbesAPort, Attempt
  <1> QED
    BY <1>2, <1>3, <1>4, <1>5 DEF LockInv

\* A sighted contender acquires: every port is its own or a stranger's.
LEMMA AcquireKeepsInv ==
  ASSUME LockInv, NEW c \in Contender, Acquire(c)
  PROVE  LockInv'
  <1> USE SocketAssumption
  <1>1. /\ attempt[c].phase = "binding" /\ attempt[c].port \notin Port
        /\ UNCHANGED <<listener, blind, strangers>>
        /\ \A d \in Contender : attempt'[d] = IF d = c THEN Attempt("held", 1) ELSE attempt[d]
    BY DEF Acquire, Candidate, LockInv, LockTypeOK, Turns
  <1>2. LockTypeOK'
    <2>1. Attempt("held", 1) \in [phase : {"idle", "binding", "probing", "held"},
                                  port : 1..(PortCount + 1)]
      BY DEF Attempt
    <2>2. attempt' \in [Contender -> [phase : {"idle", "binding", "probing", "held"},
                                      port : 1..(PortCount + 1)]]
      BY <2>1 DEF LockInv, LockTypeOK, Acquire, Turns
    <2>3. \A d \in Contender : attempt'[d].phase = "idle" => Bound(d)' = {}
      BY <1>1 DEF LockInv, LockTypeOK, Bound, Attempt
    <2> QED
      BY <1>1, <2>2, <2>3 DEF LockInv, LockTypeOK
  <1>3. BehindIsSettled'
    BY <1>1 DEF LockInv, BehindIsSettled, Behind, Trying, Sighted, Attempt
  <1>4. LockIsExclusive'
    <2>1. attempt[c].port \in 1..(PortCount + 1)
      BY DEF LockInv, LockTypeOK
    <2>2. \A p \in Port : p < attempt[c].port
      BY <1>1, <2>1 DEF Port
    <2>3. Sighted(c) => \A p \in Port : listener[p] = c \/ listener[p] \in Stranger
      BY <1>1, <2>2 DEF LockInv, BehindIsSettled, Behind, Trying
    <2>4. Sighted(c) => \A d \in Contender : d # c => ~Holds(d)'
      BY <1>1, <2>3 DEF Holds, Bound
    <2>5. \A d \in Contender : d # c => (Holds(d)' <=> Holds(d))
      BY <1>1 DEF Holds, Bound
    <2> SUFFICES ASSUME NEW a \in Contender, NEW b \in Contender, Holds(a)', Holds(b)', a # b,
                        Sighted(a), Sighted(b)
                 PROVE  FALSE
      BY <1>1 DEF LockIsExclusive, Sighted
    <2>6. CASE a = c \/ b = c
      BY <2>4, <2>6
    <2>7. CASE a # c /\ b # c
      BY <2>5, <2>7 DEF LockInv, LockIsExclusive, Sighted
    <2> QED
      BY <2>6, <2>7
  <1>5. ProbesAPort'
    BY <1>1 DEF LockInv, ProbesAPort, Attempt
  <1> QED
    BY <1>2, <1>3, <1>4, <1>5 DEF LockInv

LEMMA PassByKeepsInv ==
  ASSUME LockInv, NEW c \in Contender, PassBy(c)
  PROVE  LockInv'
  <1> USE SocketAssumption
  <1> DEFINE q == attempt[c].port
  <1>1. attempt[c].phase = "probing" /\ q \in 1..PortCount
    BY DEF PassBy, LockInv, ProbesAPort, Port
  <1>2. PICK reasons \in SUBSET {"gone", "slow", "left"} :
          /\ Passes(c, reasons)
          /\ listener[q] \in Stranger \/ (reasons = {"gone"}) \/ (reasons = {"slow"} /\ c \notin Strict)
    <2>1. CASE Found(c) = Talker /\ Passes(c, {})
      BY <2>1 DEF Found, Candidate, Stranger
    <2>2. CASE Found(c) = Free /\ Passes(c, {"gone"})
      BY <2>2
    <2>3. CASE /\ MayBeSilent(Found(c)) /\ ~RejectsSilence(c)
               /\ Passes(c, IF Found(c) \in Contender THEN {"slow"} ELSE {})
      BY <2>3 DEF MayBeSilent, RejectsSilence, Found, Candidate, Stranger
    <2>4. CASE Found(c) \in Contender /\ ~Matches(Found(c))
      BY <2>4 DEF Matches
    <2> QED
      BY <2>1, <2>2, <2>3, <2>4 DEF PassBy
  <1>3. /\ Turns(c, "binding", q + 1) /\ UNCHANGED <<listener, strangers>>
        /\ blind' = [blind EXCEPT ![c] = @ \cup reasons]
        /\ q + 1 \in 1..(PortCount + 1)
    BY <1>1, <1>2 DEF Passes, Candidate
  <1>4. ASSUME Sighted(c)', NEW p \in Port, p < q + 1
        PROVE  listener[p] = c \/ listener[p] \in Stranger
    <2>1. blind'[c] = blind[c] \cup reasons
      BY <1>3 DEF LockInv, LockTypeOK
    <2>2. Sighted(c) /\ listener[q] \in Stranger
      BY <1>2, <1>4, <2>1 DEF Sighted
    <2>3. p = q \/ p < q
      BY <1>1, <1>4 DEF Port
    <2> QED
      BY <1>1, <2>2, <2>3 DEF LockInv, BehindIsSettled, Behind, Trying
  <1> QED
    BY <1>1, <1>3, <1>4, TurnKeepsInv DEF Trying

\* A stranger comes to a free port, which no sighted attempt has left behind;
\* when one leaves, those who have left it behind are not sighted any longer.
LEMMA StrangerKeepsInv ==
  ASSUME LockInv, NEW p \in Port, StrangerCame(p) \/ StrangerLeft(p)
  PROVE  LockInv'
  <1> USE SocketAssumption
  <1> DEFINE Seen(c) == IF listener'[p] = Free /\ Trying(c) /\ attempt[c].port >= p
                        THEN blind[c] \cup {"left"} ELSE blind[c]
  <1>1. /\ listener[p] \in Stranger \cup {Free} /\ listener'[p] \in Stranger \cup {Free}
        /\ \A r \in Port : r # p => listener'[r] = listener[r]
        /\ listener' \in [Port -> Contender \cup Stranger \cup {Free}]
        /\ UNCHANGED attempt /\ strangers' \in 0..MaxStrangers
        /\ listener'[p] = Free => listener[p] \in Stranger
        /\ blind' = [c \in Contender |-> Seen(c)]
    <2>1. CASE StrangerCame(p)
      <3>1. PICK kind \in Stranger : listener' = [listener EXCEPT ![p] = kind]
        BY <2>1 DEF StrangerCame
      <3>2. listener'[p] = kind /\ listener'[p] # Free
        BY <3>1, FreeIsNobody DEF LockInv, LockTypeOK
      <3>3. blind' = blind /\ blind = [c \in Contender |-> blind[c]]
        BY <2>1 DEF StrangerCame, LockInv, LockTypeOK
      <3> QED
        BY <2>1, <3>1, <3>2, <3>3 DEF StrangerCame, LockInv, LockTypeOK
    <2>2. CASE StrangerLeft(p)
      <3>1. listener'[p] = Free
        BY <2>2 DEF StrangerLeft, LockInv, LockTypeOK
      <3>2. blind' = [c \in Contender |-> Seen(c)]
        BY <2>2, <3>1 DEF StrangerLeft, Candidate
      <3> QED
        BY <2>2, <3>1, <3>2 DEF StrangerLeft, LockInv, LockTypeOK
    <2> QED
      BY <2>1, <2>2
  <1>2. LockTypeOK'
    <2>1. blind' \in [Contender -> SUBSET {"gone", "slow", "left"}]
      BY <1>1 DEF LockInv, LockTypeOK
    <2>2. \A c \in Contender : Bound(c)' = Bound(c)
      BY <1>1, FreeIsNobody DEF Bound
    <2> QED
      BY <1>1, <2>1, <2>2 DEF LockInv, LockTypeOK
  <1>3. BehindIsSettled'
    <2> SUFFICES ASSUME NEW d \in Contender, Trying(d)', Sighted(d)',
                        NEW r \in Port, r < attempt'[d].port
                 PROVE  listener'[r] = d \/ listener'[r] \in Stranger
      BY DEF BehindIsSettled, Behind
    <2>1. Trying(d) /\ blind'[d] = Seen(d) /\ attempt'[d] = attempt[d]
      BY <1>1 DEF Trying
    <2>2. Sighted(d)
      BY <2>1 DEF Sighted
    <2>3. listener[r] = d \/ listener[r] \in Stranger
      BY <2>1, <2>2 DEF LockInv, BehindIsSettled, Behind
    <2>4. CASE r = p /\ listener'[p] = Free
      <3>1. attempt[d].port >= p
        BY <2>1, <2>4 DEF Port, LockInv, LockTypeOK
      <3>2. "left" \in blind'[d]
        BY <2>1, <2>4, <3>1
      <3> QED
        BY <3>2 DEF Sighted
    <2> QED
      BY <1>1, <2>3, <2>4
  <1>4. LockIsExclusive'
    <2>1. \A d \in Contender : Holds(d)' <=> Holds(d)
      BY <1>1, FreeIsNobody DEF Bound, Holds
    <2>2. \A d \in Contender : blind[d] \subseteq blind'[d]
      BY <1>1
    <2> QED
      BY <2>1, <2>2 DEF LockInv, LockIsExclusive
  <1>5. ProbesAPort'
    BY <1>1 DEF LockInv, ProbesAPort
  <1> QED
    BY <1>2, <1>3, <1>4, <1>5 DEF LockInv

LEMMA ContenderKeepsInv ==
  ASSUME LockInv, NEW c \in Contender, ContenderStep(c)
  PROVE  LockInv'
  <1> USE SocketAssumption
  <1> DEFINE q == attempt[c].port
  <1>1. CASE Begin(c)
    <2>1. 1 \in 1..(PortCount + 1) /\ ~\E p \in Port : p < 1
      BY DEF Port
    <2>2. blind' = [blind EXCEPT ![c] = @ \cup {}]
      BY <1>1 DEF Begin, LockInv, LockTypeOK
    <2> QED
      BY <1>1, <2>1, <2>2, TurnKeepsInv DEF Begin
  <1>2. CASE FindTaken(c)
    <2>1. Trying(c) /\ q \in 1..(PortCount + 1) /\ Turns(c, "probing", q) /\ q \in Port
      BY <1>2 DEF FindTaken, Trying, Candidate, Port
    <2>2. blind' = [blind EXCEPT ![c] = @ \cup {}] /\ UNCHANGED blind
      BY <1>2 DEF FindTaken, LockInv, LockTypeOK
    <2>3. Sighted(c)' => \A p \in Port : p < q => listener[p] = c \/ listener[p] \in Stranger
      BY <2>1, <2>2 DEF LockInv, BehindIsSettled, Behind, Sighted
    <2>4. UNCHANGED <<listener, strangers>> /\ {} \in SUBSET {"gone", "slow", "left"}
      BY <1>2 DEF FindTaken
    <2> HIDE DEF q
    <2> QED
      BY <2>1, <2>2, <2>3, <2>4, TurnKeepsInv
  <1>3. CASE ProbeMatches(c) \/ ProbeRejected(c) \/ BindsNone(c) \/ LetGo(c)
    BY <1>3, StartOverKeepsInv DEF ProbeMatches, ProbeRejected, BindsNone, LetGo
  <1> QED
    BY <1>1, <1>2, <1>3, BindKeepsInv, PassByKeepsInv, AcquireKeepsInv DEF ContenderStep

LEMMA LockInvStep == LockInv /\ [LockNext]_lockVars => LockInv'
  <1>1. LockInv /\ UNCHANGED lockVars => LockInv'
    BY DEF lockVars, LockInv, LockTypeOK, ProbesAPort, BehindIsSettled, LockIsExclusive, Behind,
       Sighted, Trying,
       Holds, Bound
  <1> QED
    BY <1>1, ContenderKeepsInv, StrangerKeepsInv DEF LockNext

LEMMA LockInvAlways == LockSpec => []LockInv
  BY LockInvInit, LockInvStep, PTL DEF LockSpec

(* Who holds or tries the file lock owns the ports it has bound, and nobody *)
(* else has one (closeServers).                                             *)
THEOREM LockTypeCorrect == LockSpec => []LockTypeOK
  BY LockInvAlways, PTL DEF LockInv

(* For any number of processes, ports and strangers: two hold the lock only *)
(* if one of them was misled on its way (withFileLock, probeOccupant).      *)
THEOREM OneHolder == LockSpec => []LockIsExclusive
  BY LockInvAlways, PTL DEF LockInv

-----------------------------------------------------------------------------
(* The journal of submitted commands (CliSubmissions).  What was synced is   *)
(* kept (Kept); the first command goes on to the daemon only from there      *)
(* (FirstIsSafe), whatever its own step and the file are in between          *)
(* (FirstSaves).                                                             *)

Kept == Exists("submission") /\ "submission" \in synced

Saving == {"writing", "written", "linked", "unlinked", "synced"}
CommandSteps == Saving \cup {"idle", "saved", "posted", "stat", "repairing", "invalid", "done"}

\* Only the first command saves the submission, and only once.
OthersSaveReceipts ==
    \A p \in Process \ {First} : Step(p) \in Saving => Record(p) = "receipt"

\* What the step of a command that works on the submission says of it.
StepTells(step) ==
    /\ step \in {"idle", "writing", "written"} => ~Exists("submission")
    /\ step \in {"linked", "unlinked"} => Exists("submission")
    /\ step = "synced" => "submission" \in synced
    /\ step \notin {"stat", "repairing"}

FirstSaves == Record(First) = "submission" => StepTells(Step(First))

\* The first command goes on to the daemon, and to the receipt, once the
\* submission is safe.
FirstIsSafe ==
    Record(First) = "receipt" \/ Step(First) \in {"saved", "posted"} \/ First \in asked => Kept

JournalInv ==
    JournalTypeOK /\ OthersSaveReceipts /\ FirstSaves /\ FirstIsSafe /\ JournalIsReadable

LEMMA JournalInvInit == JournalInit => JournalInv
  <1> SUFFICES ASSUME JournalInit PROVE JournalInv
    OBVIOUS
  <1>1. /\ First \in Process /\ ~Exists("submission") /\ First \notin asked
        /\ \A p \in Process : Step(p) = "idle" /\ Record(p) = "submission"
    BY DEF JournalInit, At, Step, Record, Exists, Process, Name
  <1>2. JournalTypeOK
    BY JournalAssumption DEF JournalInit, JournalTypeOK, At, Name
  <1> QED
    BY <1>1, <1>2 DEF JournalInv, OthersSaveReceipts, FirstSaves, StepTells, FirstIsSafe,
       JournalIsReadable, Saving

\* The command p goes on, and nothing that is safe is lost.
LEMMA MoveKeepsJournal ==
  ASSUME JournalInv, NEW p \in Process, NEW s \in CommandSteps \ {"invalid"}, NEW n \in Name,
         process' = [process EXCEPT ![p] = At(s, n)],
         published' \in [Name -> Process \cup {NoFile}],
         \A m \in Name : Exists(m) => published'[m] = published[m],
         temp' \subseteq Process \X Name, synced \subseteq synced',
         synced' \subseteq { m \in Name : Exists(m)' },
         asked' \subseteq Process, UNCHANGED power,
         p = First => /\ asked' \subseteq asked \cup {First}
                      /\ n = "submission" => StepTells(s)'
                      /\ n = "receipt" \/ s \in {"saved", "posted"} \/ First \in asked' => Kept',
         p # First => /\ asked' \subseteq asked \cup {p}
                      /\ published'["submission"] = published["submission"]
                      /\ s \in Saving => n = "receipt"
  PROVE  JournalInv'
  <1>1. /\ First \in Process
        /\ \A r \in Process : /\ Step(r)' = IF r = p THEN s ELSE Step(r)
                              /\ Record(r)' = IF r = p THEN n ELSE Record(r)
    BY DEF JournalInv, JournalTypeOK, Step, Record, At, Process
  <1>2. JournalTypeOK'
    <2>1. At(s, n) \in [step : CommandSteps, name : Name]
      BY DEF At
    <2>2. process \in [Process -> [step : CommandSteps, name : Name]]
      BY DEF JournalInv, JournalTypeOK, CommandSteps, Saving
    <2>3. process' \in [Process -> [step : CommandSteps, name : Name]]
      BY <2>1, <2>2
    <2> QED
      BY <2>3 DEF JournalInv, JournalTypeOK, CommandSteps, Saving
  <1>3. Kept => Kept'
    BY DEF Kept, Exists, Name
  <1>4. FirstSaves'
    <2>1. CASE p = First
      BY <1>1, <2>1 DEF FirstSaves
    <2>2. CASE p # First
      <3>1. StepTells(Step(First)) => StepTells(Step(First))'
        BY <1>1, <2>2 DEF StepTells, Exists
      <3> QED
        BY <1>1, <2>2, <3>1 DEF JournalInv, FirstSaves
    <2> QED
      BY <2>1, <2>2
  <1>5. FirstIsSafe'
    BY <1>1, <1>3 DEF JournalInv, FirstIsSafe
  <1>6. OthersSaveReceipts' /\ JournalIsReadable'
    BY <1>1 DEF JournalInv, OthersSaveReceipts, JournalIsReadable
  <1> QED
    BY <1>2, <1>4, <1>5, <1>6 DEF JournalInv

\* A command that has written, or is about to, and only that.
LEMMA SavesKeepJournal ==
  ASSUME JournalInv, NEW p \in Process,
         \/ WriteTemp(p) \/ LinkName(p) \/ LoseRace(p) \/ UnlinkTemp(p)
         \/ SyncDirectory(p) \/ CheckPublished(p) \/ WriteFails(p)
  PROVE  JournalInv'
  <1> DEFINE n == Record(p)
  <1>1. /\ n \in Name /\ Step(p) \in CommandSteps /\ First \in Process
        /\ published \in [Name -> Process \cup {NoFile}] /\ temp \subseteq Process \X Name
        /\ synced \subseteq { m \in Name : Exists(m) } /\ asked \subseteq Process
        /\ p = First /\ n = "submission" => StepTells(Step(p))
        /\ p = First /\ n = "receipt" => Kept
        /\ p = First /\ First \in asked => Kept
        /\ p # First /\ Step(p) \in Saving => n = "receipt"
    BY DEF JournalInv, JournalTypeOK, CommandSteps, Saving, FirstSaves, FirstIsSafe,
       OthersSaveReceipts,
       Step, Record, Process
  <1>2. Name = {"submission", "receipt"}
    BY DEF Name
  <1>3. CASE WriteTemp(p)
    <2>1. /\ process' = [process EXCEPT ![p] = At("written", n)]
          /\ UNCHANGED <<published, synced, asked, power>> /\ Step(p) = "writing"
      BY <1>3 DEF WriteTemp, Goes
    <2>2. temp' \subseteq Process \X Name
      BY <1>1, <1>3 DEF WriteTemp
    <2>3. Kept' = Kept /\ StepTells("written")' = StepTells("writing")
      BY <2>1 DEF Kept, StepTells, Exists
    <2> HIDE DEF n
    <2> QED
      BY <1>1, <1>2, <2>1, <2>2, <2>3, MoveKeepsJournal DEF CommandSteps, Saving, Exists
  <1>4. CASE LinkName(p)
    <2>1. /\ process' = [process EXCEPT ![p] = At("linked", n)] /\ ~Exists(n)
          /\ published' = [published EXCEPT ![n] = p]
          /\ UNCHANGED <<temp, synced, asked, power>> /\ Step(p) = "written"
      BY <1>4 DEF LinkName, Goes
    <2> HIDE DEF n
    <2>2. published' \in [Name -> Process \cup {NoFile}] /\ published'[n] = p
      BY <1>1, <2>1
    <2>3. \A m \in Name : Exists(m) => published'[m] = published[m]
      BY <1>1, <2>1 DEF Exists
    <2>4. synced' \subseteq { m \in Name : Exists(m)' }
      BY <1>1, <2>1, <2>3 DEF Exists
    <2>5. p = First /\ n = "submission" => StepTells("linked")'
      BY <2>2, JournalAssumption DEF StepTells, Exists
    <2>6. Kept => Kept'
      BY <2>1, <2>3, <1>2 DEF Kept, Exists
    <2>7. p # First => n = "receipt" /\ published'["submission"] = published["submission"]
      BY <1>1, <1>2, <2>1 DEF Saving
    <2> QED
      BY <1>1, <1>2, <2>1, <2>2, <2>3, <2>4, <2>5, <2>6, <2>7, MoveKeepsJournal DEF CommandSteps,
         Saving
  <1>5. CASE LoseRace(p)
    <2>1. /\ process' = [process EXCEPT ![p] = At("stat", n)] /\ Exists(n)
          /\ UNCHANGED <<published, synced, asked, power>> /\ Step(p) = "written"
          /\ temp' \subseteq temp
      BY <1>5 DEF LoseRace, Goes
    <2>2. p = First => n = "receipt"
      BY <1>1, <1>2, <2>1 DEF StepTells
    <2>3. Kept' = Kept
      BY <2>1 DEF Kept, Exists
    <2>4. p # First => n = "receipt"
      BY <1>1, <2>1 DEF Saving
    <2> HIDE DEF n
    <2> QED
      BY <1>1, <1>2, <2>1, <2>2, <2>3, <2>4, MoveKeepsJournal DEF CommandSteps, Saving, Exists
  <1>6. CASE UnlinkTemp(p)
    <2>1. /\ process' = [process EXCEPT ![p] = At("unlinked", n)]
          /\ UNCHANGED <<published, synced, asked, power>> /\ Step(p) = "linked"
          /\ temp' \subseteq temp
      BY <1>6 DEF UnlinkTemp, Goes
    <2>3. Kept' = Kept /\ StepTells("unlinked")' = StepTells("linked")
      BY <2>1 DEF Kept, StepTells, Exists
    <2> HIDE DEF n
    <2> QED
      BY <1>1, <1>2, <2>1, <2>3, MoveKeepsJournal DEF CommandSteps, Saving, Exists
  <1>7. CASE SyncDirectory(p)
    <2>1. /\ process' = [process EXCEPT ![p] = At("synced", n)]
          /\ UNCHANGED <<published, temp, asked, power>> /\ Step(p) = "unlinked"
          /\ synced' = synced \cup { m \in Name : Exists(m) }
      BY <1>7 DEF SyncDirectory, Goes
    <2>2. p = First /\ n = "submission" => StepTells("synced")'
      BY <1>1, <1>2, <2>1 DEF StepTells
    <2>3. Kept => Kept'
      BY <2>1 DEF Kept, Exists
    <2> HIDE DEF n
    <2> QED
      BY <1>1, <1>2, <2>1, <2>2, <2>3, MoveKeepsJournal DEF CommandSteps, Saving, Exists
  <1>8. CASE CheckPublished(p)
    <2> DEFINE s == IF n = "submission" THEN "saved" ELSE "done"
    <2>1. /\ process' = [process EXCEPT ![p] = At(s, n)]
          /\ UNCHANGED <<published, temp, synced, asked, power>> /\ Step(p) = "synced"
      BY <1>8 DEF CheckPublished, Goes, AfterLink
    <2>2. p = First /\ n = "submission" => Kept
      BY <1>1, <1>2, <2>1 DEF StepTells, Kept
    <2>3. Kept' = Kept /\ StepTells("saved")' /\ StepTells("done")'
      BY <2>1 DEF Kept, StepTells, Exists
    <2> HIDE DEF n
    <2> QED
      BY <1>1, <1>2, <2>1, <2>2, <2>3, MoveKeepsJournal DEF CommandSteps, Saving, Exists
  <1>9. CASE WriteFails(p)
    <2>1. /\ process' = [process EXCEPT ![p] = At("done", n)]
          /\ UNCHANGED <<published, synced, asked, power>> /\ temp' \subseteq temp
      BY <1>9 DEF WriteFails, Goes
    <2>3. Kept' = Kept /\ StepTells("done")'
      BY <2>1 DEF Kept, StepTells, Exists
    <2> HIDE DEF n
    <2> QED
      BY <1>1, <1>2, <2>1, <2>3, MoveKeepsJournal DEF CommandSteps, Saving, Exists
  <1> QED
    BY <1>3, <1>4, <1>5, <1>6, <1>7, <1>8, <1>9

\* A command that reads a record, and what it has read.
LEMMA ReadsKeepJournal ==
  ASSUME JournalInv, NEW p \in Process,
         StatMissing(p) \/ StatSingle(p) \/ StatDouble(p) \/ RepairLink(p) \/ FindNoLink(p)
  PROVE  JournalInv'
  <1> DEFINE n == Record(p)
  <1>1. /\ n \in Name /\ First \in Process /\ Step(p) \in {"stat", "repairing"}
        /\ published \in [Name -> Process \cup {NoFile}] /\ temp \subseteq Process \X Name
        /\ synced \subseteq { m \in Name : Exists(m) } /\ asked \subseteq Process
        /\ p = First => n = "receipt" /\ Kept
    BY DEF JournalInv, JournalTypeOK, FirstSaves, FirstIsSafe, StepTells, Name,
       Step, Record, Process, StatMissing, StatSingle, StatDouble, RepairLink, FindNoLink
  <1>2. PICK s \in CommandSteps \ {"invalid"}, m \in Name :
          /\ process' = [process EXCEPT ![p] = At(s, m)]
          /\ p = First => m = "receipt"
          /\ s \in Saving => m = "receipt"
    <2>1. ASSUME NEW found \in BOOLEAN, Then(p, found)
          PROVE  \E s \in CommandSteps \ {"invalid"}, m \in Name :
                   /\ process' = [process EXCEPT ![p] = At(s, m)]
                   /\ p = First => m = "receipt"
                   /\ s \in Saving => m = "receipt"
      <3> DEFINE s == IF n = "submission"
                      THEN IF p \in Lister THEN IF found THEN "stat" ELSE "done"
                                           ELSE IF found THEN "saved" ELSE "done"
                      ELSE IF found \/ p \in Lister THEN "done" ELSE "writing"
                 m == IF n = "submission" /\ p \notin Lister THEN "submission" ELSE "receipt"
      <3>1. process' = [process EXCEPT ![p] = At(s, m)]
        BY <2>1 DEF Then
      <3>2. s \in CommandSteps \ {"invalid"} /\ m \in Name
        BY DEF CommandSteps, Saving, Name
      <3>3. (p = First => m = "receipt") /\ (s \in Saving => m = "receipt")
        BY <1>1 DEF Saving
      <3> HIDE DEF s, m
      <3> QED
        BY <3>1, <3>2, <3>3
    <2>2. CASE StatDouble(p)
      <3>1. process' = [process EXCEPT ![p] = At("repairing", n)]
        BY <2>2 DEF StatDouble, Goes
      <3>2. "repairing" \in CommandSteps \ {"invalid"} /\ "repairing" \notin Saving
        BY DEF CommandSteps, Saving
      <3> HIDE DEF n
      <3> QED
        BY <1>1, <3>1, <3>2
    <2>3. CASE ~StatDouble(p)
      BY <2>1, <2>3 DEF StatMissing, StatSingle, RepairLink, FindNoLink, Repaired
    <2> QED
      BY <2>2, <2>3
  <1>3. /\ UNCHANGED <<published, asked, power>> /\ temp' \subseteq temp
        /\ synced \subseteq synced' /\ synced' \subseteq { k \in Name : Exists(k) }
    <2>1. CASE RepairLink(p)
      BY <1>1, <2>1 DEF RepairLink
    <2>2. CASE ~RepairLink(p)
      BY <1>1, <2>2 DEF StatMissing, StatSingle, StatDouble, FindNoLink
    <2> QED
      BY <2>1, <2>2
  <1>4. Kept => Kept'
    BY <1>3 DEF Kept, Exists
  <1> HIDE DEF n
  <1> QED
    BY <1>1, <1>2, <1>3, <1>4, MoveKeepsJournal DEF Exists, Name

\* A command begins, asks the daemon, hears of it, or ends.
LEMMA CommandsKeepJournal ==
  ASSUME JournalInv, NEW p \in Process,
         Run(p) \/ Post(p) \/ PostFails(p) \/ Answered(p) \/ Killed(p)
  PROVE  JournalInv'
  <1> DEFINE n == Record(p)
  <1>1. /\ n \in Name /\ First \in Process /\ UNCHANGED <<published, temp, synced, power>>
        /\ published \in [Name -> Process \cup {NoFile}] /\ temp \subseteq Process \X Name
        /\ synced \subseteq { m \in Name : Exists(m) } /\ asked \subseteq Process
        /\ p = First /\ n = "submission" => StepTells(Step(p))
        /\ p = First /\ (n = "receipt" \/ Step(p) \in {"saved", "posted"} \/ First \in asked) => Kept
    BY DEF JournalInv, JournalTypeOK, FirstSaves, FirstIsSafe,
       Step, Record, Process, Run, Post, PostFails, Answered, Killed
  <1>2. Name = {"submission", "receipt"} /\ Kept' = Kept
    BY <1>1 DEF Name, Kept, Exists
  <1>3. \A s \in CommandSteps : StepTells(s)' = StepTells(s)
    BY <1>1 DEF StepTells, Exists
  <1>4. CASE Run(p)
    <2>1. /\ process' = [process EXCEPT ![p] = At(IF p = First THEN "writing" ELSE "stat", n)]
          /\ UNCHANGED asked /\ Step(p) = "idle"
      BY <1>4 DEF Run, Goes
    <2>2. StepTells("writing") = StepTells("idle")
      BY DEF StepTells
    <2> HIDE DEF n
    <2> QED
      BY <1>1, <1>2, <1>3, <2>1, <2>2, MoveKeepsJournal DEF CommandSteps, Saving, Exists
  <1>5. CASE Post(p)
    <2>1. /\ process' = [process EXCEPT ![p] = At("posted", n)]
          /\ asked' = asked \cup {p} /\ Step(p) = "saved"
      BY <1>5 DEF Post, Goes
    <2>2. StepTells("posted")
      BY DEF StepTells
    <2> HIDE DEF n
    <2> QED
      BY <1>1, <1>2, <1>3, <2>1, <2>2, MoveKeepsJournal DEF CommandSteps, Saving, Exists
  <1>6. CASE PostFails(p) \/ Killed(p)
    <2>1. /\ process' = [process EXCEPT ![p] = At("done", n)]
          /\ UNCHANGED asked
      BY <1>6 DEF PostFails, Killed, Goes
    <2>2. StepTells("done")
      BY DEF StepTells
    <2> HIDE DEF n
    <2> QED
      BY <1>1, <1>2, <1>3, <2>1, <2>2, MoveKeepsJournal DEF CommandSteps, Saving, Exists
  <1>7. CASE Answered(p)
    <2>1. /\ process' = [process EXCEPT ![p] = At("stat", "receipt")]
          /\ UNCHANGED asked /\ Step(p) = "posted"
      BY <1>7 DEF Answered
    <2> HIDE DEF n
    <2> QED
      BY <1>1, <1>2, <1>3, <2>1, MoveKeepsJournal DEF CommandSteps, Saving, Exists
  <1> QED
    BY <1>4, <1>5, <1>6, <1>7

\* Only links that were not synced are lost.
LEMMA PowerKeepsJournal ==
  ASSUME JournalInv, PowerFails
  PROVE  JournalInv'
  <1>1. PICK gone \in SUBSET ({ n \in Name : Exists(n) } \ synced) :
          published' = [n \in Name |-> IF n \in gone THEN NoFile ELSE published[n]]
    BY DEF PowerFails
  <1>2. /\ process' = [p \in Process |-> IF Step(p) = "idle" THEN process[p] ELSE At("done", Record(p))]
        /\ synced' = { n \in Name : Exists(n)' }
        /\ UNCHANGED asked /\ First \in Process /\ power' \in 0..MaxPowerLoss /\ temp' \subseteq temp
    BY JournalAssumption DEF PowerFails, Exists, Process, JournalInv, JournalTypeOK
  <1>3. \A p \in Process : /\ Step(p)' = IF Step(p) = "idle" THEN "idle" ELSE "done"
                           /\ Record(p)' = Record(p)
    BY <1>2 DEF Step, Record, At
  <1>4. JournalTypeOK'
    <2>1. published' \in [Name -> Process \cup {NoFile}]
      BY <1>1 DEF JournalInv, JournalTypeOK
    <2>2. process' \in [Process -> [step : CommandSteps, name : Name]]
      BY <1>2 DEF JournalInv, JournalTypeOK, At, Record, CommandSteps, Saving
    <2>3. CommandSteps = {"idle", "writing", "written", "linked", "unlinked", "synced", "saved",
                          "posted", "stat", "repairing", "invalid", "done"}
      BY DEF CommandSteps, Saving
    <2> QED
      BY <1>2, <2>1, <2>2, <2>3 DEF JournalInv, JournalTypeOK
  <1>5. Kept => Kept'
    BY <1>1, <1>2 DEF Kept, Exists, Name
  <1>6. ~Exists("submission") => ~Exists("submission")'
    BY <1>1 DEF Exists, Name
  <1>7. FirstSaves' /\ FirstIsSafe'
    BY <1>2, <1>3, <1>5, <1>6 DEF JournalInv, FirstSaves, FirstIsSafe, StepTells
  <1>8. OthersSaveReceipts' /\ JournalIsReadable'
    BY <1>3 DEF OthersSaveReceipts, JournalIsReadable, Saving
  <1> QED
    BY <1>4, <1>7, <1>8 DEF JournalInv

LEMMA JournalInvStep == JournalInv /\ [JournalNext]_journalVars => JournalInv'
  <1>1. JournalInv /\ UNCHANGED journalVars => JournalInv'
    BY DEF journalVars, JournalInv, JournalTypeOK, OthersSaveReceipts, FirstSaves, StepTells,
       FirstIsSafe, JournalIsReadable, Kept, Exists, Step, Record
  <1> QED
    BY <1>1, SavesKeepJournal, ReadsKeepJournal, CommandsKeepJournal, PowerKeepsJournal
    DEF JournalNext, ProcessStep

LEMMA JournalInvAlways == JournalSpec => []JournalInv
  BY JournalInvInit, JournalInvStep, PTL DEF JournalSpec

(* The journal's records keep their types; what is synced exists.           *)
THEOREM JournalTypeCorrect == JournalSpec => []JournalTypeOK
  BY JournalInvAlways, PTL DEF JournalInv

(* For any number of commands: none is turned away by a record whose second *)
(* link goes while it looks (repairPublishedLink).                          *)
THEOREM EveryRecordIsRead == JournalSpec => []JournalIsReadable
  BY JournalInvAlways, PTL DEF JournalInv

(* For any number of commands and power failures: what the first command has*)
(* sent stays on record (writeRecord, cmdNativeSend).                       *)
THEOREM SentIsOnRecord == JournalSpec => []SendIsOnRecord
  <1>1. JournalInv => SendIsOnRecord
    BY DEF JournalInv, FirstIsSafe, Kept, SendIsOnRecord
  <1> QED
    BY <1>1, JournalInvAlways, PTL

-----------------------------------------------------------------------------
(* The parts together (MCParts).  As they share no variable, a step of one  *)
(* is a stutter of each other, and what was proved of a part holds of it in *)
(* their company.                                                           *)

LEMMA OneMoves ==
  ASSUME [Next]_partVars
  PROVE  /\ [OwnerNext]_ownerVars /\ [LockNext]_lockVars /\ [JournalNext]_journalVars
         /\ [MailNext]_mailVars /\ [RunNext]_runVars /\ [InboxNext]_inboxVars
  <1>1. CASE UNCHANGED partVars
    BY <1>1 DEF partVars
  <1>2. CASE Next
    BY <1>2 DEF Next, OwnerMoves, LockMoves, JournalMoves, MailMoves, RunMoves, InboxMoves
  <1> QED
    BY <1>1, <1>2

(* Every behaviour of the parts together is a behaviour of each: the owner, *)
(* the lock, the journal, the two kinds of mail and the sessions keep to    *)
(* their own rows and files.                                                *)
THEOREM EachKeepsItsPromises ==
  Spec => OwnerSpec /\ LockSpec /\ JournalSpec /\ MailSpec /\ RunSpec /\ InboxSpec
  <1>1. Init => OwnerInit /\ LockInit /\ JournalInit /\ MailInit /\ RunInit /\ InboxInit
    BY DEF Init
  <1>2. [Next]_partVars =>
          /\ [OwnerNext]_ownerVars /\ [LockNext]_lockVars /\ [JournalNext]_journalVars
          /\ [MailNext]_mailVars /\ [RunNext]_runVars /\ [InboxNext]_inboxVars
    BY OneMoves
  <1> QED
    BY <1>1, <1>2, PTL DEF Spec, OwnerSpec, LockSpec, JournalSpec, MailSpec, RunSpec, InboxSpec

(* The variables of all the parts keep their types together.                *)
THEOREM PartsTypeCorrect == Spec => []PartsTypeOK
  BY EachKeepsItsPromises, OwnerTypeCorrect, LockTypeCorrect, JournalTypeCorrect, MailTypeCorrect,
     RunTypeCorrect, InboxTypeCorrect, PTL DEF PartsTypeOK
==============================================================================
