------------------------------ MODULE NativeOwner ------------------------------
(***************************************************************************)
(* Who owns a project's native runtime: the daemons that start and stop    *)
(* (startNativeService in lib/runtime/native/service.mjs), the owner row   *)
(* and the pointer file they fence one another with (store.mjs), the hooks *)
(* and MCP servers that write on a daemon's behalf, and the commands that  *)
(* check a runtime's policy before they ask it for something (client.mjs). *)
(*                                                                         *)
(* Four things guard the store, each read and written on its own: the      *)
(* pointer file, the lock on the ownership ports (SocketLock), the row in  *)
(* state.db, and SQLite's writer lock on that database.  Any process may   *)
(* die at any step, and the ports may be lost while their process lives.   *)
(*                                                                         *)
(* A daemon is its generation.  Project directories that change under a    *)
(* daemon, and pointers older than the owner row, are left out.            *)
(***************************************************************************)
EXTENDS Integers

CONSTANTS
    MaxDaemons,     \* bound on daemons started
    Hook,           \* processes that write for the daemon that spawned them
    Client          \* commands that check a runtime before they use it

ASSUME OwnerAssumption == MaxDaemons \in Nat

Daemon == 1..MaxDaemons
Nobody == 0

VARIABLES
    owner,      \* the native_owner row
    pointer,    \* the generation runtime.json names
    ports,      \* the daemon whose lock worker holds the ownership ports
    stage,      \* how far each daemon has come
    epochOf,    \* history: the epoch each daemon claimed
    scope,      \* the generation each hook was spawned for
    writing,    \* who is inside BEGIN IMMEDIATE, and for which generation
    latest,     \* history: the epoch of the latest write to the databases
    request     \* what each command knows of the runtime it talks to

ownerVars == <<owner, pointer, ports, stage, epochOf, scope, writing, latest, request>>

Before == {"none", "started", "checked", "locked", "rechecked", "cleared"}
Open == {"claimed", "serving", "stopping"}      \* may write to the databases
After == {"closed", "removing", "leaving", "dead"}
Stages == Before \cup Open \cup After

Alive(d) == d \in Daemon /\ stage[d] \notin {"none", "dead"}

OwnerRow(generation, state, epoch) ==
    [generation |-> generation, state |-> state, epoch |-> epoch]

Request(asked, sent) == [asked |-> asked, sent |-> sent]
NoRequest == Request(Nobody, Nobody)

OwnerInit ==
    /\ owner = OwnerRow(Nobody, "released", 0)
    /\ pointer = Nobody
    /\ ports = Nobody
    /\ stage = [d \in Daemon |-> "none"]
    /\ epochOf = [d \in Daemon |-> 0]
    /\ scope = [h \in Hook |-> Nobody]
    /\ writing = [w \in Daemon \cup Hook |-> Nobody]
    /\ latest = 0
    /\ request = [c \in Client |-> NoRequest]

-----------------------------------------------------------------------------
(* What one daemon can tell of another.  Inspecting a process may fail:    *)
(* then it counts as alive.                                                *)

MayFindExited(d) == ~Alive(d)
MayFindRunning(d) == d # Nobody

\* Faulty variant of MayReplace: the row of a live owner is replaced as well.
MayReplaceLive(row) == TRUE

\* The row may be taken over: nobody's, released, or of a process that exited.
MayReplace(row) == row.state = "released" \/ MayFindExited(row.generation)

\* Faulty variant of WriterFree: SQLite's writer lock is not asked for.
WriterFreeAlways == TRUE

\* BEGIN IMMEDIATE can start.
WriterFree == \A w \in Daemon \cup Hook : writing[w] = Nobody

Owns(d) == owner.state = "active" /\ owner.generation = d

\* ownership.assertHeld(): the worker frees the ports before it says so.
MayFindHeld(d) == TRUE
MayFindLost(d) == ports # d

-----------------------------------------------------------------------------
(* startNativeService                                                      *)

Stands(d, next) == stage' = [stage EXCEPT ![d] = next]

\* The process ends; the kernel frees its ports, SQLite its transaction.
Ends(d) ==
    /\ Stands(d, "dead")
    /\ ports' = IF ports = d THEN Nobody ELSE ports
    /\ writing' = [writing EXCEPT ![d] = Nobody]
    /\ UNCHANGED <<owner, pointer, epochOf, scope, latest, request>>

Start(d) ==
    /\ stage[d] = "none"
    /\ \A e \in Daemon : e < d => stage[e] # "none"
    /\ Stands(d, "started")
    /\ UNCHANGED <<owner, pointer, ports, epochOf, scope, writing, latest, request>>

StageAfterCheck(s) == CASE s = "started" -> "checked"
               [] s = "locked" -> "rechecked"
               [] s = "rechecked" -> "cleared"

\* assertPreviousOwnerExited, before the lock and with it, and
\* assertPriorPointerStopped: whoever the pointer names must have exited.
CheckPointer(d) ==
    /\ stage[d] \in {"started", "locked", "rechecked"}
    /\ MayFindExited(pointer)
    /\ Stands(d, StageAfterCheck(stage[d]))
    /\ UNCHANGED <<owner, pointer, ports, epochOf, scope, writing, latest, request>>

RefusedByPointer(d) ==
    /\ stage[d] \in {"started", "locked", "rechecked"}
    /\ MayFindRunning(pointer)
    /\ Ends(d)

\* The lock is asked for once; a holder makes the start fail.
TakePorts(d) ==
    /\ stage[d] = "checked"
    /\ ports = Nobody
    /\ ports' = d
    /\ Stands(d, "locked")
    /\ UNCHANGED <<owner, pointer, epochOf, scope, writing, latest, request>>

RefusedByPorts(d) ==
    /\ stage[d] = "checked"
    /\ ports # Nobody
    /\ Ends(d)

\* claimNativeOwner: the row is read and replaced in one transaction.
Claim(d) ==
    /\ stage[d] = "cleared"
    /\ WriterFree
    /\ MayReplace(owner)
    /\ owner' = OwnerRow(d, "active", owner.epoch + 1)
    /\ epochOf' = [epochOf EXCEPT ![d] = owner.epoch + 1]
    /\ Stands(d, "claimed")
    /\ UNCHANGED <<pointer, ports, scope, writing, latest, request>>

RefusedByRow(d) ==
    /\ stage[d] = "cleared"
    /\ WriterFree
    /\ owner.state = "active" /\ MayFindRunning(owner.generation)
    /\ Ends(d)

\* The control server listens: the pointer is written inside withWrite.
Publish(d) ==
    /\ stage[d] = "claimed"
    /\ MayFindHeld(d)
    /\ WriterFree /\ Owns(d)
    /\ pointer' = d
    /\ Stands(d, "serving")
    /\ UNCHANGED <<owner, ports, epochOf, scope, writing, latest, request>>

-----------------------------------------------------------------------------
(* Writes: withWrite in the daemon, acquireNativeOwnerWrite elsewhere.     *)

SpawnHook(h, d) ==
    /\ stage[d] = "serving"
    /\ writing[h] = Nobody
    /\ scope' = [scope EXCEPT ![h] = d]
    /\ UNCHANGED <<owner, pointer, ports, stage, epochOf, writing, latest, request>>

BeginWrite(w, g) ==
    /\ WriterFree
    /\ Owns(g) /\ Alive(g)
    /\ writing' = [writing EXCEPT ![w] = g]
    /\ UNCHANGED <<owner, pointer, ports, stage, epochOf, scope, latest, request>>

DaemonWrites(d) == stage[d] \in Open /\ BeginWrite(d, d)
HookWrites(h) == scope[h] # Nobody /\ BeginWrite(h, scope[h])

\* mesh.db commits, then the transaction that fenced it.
Commit(w) ==
    /\ writing[w] # Nobody
    /\ latest' = epochOf[writing[w]]
    /\ writing' = [writing EXCEPT ![w] = Nobody]
    /\ UNCHANGED <<owner, pointer, ports, stage, epochOf, scope, request>>

\* The write fails, or its hook dies.
Rollback(w) ==
    /\ writing[w] # Nobody
    /\ writing' = [writing EXCEPT ![w] = Nobody]
    /\ UNCHANGED <<owner, pointer, ports, stage, epochOf, scope, latest, request>>

-----------------------------------------------------------------------------
(* shutdown                                                                *)

\* Asked to stop, or an operation finds the lock lost; or the start fails.
Stop(d) ==
    /\ stage[d] \in {"claimed", "serving"}
    /\ Stands(d, "stopping")
    /\ UNCHANGED <<owner, pointer, ports, epochOf, scope, writing, latest, request>>

\* Faulty variant of Released: the row forgets whose epoch it records.
ReleasedAfresh(row) == OwnerRow(Nobody, "released", row.epoch)

Released(row) == OwnerRow(row.generation, "released", row.epoch)

\* closePersistence, once every provider's child is known to have ended.
ClosePersistence(d) ==
    /\ stage[d] = "stopping"
    /\ WriterFree /\ Owns(d)
    /\ owner' = Released(owner)
    /\ Stands(d, "closed")
    /\ UNCHANGED <<pointer, ports, epochOf, scope, writing, latest, request>>

ReadOwnPointer(d) ==
    /\ stage[d] = "closed"
    /\ Stands(d, IF pointer = d THEN "removing" ELSE "leaving")
    /\ UNCHANGED <<owner, pointer, ports, epochOf, scope, writing, latest, request>>

RemovePointer(d) ==
    /\ stage[d] = "removing"
    /\ pointer' = Nobody
    /\ Stands(d, "leaving")
    /\ UNCHANGED <<owner, ports, epochOf, scope, writing, latest, request>>

\* ownership.release() and the end of the process; or its sudden end.
Leave(d) == stage[d] = "leaving" /\ Ends(d)
Crash(d) == Alive(d) /\ stage[d] # "leaving" /\ Ends(d)

\* The worker that holds the ports fails; its process lives on.
LosePorts(d) ==
    /\ ports = d
    /\ ports' = Nobody
    /\ UNCHANGED <<owner, pointer, stage, epochOf, scope, writing, latest, request>>

-----------------------------------------------------------------------------
(* nativeRequest: first for the status, then bound to its generation.      *)

\* assertNativePointerOwner
PointsToOwner == pointer # Nobody /\ Owns(pointer) /\ Alive(pointer)

AskStatus(c) ==
    /\ request[c] = NoRequest
    /\ PointsToOwner /\ stage[pointer] = "serving"
    /\ request' = [request EXCEPT ![c] = Request(pointer, Nobody)]
    /\ UNCHANGED <<owner, pointer, ports, stage, epochOf, scope, writing, latest>>

\* Faulty variant of SameRuntime: the request follows the pointer.
SameRuntimeAny(c) == TRUE

\* expectedGeneration
SameRuntime(c) == pointer = request[c].asked

SendRequest(c) ==
    /\ request[c].asked # Nobody /\ request[c].sent = Nobody
    /\ request' = [request EXCEPT ![c] =
                     IF PointsToOwner /\ SameRuntime(c)
                     THEN Request(request[c].asked, pointer) ELSE NoRequest]
    /\ UNCHANGED <<owner, pointer, ports, stage, epochOf, scope, writing, latest>>

\* requireRunning, in the daemon whose port and token the pointer gave.
Accepts(d) == stage[d] = "serving" /\ MayFindHeld(d) /\ Owns(d)

Forget(c) ==
    /\ request' = [request EXCEPT ![c] = NoRequest]
    /\ UNCHANGED <<owner, pointer, ports, stage, epochOf, scope, writing, latest>>

Handle(c) ==
    /\ request[c].sent # Nobody
    /\ Accepts(request[c].sent)
    /\ Forget(c)

\* The runtime is gone, stopping, or has lost its lock: an error.
Unanswered(c) ==
    /\ request[c].sent # Nobody
    /\ stage[request[c].sent] # "serving" \/ MayFindLost(request[c].sent)
    /\ Forget(c)

-----------------------------------------------------------------------------
DaemonStep(d) ==
    \/ Start(d) \/ CheckPointer(d) \/ RefusedByPointer(d)
    \/ TakePorts(d) \/ RefusedByPorts(d)
    \/ Claim(d) \/ RefusedByRow(d) \/ Publish(d)
    \/ DaemonWrites(d)
    \/ Stop(d) \/ ClosePersistence(d) \/ ReadOwnPointer(d) \/ RemovePointer(d)
    \/ Leave(d) \/ Crash(d) \/ LosePorts(d)

ClientStep(c) == AskStatus(c) \/ SendRequest(c) \/ Handle(c) \/ Unanswered(c)

OwnerNext ==
    \/ \E d \in Daemon : DaemonStep(d)
    \/ \E h \in Hook : HookWrites(h) \/ \E d \in Daemon : SpawnHook(h, d)
    \/ \E w \in Daemon \cup Hook : Commit(w) \/ Rollback(w)
    \/ \E c \in Client : ClientStep(c)

OwnerSpec == OwnerInit /\ [][OwnerNext]_ownerVars

-----------------------------------------------------------------------------
(* Each variable has its type; the epoch counts the claims, and a row that *)
(* is active names the daemon that made the latest (claimNativeOwner).     *)
OwnerTypeOK ==
    /\ owner \in [generation : Daemon \cup {Nobody}, state : {"active", "released"}, epoch : Nat]
    /\ owner.epoch > 0 => owner.generation \in Daemon /\ epochOf[owner.generation] = owner.epoch
    /\ pointer \in Daemon \cup {Nobody}
    /\ ports \in Daemon \cup {Nobody}
    /\ stage \in [Daemon -> Stages]
    /\ epochOf \in [Daemon -> Nat]
    /\ scope \in [Hook -> Daemon \cup {Nobody}]
    /\ writing \in [Daemon \cup Hook -> Daemon \cup {Nobody}]
    /\ latest \in Nat
    /\ request \in [Client -> [asked : Daemon \cup {Nobody}, sent : Daemon \cup {Nobody}]]

(* At most one live daemon has the native store open, also when the lock   *)
(* on the ports was lost or the pointer not yet written ("A second process *)
(* cannot become the native owner": startNativeService, claimNativeOwner). *)
SoleOwner ==
    \A d, e \in Daemon : stage[d] \in Open /\ stage[e] \in Open => d = e

(* Writes to the databases follow the epochs: nothing of an old generation *)
(* arrives after a newer one has claimed the row, not even from a hook     *)
(* that outlives its daemon (store.mjs: a claimant cannot replace the      *)
(* generation until the old write finishes or its process dies).           *)
Fenced == INSTANCE FencedStore WITH epoch <- owner.epoch
WritesAreFenced == Fenced!Spec

HandledByTheChecked ==
    \A c \in Client : Handle(c) => /\ request[c].sent = request[c].asked
                                  /\ Owns(request[c].asked)

(* A request that follows a check of the runtime's policy is carried out   *)
(* by the very runtime that was checked, while it owns the project         *)
(* (nativeRequest: never reread and follow a new owner).                   *)
RequestsStayPut == [][HandledByTheChecked]_ownerVars
=============================================================================
