------------------------------ MODULE RunSession ------------------------------
(***************************************************************************)
(* Sessions started with "hcc run" for one peer (cli/commands/run.mjs and  *)
(* process/pty-lifecycle.mjs), and the web runtime that shows them         *)
(* (web/external-sessions.mjs).                                            *)
(*                                                                         *)
(* A wrapper process runs the session as its child.  A plain wrapper only  *)
(* writes the peer's row.  A bridge also publishes a group of buffer files *)
(* under a generation of its own; the web runtime adopts the group, watches*)
(* it, and clears it away when every process it names is dead.  A bridge   *)
(* whose start-up fails must stop a child that may not want to stop.       *)
(* Files are touched under the lease of their directory, so one group's    *)
(* change is one step; the row is changed in a transaction of its own.     *)
(*                                                                         *)
(* A process is <<runner, part>>.  A wrapper knows its own identity; its   *)
(* child's it may fail to learn.  Resizing, input and signals forwarded to *)
(* the child are left out: the child may exit at any time.                 *)
(***************************************************************************)
EXTENDS FiniteSets

CONSTANTS
    Bridge,     \* wrappers that publish buffer files
    Plain,      \* wrappers that do not
    NoOne       \* nobody

Runner == Bridge \cup Plain
RunProcess == Runner \X {"wrapper", "child"}

ASSUME RunAssumption ==
    Bridge \cap Plain = {} /\ NoOne \notin Runner /\ NoOne \notin RunProcess

Wrapper(w) == <<w, "wrapper">>
Child(w) == <<w, "child">>

VARIABLES
    phase,      \* how far each wrapper has come
    child,      \* the process that each wrapper started
    exit,       \* wrappers whose exit listener was called
    learned,    \* wrappers that learned their child's identity
    seen,       \* the row a plain wrapper has read, with the evidence for it
    row,        \* the peer's row: the process it names and a status
    group,      \* the buffer files: generation, processes named, .out there
    view,       \* the session in the web runtime: generation, owner in the row
    lost        \* wrappers killed, or ended without recording what they left

wrappers == <<phase, child, exit, learned, seen, lost>>
runVars == <<wrappers, row, group, view>>

Row(who, status) == [who |-> who, status |-> status]
NoRow == Row(NoOne, "none")
Group(gen, names, out) == [gen |-> gen, names |-> names, out |-> out]
NoGroup == Group(NoOne, {}, FALSE)
View(gen, owner) == [gen |-> gen, owner |-> owner]
NoView == View(NoOne, NoOne)
NothingSeen == [row |-> NoRow, state |-> "dead", again |-> TRUE]

RunInit ==
    /\ phase = [w \in Runner |-> "none"]
    /\ child = [w \in Runner |-> "none"]
    /\ exit = {} /\ learned = {} /\ lost = {}
    /\ seen = [w \in Plain |-> NothingSeen]
    /\ row = NoRow /\ group = NoGroup /\ view = NoView

-----------------------------------------------------------------------------
(* Evidence (core/peers/evidence.mjs, runtime/buffer-evidence.mjs)         *)

IsAlive(p) == IF p[2] = "child" THEN child[p[1]] = "live" ELSE phase[p[1]] # "gone"
Identified(p) == p[2] = "child" => p[1] \in learned

\* processState: a live process without a stored identity proves nothing.
ProcessState(p) == IF ~IsAlive(p) THEN "dead" ELSE IF Identified(p) THEN "live" ELSE "unknown"

\* Faulty variant of Aggregate: one dead process stands for all.
AggregateAnyDead(states) ==
    IF "dead" \in states THEN "dead" ELSE IF "live" \in states THEN "live" ELSE "unknown"

\* aggregateProcesses
Aggregate(states) ==
    IF "live" \in states THEN "live" ELSE IF states = {"dead"} THEN "dead" ELSE "unknown"

\* externalBufferEvidence; an inspection may fail, and then shows nothing.
GroupStates == {Aggregate({ ProcessState(p) : p \in group.names }), "unknown"}

\* resolvePeerEvidence of a row: an explicit exit settles what is unknown.
RowStates ==
    IF row = NoRow THEN {"dead"}
    ELSE LET settled(s) == IF s = "unknown" /\ row.status = "exited" THEN "dead" ELSE s
         IN  { settled(s) : s \in {ProcessState(row.who), "unknown"} }

-----------------------------------------------------------------------------
(* A bridge (cmdRunWebManaged)                                             *)

Enters(w, s) == phase' = [phase EXCEPT ![w] = s]
OwnsGroup(w) == group.gen = w

\* The old group must be dead, then the old row; else the start is refused,
\* and the files that were created are removed again.
PublishGroup(w) ==
    /\ phase[w] = "none"
    /\ group = NoGroup \/ "dead" \in GroupStates
    /\ \/ /\ "dead" \in RowStates
          /\ group' = Group(w, {Wrapper(w)}, FALSE)
          /\ row' = Row(Wrapper(w), "running")
          /\ Enters(w, "published") /\ UNCHANGED lost
       \/ /\ RowStates # {"dead"}
          /\ group' = NoGroup
          /\ Enters(w, "gone") /\ UNCHANGED <<row, lost>>
       \/ /\ group' = Group(w, {Wrapper(w)}, FALSE)    \* killed before the row
          /\ Enters(w, "gone") /\ lost' = lost \cup {w} /\ UNCHANGED row
    /\ UNCHANGED <<child, exit, learned, seen, view>>

Spawn(w) ==
    /\ phase[w] = "published"
    /\ child' = [child EXCEPT ![w] = "live"]
    /\ Enters(w, "spawned")
    /\ UNCHANGED <<exit, learned, seen, lost, row, group, view>>

\* pty.spawn throws: the files go if the lease can be had, then the row.
SpawnFails(w) ==
    /\ phase[w] = "published"
    /\ group' \in {group, IF OwnsGroup(w) THEN NoGroup ELSE group}
    /\ Enters(w, "closing")
    /\ UNCHANGED <<child, exit, learned, seen, lost, row, view>>

OpenOutput(w) ==
    /\ phase[w] = "spawned"
    /\ \/ OwnsGroup(w) /\ group' = Group(w, group.names, TRUE) /\ Enters(w, "opened")
       \/ UNCHANGED group /\ Enters(w, "failing")
    /\ UNCHANGED <<child, exit, learned, seen, lost, row, view>>

\* capturePtyStartupEvidence, then the metadata that names the child.  The
\* child's identity may be had or not, dead or alive is told apart by it.
Announce(w) ==
    /\ phase[w] = "opened"
    /\ learned' \in {learned, IF child[w] = "live" THEN learned \cup {w} ELSE learned}
    /\ \/ /\ w \notin exit /\ OwnsGroup(w)
          /\ group' = Group(w, {Wrapper(w), Child(w)}, TRUE)
          /\ Enters(w, "running")
       \/ UNCHANGED group /\ Enters(w, "failing")
    /\ UNCHANGED <<child, exit, seen, lost, row, view>>

ExitHeard(w) ==
    /\ child[w] = "dead" /\ w \notin exit /\ phase[w] # "gone"
    /\ exit' = exit \cup {w}
    /\ UNCHANGED <<phase, child, learned, seen, lost, row, group, view>>

\* stopPtyAfterStartupFailure: the exit is heard in time, or it is not.
StopChild(w) ==
    /\ phase[w] = "failing"
    /\ Enters(w, IF w \in exit THEN "stopped" ELSE "unstopped") 
    /\ UNCHANGED <<child, exit, learned, seen, lost, row, group, view>>

\* Faulty variant of PreservesEvidence: a failed start leaves nothing behind.
PreservesEvidenceNever(w) == FALSE

\* ptyStartupFailureDisposition
PreservesEvidence(w) == phase[w] = "unstopped"

\* failStartup: what could not be stopped stays on record, by its child alone.
RecordFailure(w) ==
    /\ phase[w] \in {"stopped", "unstopped"} /\ OwnsGroup(w)
    /\ IF PreservesEvidence(w)
       THEN group' = Group(w, {Child(w)}, group.out) /\ Enters(w, "blocking")
       ELSE group' = NoGroup /\ Enters(w, "closing")
    /\ UNCHANGED <<child, exit, learned, seen, lost, row, view>>

BlockRow(w) ==
    /\ phase[w] = "blocking"
    /\ row' = IF row.who = Wrapper(w) THEN Row(Child(w), "blocked") ELSE row
    /\ Enters(w, "gone")
    /\ UNCHANGED <<child, exit, learned, seen, lost, group, view>>

RemoveGroup(w) ==
    /\ phase[w] = "running" /\ w \in Bridge /\ w \in exit
    /\ IF OwnsGroup(w) THEN group' = NoGroup /\ Enters(w, "closing")
                  ELSE UNCHANGED group /\ Enters(w, "gone")
    /\ UNCHANGED <<child, exit, learned, seen, lost, row, view>>

\* The directory's lease is not to be had in time: nothing more is recorded.
LeaseTimesOut(w) ==
    /\ w \in Bridge
    /\ \/ phase[w] \in {"stopped", "unstopped"}
       \/ phase[w] = "running" /\ w \in exit
    /\ Enters(w, "gone")
    /\ lost' = lost \cup {w}
    /\ UNCHANGED <<child, exit, learned, seen, row, group, view>>

CloseRow(w) ==
    /\ phase[w] = "closing"
    /\ row' = IF row.who = Wrapper(w) THEN Row(Wrapper(w), "exited") ELSE row
    /\ Enters(w, "gone")
    /\ UNCHANGED <<child, exit, learned, seen, lost, group, view>>

-----------------------------------------------------------------------------
(* A plain wrapper (cmdRun)                                                *)

\* The row is read and its process observed before the transaction.
Look(w) ==
    /\ phase[w] = "none" /\ w \in Plain
    /\ \E s \in RowStates : seen' = [seen EXCEPT ![w].row = row, ![w].state = s]
    /\ Enters(w, "looked")
    /\ UNCHANGED <<child, exit, learned, lost, row, group, view>>

\* Faulty variant of RowIsAsSeen: the row is not read again.
RowIsAsSeenAnyway(w) == TRUE

RowIsAsSeen(w) == seen[w].row = row

Register(w) ==
    /\ phase[w] = "looked"
    /\ IF RowIsAsSeen(w)
       THEN /\ IF seen[w].state = "dead"
               THEN row' = Row(Wrapper(w), "running") /\ Enters(w, "registered")
               ELSE UNCHANGED row /\ Enters(w, "gone")
            /\ UNCHANGED seen
       ELSE /\ Enters(w, IF seen[w].again THEN "none" ELSE "gone")
            /\ seen' = [seen EXCEPT ![w].again = FALSE]
            /\ UNCHANGED row
    /\ UNCHANGED <<child, exit, learned, lost, group, view>>

StartChild(w) ==
    /\ phase[w] = "registered"
    /\ \/ child' = [child EXCEPT ![w] = "live"] /\ Enters(w, "running")
       \/ UNCHANGED child /\ Enters(w, "closing")
    /\ UNCHANGED <<exit, learned, seen, lost, row, group, view>>

Finish(w) ==
    /\ phase[w] = "running" /\ w \in Plain /\ w \in exit
    /\ Enters(w, "closing")
    /\ UNCHANGED <<child, exit, learned, seen, lost, row, group, view>>

-----------------------------------------------------------------------------
(* Processes die                                                           *)

ChildExits(w) ==
    /\ child[w] = "live"
    /\ child' = [child EXCEPT ![w] = "dead"]
    /\ UNCHANGED <<phase, exit, learned, seen, lost, row, group, view>>

WrapperIsKilled(w) ==
    /\ phase[w] \notin {"none", "gone"}
    /\ Enters(w, "gone")
    /\ lost' = lost \cup {w}
    /\ UNCHANGED <<child, exit, learned, seen, row, group, view>>

-----------------------------------------------------------------------------
(* The web runtime                                                         *)

Publishing == group.names = {Wrapper(group.gen)}
OwnerInRow ==
    LET owner == IF Wrapper(group.gen) \in group.names
                 THEN Wrapper(group.gen) ELSE Child(group.gen)
    IN  IF Identified(owner) THEN owner ELSE NoOne

\* adoptExternalSession: a dead group is cleared away instead.
Adopt ==
    /\ view = NoView /\ group.out /\ ~Publishing
    /\ \/ GroupStates # {"dead"} /\ view' = View(group.gen, OwnerInRow) /\ UNCHANGED group
       \/ "dead" \in GroupStates /\ group' = NoGroup /\ UNCHANGED view
    /\ UNCHANGED <<wrappers, row>>

\* Faulty variant of OwnedByView: the peer's row is taken for the session's.
OwnedByViewAnyone == view.owner # NoOne

\* finalizeExternalSession matches the process's identity in the row.
OwnedByView == view.owner # NoOne /\ row.who = view.owner

\* The exit poller: another generation's files and row are left alone.
Reconcile ==
    /\ view # NoView
    /\ \/ group # NoGroup /\ group.gen # view.gen /\ UNCHANGED <<group, row>>
       \/ /\ \/ group = NoGroup
             \/ group.gen = view.gen /\ (~group.out \/ "dead" \in GroupStates)
          /\ group' = IF group.out THEN NoGroup ELSE group
          /\ row' = IF OwnedByView THEN Row(row.who, "exited") ELSE row
    /\ view' = NoView
    /\ UNCHANGED wrappers

\* The web runtime restarts, with no session in its memory.
WebRestarts ==
    /\ view # NoView
    /\ view' = NoView
    /\ UNCHANGED <<wrappers, row, group>>

-----------------------------------------------------------------------------
BridgeStep(w) ==
    \/ PublishGroup(w) \/ Spawn(w) \/ SpawnFails(w) \/ OpenOutput(w) \/ Announce(w)
    \/ StopChild(w) \/ RecordFailure(w) \/ BlockRow(w) \/ RemoveGroup(w)
    \/ LeaseTimesOut(w)

RunNext ==
    \/ \E w \in Bridge : BridgeStep(w)
    \/ \E w \in Plain : Look(w) \/ Register(w) \/ StartChild(w) \/ Finish(w)
    \/ \E w \in Runner : ExitHeard(w) \/ CloseRow(w) \/ ChildExits(w) \/ WrapperIsKilled(w)
    \/ Adopt \/ Reconcile \/ WebRestarts

RunSpec == RunInit /\ [][RunNext]_runVars

-----------------------------------------------------------------------------
Phase == { "none", "looked", "registered", "published", "spawned", "opened", "running",
           "failing", "stopped", "unstopped", "blocking", "closing", "gone" }
Rows == [who : RunProcess \cup {NoOne}, status : {"none", "running", "blocked", "exited"}]
Groups == [gen : Bridge \cup {NoOne}, names : SUBSET RunProcess, out : BOOLEAN]
Views == [gen : Bridge \cup {NoOne}, owner : RunProcess \cup {NoOne}]
Sights == [row : Rows, state : {"dead", "live", "unknown"}, again : BOOLEAN]

(* Each variable has its type, and a group names processes of its own      *)
(* generation alone (writeExternalMeta, failStartup).                      *)
RunTypeOK ==
    /\ phase \in [Runner -> Phase]
    /\ child \in [Runner -> {"none", "live", "dead"}]
    /\ exit \subseteq Runner /\ learned \subseteq Bridge /\ lost \subseteq Runner
    /\ seen \in [Plain -> Sights]
    /\ row \in Rows /\ group \in Groups /\ view \in Views
    /\ \A p \in group.names : p[1] = group.gen
    /\ group.gen = NoOne => group = NoGroup
    /\ view.gen = NoOne => view = NoView

InSession(w) == phase[w] \notin {"none", "looked", "closing", "gone"}

(* One peer has one session at a time: two wrappers, of either sort, never *)
(* both hold it (PEER_SESSION_EXISTS, SUBJECT_CHANGED).                    *)
OneSession == \A v, w \in Runner : InSession(v) /\ InSession(w) => v = w

(* A child that lives keeps the next session from starting, even when its  *)
(* wrapper gave up on it and is gone; only a wrapper that was killed, or   *)
(* could not record it, leaves a child nobody sees (failStartup).          *)
LiveChildHoldsPeer ==
    \A w \in Runner \ lost : child[w] = "live" => "dead" \notin RowStates

GroupChangesHands ==
    group # NoGroup /\ group'.gen # group.gen =>
        \/ \A p \in group.names : ~IsAlive(p)
        \/ phase[group.gen] # phase'[group.gen]

(* Buffer files are taken away or replaced by the wrapper that published   *)
(* them, or after all that they name are dead: not by the web runtime that *)
(* watched an earlier generation (removeOwnedExternalBufferGroup, Adopt).  *)
LiveGroupIsKept == [][GroupChangesHands]_runVars

ExitsTruly ==
    row'.status = "exited" /\ row.status # "exited" =>
        row'.who = row.who /\ child[row.who[1]] # "live"

(* The row says exited only of a session whose child is not running, never *)
(* of one that took the peer over from it (finalizeExternalSession).       *)
ExitIsTrue == [][ExitsTruly]_runVars
=============================================================================
