----------------------------- MODULE TaskBoard -----------------------------
(***************************************************************************)
(* The tasks of a project and what decides who works on them: the task and *)
(* team commands (lib/cli/commands/task.mjs, team.mjs, their counterparts  *)
(* in lib/web/peer-actions.mjs) over lib/core/coordination/tasks.mjs; the  *)
(* sweeps that mark silent or dead peers as exited (liveness-reaper.mjs,   *)
(* reapDeadPeersForProject in tmux-sessions.mjs, the peer part of gc); and *)
(* the results filed under a task (results.mjs, web/task-results.mjs).     *)
(*                                                                         *)
(* Every command first touches the row of its peer and then runs its own   *)
(* transaction; a takeover captures and probes, observes the clock, and    *)
(* only then decides, each in a step of its own.  A sweep reads all rows,  *)
(* observes the clock and then looks at each peer anew.  Between any two   *)
(* of these steps other processes run, die, register and sleep.            *)
(***************************************************************************)
EXTENDS ClockSafety, Sequences, FiniteSets

CONSTANTS
    Peer, NoPeer, Task, NoTask,
    Mixes,          \* what happens in a behaviour, and how often: see Mix
    Managed,        \* peers whose sessions the web runtime runs
    Statuses,       \* statuses "task update" is asked for
    Policies,       \* takeover policies asked for
    StaleAfter,     \* --stale-after
    UnknownGrace,   \* UNKNOWN_EVIDENCE_GRACE_SEC
    Retention,      \* age at which gc removes peer rows
    DriftThreshold, \* forwardMs of classifyClockDrift()
    MaxTurns        \* bound on the turns of a peer's session

Status == {"pending", "claimed", "running", "review", "blocked", "done", "abandoned"}
Closed == {"done", "abandoned"}
Policy == {"any", "blocked", "stale", "blocked-or-stale"}
Command == {"create", "team", "dispatch", "claim", "next", "takeover", "update", "turn"}
SweepKind == {"poll", "attach", "collect"}

\* The commands and sweeps of a behaviour, what probing the process of each
\* peer may show, and bounds on commands, sweeps, jumps forward of the clock,
\* the clock itself and the registrations of each peer.
Mix == [ commands : [Peer -> SUBSET Command], sweeps : SUBSET SweepKind,
         probes : [Peer -> SUBSET Evidence], begun : Nat, swept : Nat,
         jumps : Nat, clock : Nat, registered : [Peer -> Nat] ]

ASSUME TaskBoardAssumption ==
    /\ NoPeer \notin Peer /\ NoTask \notin Task
    /\ Mixes \subseteq Mix /\ Managed \subseteq Peer
    /\ Statuses \subseteq Status /\ Policies \subseteq Policy
    /\ StaleAfter \in Nat \ {0} /\ UnknownGrace \in Nat \ {0} /\ Retention \in Nat
    /\ DriftThreshold \in Nat /\ MaxTurns \in Nat

VARIABLES
    clock, jumps, begun, swept,
    mix,        \* what may happen in this behaviour
    tasks,      \* table tasks
    peers,      \* table peers
    safety,     \* table meta: the clock safety record
    results,    \* table events: the results filed
    proc,       \* what probing the process a row names would show
    drift,      \* when the web runtime last probed the clock, and whether the
                \* wall clock has run ahead of the monotonic one since
    op,         \* the command each peer has under way
    sweep,      \* the sweep under way
    scopes,     \* turnScopes: the task a turn was bound to
    turns,      \* history: the task each peer was on when its turns began
    slept       \* history: the sleeps of the machine long enough to be noticed
                \* by whoever looks at the clock, from when to when

vars == << clock, jumps, begun, swept, mix, tasks, peers, safety, results, proc,
           drift, op, sweep, scopes, turns, slept >>

PeerOrNone == Peer \cup {NoPeer}
Row == [ status : Status, owner : PeerOrNone, assignee : PeerOrNone,
         parent : Task \cup {NoTask} ]
NoRow == [status |-> "none", owner |-> NoPeer, assignee |-> NoPeer, parent |-> NoTask]

PeerRow == [identity : Nat \ {0}, status : {"idle", "working", "exited"}, seen : Nat]

\* A peer without a row; the process of its next one is another.
NoRowAfter(n) == [identity |-> n, status |-> "none", seen |-> 0]
Unregistered == NoRowAfter(0)

\* What a takeover captures: the task, the row of its owner, the grace.
NoSubject == [task |-> NoRow, peer |-> Unregistered, grace |-> 0]

\* A command that has begun, and one that has got further.
Begun(kind, t, policy, force, tries) ==
    [ kind |-> kind, step |-> "begun", task |-> t, policy |-> policy, force |-> force,
      subject |-> NoSubject, evidence |-> "unknown", at |-> 0, tries |-> tries ]
Further(c, step, subject, evidence, at) ==
    [ kind |-> c.kind, step |-> step, task |-> c.task, policy |-> c.policy,
      force |-> c.force, subject |-> subject, evidence |-> evidence, at |-> at,
      tries |-> c.tries ]
Idle == Further(Begun("none", NoTask, "any", FALSE, 0), "idle", NoSubject, "unknown", 0)
NoSweep == [ kind |-> "none", step |-> "idle", at |-> 0,
             rows |-> [p \in Peer |-> Unregistered],
             evidence |-> [p \in Peer |-> "unknown"],
             todo |-> {}, peer |-> NoPeer, tries |-> 0, jump |-> NoJump ]
Swept(s, step, rows, evidence, todo, peer, tries) ==
    [ kind |-> s.kind, step |-> step, at |-> s.at, rows |-> rows, evidence |-> evidence,
      todo |-> todo, peer |-> peer, tries |-> tries, jump |-> s.jump ]

\* lastClockProbe, as a probe leaves it.
Probed(t) == [jumped |-> FALSE, since |-> t]

Known(p) == peers[p].status # "none"
Exists(t) == tasks[t] # NoRow
Children(t) == {c \in Task : tasks[c].parent = t}

\* resolvePeerEvidence(), of a peer outside tmux: a verified process counts
\* for more than the status, which counts for more than an unverified one.
EvidenceOf(p) ==
    IF ~Known(p) THEN "unknown"
    ELSE IF proc[p] \notin {"live", "protected"} /\ peers[p].status = "exited"
    THEN "dead" ELSE proc[p]

\* Faulty variant of AllowsReap: silence alone counts, grace or not.
AllowsReapAnytime(evidence, t, seen, stale, grace) ==
    \/ evidence = "dead"
    \/ evidence = "unknown" /\ t - seen >= stale

\* peerEvidenceAllowsReap().
AllowsReap(evidence, t, seen, stale, grace) ==
    \/ evidence = "dead"
    \/ evidence = "unknown" /\ t - seen >= stale /\ ~Suppressed(t, grace)

-----------------------------------------------------------------------------
(* Rows.                                                                   *)

As(row, status, owner, assignee) ==
    [status |-> status, owner |-> owner, assignee |-> assignee, parent |-> row.parent]
Taken(t, p) == As(tasks[t], "claimed", p, tasks[t].assignee)
AllTaken(ids, p) == [t \in Task |-> IF t \in ids THEN Taken(t, p) ELSE tasks[t]]

SetOp(p, c) == op' = [op EXCEPT ![p] = c]
Time == <<clock, jumps, drift, slept>>
Board == <<tasks, results>>
Runtime == <<sweep, swept, scopes, turns>>

\* Faulty variant of Touched: a status not given is not kept.
TouchedAnyhow(p, status) ==
    [ peers EXCEPT ![p] =
        [ identity |-> IF Known(p) THEN @.identity ELSE @.identity + 1, status |-> status,
          seen |-> clock ] ]

\* touchCurrentPeer(), touchPeer(): an unknown peer is registered under the
\* calling process, a known one is only seen; a status not given is kept.
Touched(p, status) ==
    [ peers EXCEPT ![p] =
        [ identity |-> IF Known(p) THEN @.identity ELSE @.identity + 1,
          status |-> IF status # "keep" THEN status
                     ELSE IF Known(p) THEN @.status ELSE "idle",
          seen |-> clock ] ]

TouchStatus(kind) ==
    IF kind \in {"create", "team", "dispatch"} THEN {"keep"}
    ELSE IF kind = "update" THEN {"working", "idle"} ELSE {"working"}

\* The first statement of every command.
Begin(p) ==
    /\ op[p] = Idle
    /\ begun < mix.begun
    /\ begun' = begun + 1
    /\ \E kind \in mix.commands[p] \ {"turn"}, t \in Task :
         /\ \E policy \in IF kind = "takeover" THEN Policies ELSE {"any"},
               force \in IF kind \in {"team", "claim", "next"} THEN BOOLEAN ELSE {FALSE} :
              SetOp(p, Begun(kind, t, policy, force, 0))
         /\ \E status \in TouchStatus(kind) : peers' = Touched(p, status)
    /\ UNCHANGED <<Time, mix, Board, safety, proc, Runtime>>

\* What a transaction of the command of p leaves alone.
Aside == <<Time, begun, mix, peers, safety, proc, Runtime>>
Ends(p, kind) == op[p].kind = kind /\ op[p].step = "begun" /\ SetOp(p, Idle)

-----------------------------------------------------------------------------
(* Commands that are one transaction after the touch.                      *)

\* taskCreate(), and taskDispatch() of a new task.
Create(p) ==
    LET t == op[p].task
    IN  /\ Ends(p, "create")
        /\ ~Exists(t)
        /\ \E a \in PeerOrNone, parent \in {u \in Task : Exists(u)} \cup {NoTask} :
             tasks' = [tasks EXCEPT ![t] = [ status |-> "pending", owner |-> NoPeer,
                                             assignee |-> a, parent |-> parent ]]
        /\ UNCHANGED <<Aside, results>>

\* teamStart(): subtasks for a task that has none, or with --force.
StartTeam(p) ==
    LET t == op[p].task
    IN  /\ Ends(p, "team")
        /\ Exists(t)
        /\ Children(t) = {} \/ op[p].force
        /\ \E items \in SUBSET {u \in Task : ~Exists(u)} \ {{}},
              worker \in [Task -> PeerOrNone] :
             tasks' = [ u \in Task |->
               IF u \in items
               THEN [ status |-> "pending", owner |-> NoPeer,
                      assignee |-> worker[u], parent |-> t ]
               ELSE tasks[u] ]
        /\ UNCHANGED <<Aside, results>>

\* taskDispatch() of an existing task; what is typed into the terminal of the
\* target afterwards changes nothing here.
Dispatch(p, target) ==
    LET t == op[p].task
    IN  /\ Ends(p, "dispatch")
        /\ Exists(t)
        /\ tasks[t].status \notin Closed
        /\ tasks[t].owner \in {NoPeer, target}
        /\ tasks' = [tasks EXCEPT ![t] = As(@, @.status, @.owner, target)]
        /\ UNCHANGED <<Aside, results>>

Claimable(t, p) ==
    /\ Exists(t)
    /\ tasks[t].owner \in {NoPeer, p}
    /\ tasks[t].assignee \in {NoPeer, p}
    /\ tasks[t].status \in {"pending", "blocked", "claimed", "running"}

\* claimTaskRowsForPeer(): all of the tasks named, or none.
Claim(p, ids) ==
    /\ Ends(p, "claim")
    /\ op[p].task \in ids
    /\ \A t \in ids : Exists(t) /\ (Claimable(t, p) \/ op[p].force)
    /\ tasks' = AllTaken(ids, p)
    /\ UNCHANGED <<Aside, results>>

Busy(p) ==
    \E t \in Task :
        tasks[t].owner = p /\ tasks[t].status \in {"claimed", "running", "review", "blocked"}

\* Faulty variant of Offered: whoever owns it already.
OfferedOwned(p) ==
    {t \in Task : tasks[t].status = "pending" /\ tasks[t].assignee \in {NoPeer, p}}

Offered(p) ==
    { t \in Task : /\ tasks[t].status = "pending" /\ tasks[t].owner = NoPeer
                   /\ tasks[t].assignee \in {NoPeer, p} }

\* claimNextTasksForPeer(): those assigned to the peer come first.
ClaimNext(p, count) ==
    LET mine == {t \in Offered(p) : tasks[t].assignee = p}
    IN  /\ Ends(p, "next")
        /\ ~Busy(p) \/ op[p].force
        /\ \E ids \in SUBSET Offered(p) :
             /\ Cardinality(ids) =
                  Smaller(count, Cardinality(Offered(p)))
             /\ ids \subseteq mine \/ mine \subseteq ids
             /\ tasks' = AllTaken(ids, p)
        /\ UNCHANGED <<Aside, results>>

\* taskUpdate(), taskDone() and the status shortcuts: a closed task may be
\* opened again, and its owner stays.
Update(p, status) ==
    LET t == op[p].task
    IN  /\ Ends(p, "update")
        /\ Exists(t)
        /\ tasks[t].owner \in {NoPeer, p}
        /\ tasks' = [tasks EXCEPT ![t] = As(@, status, @.owner, @.assignee)]
        /\ UNCHANGED <<Aside, results>>

\* A command that is refused, or killed before it committed.
GiveUp(p) ==
    /\ op[p] # Idle
    /\ SetOp(p, Idle)
    /\ UNCHANGED <<Aside, Board>>

-----------------------------------------------------------------------------
(* Takeover.                                                               *)

\* takeoverSubject().
Capture(t) ==
    [ task |-> tasks[t], grace |-> safety.grace,
      peer |-> IF tasks[t].owner # NoPeer /\ Known(tasks[t].owner)
               THEN peers[tasks[t].owner] ELSE Unregistered ]

\* The capture and the probe of the owner, both outside any transaction; of a
\* closed or missing task nothing more is done.
Look(p) ==
    LET c == op[p] t == op[p].task o == tasks[op[p].task].owner
    IN  /\ c.kind = "takeover" /\ c.step = "begun"
        /\ Exists(t) /\ tasks[t].status \notin Closed
        /\ SetOp(p, Further(c, "looked", Capture(t),
                            IF o = NoPeer THEN "unknown" ELSE EvidenceOf(o), 0))
        /\ UNCHANGED <<Aside, Board>>

\* Faulty variant of TakeoverCandidates: the owner's silence is not named.
TakeoverCandidatesNone(c) == {}

\* observeTaskTakeoverClockSafety(): when the owner's silence ran out.
TakeoverCandidates(c) ==
    IF c.subject.task.owner = NoPeer THEN {}
    ELSE { [ owner |-> c.subject.task.owner, evidence |-> c.evidence,
             boundary |-> IF c.subject.peer = Unregistered THEN 0
                          ELSE c.subject.peer.seen + StaleAfter ] }

\* ... observed in a transaction of its own.
Observe(p) ==
    LET c == op[p]
    IN  /\ c.step = "looked"
        /\ safety' = Observed(safety, "ownership", TakeoverCandidates(c), {}, clock, NoJump)
        /\ SetOp(p, Further(c, "judged", c.subject, c.evidence, clock))
        /\ UNCHANGED <<Time, begun, mix, Board, peers, proc, Runtime>>

\* Faulty variant of SameSubject: the owner may have been replaced since.
SameSubjectTask(c) == c.subject.task = tasks[c.task]

\* sameTakeoverSubject().
SameSubject(c) == c.subject = Capture(c.task)

\* takeoverPolicyDetails().
OwnerStale(p, c) ==
    /\ c.subject.task.owner \notin {NoPeer, p}
    /\ \/ c.subject.peer = Unregistered
       \/ AllowsReap(c.evidence, clock, c.subject.peer.seen,
                     Larger(StaleAfter, UnknownGrace), c.subject.grace)

Allowed(p, c) ==
    \/ c.subject.task.owner = p
    \/ c.policy = "any"
    \/ c.policy \in {"blocked", "blocked-or-stale"} /\ c.subject.task.status = "blocked"
    \/ c.policy \in {"stale", "blocked-or-stale"} /\ OwnerStale(p, c)

\* The deciding transaction, granted: takeOverTaskForPeer().  The assignee
\* stays, the owner before is told.
TakeOver(p) ==
    /\ op[p].step = "judged"
    /\ SameSubject(op[p])
    /\ Allowed(p, op[p])
    /\ tasks' = AllTaken({op[p].task}, p)
    /\ SetOp(p, Idle)
    /\ UNCHANGED <<Aside, results>>

\* The subject changed while the owner was probed, for the first time.
LookAgain(p) ==
    /\ op[p].step = "judged"
    /\ ~SameSubject(op[p])
    /\ op[p].tries = 0
    /\ SetOp(p, Begun("takeover", op[p].task, op[p].policy, FALSE, 1))
    /\ UNCHANGED <<Aside, Board>>

-----------------------------------------------------------------------------
(* Sweeps: a row is marked exited, or removed, once its peer is gone.      *)

Active(row) == row.status = "working"
NoEvidence == [p \in Peer |-> "unknown"]

\* The rows a sweep of each kind reads: runClockAwareReaper(),
\* reapDeadPeersForProject(), captureGcTechnicalPlan().
InSweep(kind, p) ==
    /\ Known(p)
    /\ kind # "collect" => Active(peers[p])
    /\ kind = "poll" => peers[p].seen < clock - UnknownGrace
    /\ kind = "collect" => peers[p].seen <= clock - Retention

\* detectClockJump(): the span reported is the time since the last probe.
Detected ==
    IF drift.jumped THEN [kind |-> "forward", span |-> clock - drift.since] ELSE NoJump

StartSweep(kind) ==
    /\ sweep = NoSweep
    /\ kind \in mix.sweeps /\ swept < mix.swept
    /\ swept' = swept + 1
    /\ LET read == {p \in Peer : InSweep(kind, p)}
       IN  sweep' = [ kind |-> kind, step |-> "read", at |-> clock,
                      rows |-> [p \in Peer |-> IF p \in read THEN peers[p] ELSE Unregistered],
                      evidence |-> [p \in Peer |-> IF p \in read THEN EvidenceOf(p)
                                                   ELSE "unknown"],
                      todo |-> { p \in read : ~(p \in Managed /\ EvidenceOf(p) = "live") },
                      peer |-> NoPeer, tries |-> 0,
                      jump |-> IF kind = "poll" THEN Detected ELSE NoJump ]
    /\ drift' = IF kind = "poll" THEN Probed(clock) ELSE drift
    /\ UNCHANGED << clock, jumps, slept, begun, mix, Board, peers, safety, proc, op, scopes,
                    turns >>

SweepCandidates ==
    { [ owner |-> p, evidence |-> sweep.evidence[p],
        boundary |-> sweep.rows[p].seen +
                     (IF sweep.kind = "collect" THEN Retention ELSE UnknownGrace) ] :
      p \in {q \in Peer : sweep.rows[q] # Unregistered} }

\* The sweep turns to the peers still to do.
Goes(todo, tries) ==
    sweep' = Swept(sweep, "judged", sweep.rows, sweep.evidence, todo, sweep.peer, tries)

\* The observation of the clock.  Only the poll of the runtime knows of drift,
\* and it stops under grace, as gc does; the others go by the evidence read.
JudgeSweep ==
    LET after == Observed(safety, IF sweep.kind = "collect" THEN "gc" ELSE "ownership",
                          SweepCandidates, {}, sweep.at, sweep.jump)
    IN  /\ sweep.step = "read"
        /\ sweep.kind = "collect" =>
             \A p \in Peer : sweep.rows[p] # Unregistered => sweep.rows[p] = peers[p]
        /\ safety' = after
        /\ IF sweep.kind # "attach" /\ Suppressed(sweep.at, after.grace)
           THEN sweep' = NoSweep
           ELSE Goes({ p \in sweep.todo : sweep.kind = "poll" \/
                         AllowsReap(sweep.evidence[p], sweep.at, sweep.rows[p].seen,
                                    UnknownGrace, after.grace) }, sweep.tries)
        /\ UNCHANGED <<Time, begun, swept, mix, Board, peers, proc, op, scopes, turns>>

\* mutatePeerWithEvidence(): the row and its process are looked at anew.
SweepLooks(p) ==
    /\ sweep.step = "judged" /\ p \in sweep.todo
    /\ IF Known(p) /\ AllowsReap(EvidenceOf(p), clock, peers[p].seen,
                                 UnknownGrace, safety.grace)
       THEN sweep' = Swept(sweep, "looked", [sweep.rows EXCEPT ![p] = peers[p]],
                           [sweep.evidence EXCEPT ![p] = EvidenceOf(p)],
                           sweep.todo, p, sweep.tries)
       ELSE Goes(sweep.todo \ {p}, 0)
    /\ UNCHANGED <<Time, begun, swept, mix, Board, peers, safety, proc, op, scopes, turns>>

\* Faulty variant of RowUnchanged: the row is not compared in the transaction.
RowUnchangedUnasked(p) == TRUE

RowUnchanged(p) == sweep.rows[p] = peers[p]

\* beforeMutate, with the clock and the grace of this moment.
StillAllowed(p) ==
    AllowsReap(sweep.evidence[p], clock, sweep.rows[p].seen, UnknownGrace, safety.grace)

\* The transaction that marks or removes the row, if it is as it was.
Reap(p) ==
    /\ sweep.step = "looked" /\ p = sweep.peer
    /\ StillAllowed(p) /\ RowUnchanged(p)
    /\ peers' = [ peers EXCEPT ![p] =
         IF sweep.kind = "collect" THEN NoRowAfter(@.identity)
         ELSE [identity |-> @.identity, status |-> "exited", seen |-> @.seen] ]
    /\ Goes(sweep.todo \ {p}, 0)
    /\ UNCHANGED <<Time, begun, swept, mix, Board, safety, proc, op, scopes, turns>>

\* ... otherwise it is blocked, or tried once more.
Spare(p) ==
    /\ sweep.step = "looked" /\ p = sweep.peer
    /\ ~(StillAllowed(p) /\ RowUnchanged(p))
    /\ IF StillAllowed(p) /\ sweep.tries = 0 THEN Goes(sweep.todo, 1)
                                             ELSE Goes(sweep.todo \ {p}, 0)
    /\ UNCHANGED <<Time, begun, swept, mix, Board, peers, safety, proc, op, scopes, turns>>

\* A sweep that is through, or dies.
EndSweep ==
    /\ sweep # NoSweep
    /\ sweep' = NoSweep
    /\ UNCHANGED <<Time, begun, swept, mix, Board, peers, safety, proc, op, scopes, turns>>

-----------------------------------------------------------------------------
(* Results.                                                                *)

Rank(status) ==
    CASE status = "running" -> 0 [] status = "claimed" -> 1
      [] status = "review" -> 2 [] status = "blocked" -> 3 [] OTHER -> 9

\* selectCurrentTask(); priorities and ids only break ties.
CurrentTasks(p) ==
    LET owned == {t \in Task : tasks[t].owner = p /\ tasks[t].status \notin Closed}
    IN  IF owned = {} THEN {NoTask}
        ELSE {t \in owned : \A u \in owned : Rank(tasks[t].status) <= Rank(tasks[u].status)}

\* A turn begins in the session of p.  The runtime binds it to the current
\* task if it sees the event itself.
StartTurn(p, fresh) ==
    /\ "turn" \in mix.commands[p]
    /\ Len(turns[p]) < MaxTurns
    /\ \E t \in CurrentTasks(p) :
         /\ turns' = [turns EXCEPT ![p] = Append(@, t)]
         /\ scopes' = IF fresh /\ t # NoTask
                      THEN scopes \cup {[peer |-> p, turn |-> Len(turns[p]) + 1, task |-> t]}
                      ELSE scopes
    /\ UNCHANGED <<Time, begun, swept, mix, Board, peers, safety, proc, op, sweep>>

\* Faulty variant of Scoped: a turn not bound is taken for the current task's.
ScopedCurrent(p, n) ==
    LET bound == {s \in scopes : s.peer = p /\ s.turn = n}
    IN  IF bound = {} THEN CurrentTasks(p) \ {NoTask} ELSE {s.task : s \in bound}

Scoped(p, n) == {s.task : s \in {r \in scopes : r.peer = p /\ r.turn = n}}

Filed(p, n, t) ==
    \E i \in 1..Len(results) : results[i] = [peer |-> p, turn |-> n, task |-> t]

\* observeCodexResults() and recordTaskResult(): the snapshot holds every turn
\* there was; what is filed already, or whose task has gone to somebody else,
\* is passed over.
FileResult(p, n) ==
    /\ n \in 1..Len(turns[p])
    /\ \E t \in Scoped(p, n) :
         /\ tasks[t].owner = p
         /\ ~Filed(p, n, t)
         /\ results' = Append(results, [peer |-> p, turn |-> n, task |-> t])
    /\ UNCHANGED <<Time, begun, mix, tasks, peers, safety, proc, op, Runtime>>

\* The web runtime dies and is started again: the sweep, what it knew of turns
\* and what it had not probed yet are lost.
RuntimeRestarts ==
    /\ sweep # NoSweep \/ scopes # {} \/ "poll" \in mix.sweeps
    /\ sweep' = NoSweep /\ scopes' = {} /\ drift' = Probed(clock)
    /\ UNCHANGED << clock, jumps, slept, begun, swept, mix, Board, peers, safety, proc, op,
                    turns >>

-----------------------------------------------------------------------------
(* Processes and time.                                                     *)

\* upsertPeer() or refreshHookOwnerIdentity(): the row names a new process.  A
\* default status does not resurrect a peer that has exited.
Register(p, status) ==
    /\ peers[p].identity < mix.registered[p]
    /\ peers' = [ peers EXCEPT ![p] =
         [ identity |-> @.identity + 1, seen |-> clock,
           status |-> IF status = "idle" /\ @.status = "exited" THEN "exited" ELSE status ] ]
    /\ \E e \in mix.probes[p] \ {"dead"} : proc' = [proc EXCEPT ![p] = e]
    /\ UNCHANGED <<Time, begun, mix, Board, safety, op, Runtime>>

\* The process a row names goes away; the row does not notice.
ProcessDies(p) ==
    /\ "dead" \in mix.probes[p]
    /\ proc[p] # "dead"
    /\ proc' = [proc EXCEPT ![p] = "dead"]
    /\ UNCHANGED <<Time, begun, mix, Board, peers, safety, op, Runtime>>

Tick ==
    /\ clock < mix.clock
    /\ clock' = clock + 1
    /\ UNCHANGED <<jumps, drift, slept, begun, mix, Board, peers, safety, proc, op, Runtime>>

\* The machine sleeps, long enough for the runtime to call it drift: the
\* silence of a peer may pass a limit it was never given the chance to keep.
JumpForward ==
    /\ jumps < mix.jumps
    /\ jumps' = jumps + 1
    /\ clock' \in (clock + DriftThreshold + 1)..mix.clock
    /\ drift' = [jumped |-> TRUE, since |-> drift.since]
    /\ slept' = IF clock' - clock > GapThreshold
                THEN slept \cup {[from |-> clock, to |-> clock']} ELSE slept
    /\ UNCHANGED <<begun, mix, Board, peers, safety, proc, op, Runtime>>

Init ==
    /\ clock = 0 /\ jumps = 0 /\ begun = 0 /\ swept = 0
    /\ mix \in Mixes
    /\ tasks = [t \in Task |-> NoRow]
    /\ peers = [p \in Peer |-> Unregistered]
    /\ safety = FreshSafety
    /\ results = <<>>
    /\ proc \in [Peer -> Evidence] /\ \A p \in Peer : proc[p] \in mix.probes[p]
    /\ drift = Probed(0)
    /\ op = [p \in Peer |-> Idle]
    /\ sweep = NoSweep
    /\ scopes = {}
    /\ turns = [p \in Peer |-> <<>>]
    /\ slept = {}

Next ==
    \/ \E p \in Peer :
        \/ Begin(p) \/ Create(p) \/ GiveUp(p)
        \/ Look(p) \/ Observe(p) \/ TakeOver(p) \/ LookAgain(p)
        \/ SweepLooks(p) \/ Reap(p) \/ Spare(p) \/ ProcessDies(p)
        \/ StartTeam(p)
        \/ \E ids \in SUBSET Task : Claim(p, ids)
        \/ \E count \in 1..Cardinality(Task) : ClaimNext(p, count)
        \/ \E target \in Peer : Dispatch(p, target)
        \/ \E status \in Statuses : Update(p, status)
        \/ \E fresh \in BOOLEAN : StartTurn(p, fresh)
        \/ \E n \in 1..MaxTurns : FileResult(p, n)
        \/ \E status \in {"idle", "working"} : Register(p, status)
    \/ \E kind \in SweepKind : StartSweep(kind)
    \/ JudgeSweep \/ EndSweep \/ RuntimeRestarts
    \/ Tick \/ JumpForward

Spec == Init /\ [][Next]_vars

-----------------------------------------------------------------------------
(* Properties.                                                             *)

RowOrNone == PeerRow \cup [identity : Nat, status : {"none"}, seen : {0}]
Op == [ kind : Command \cup {"none"}, step : {"idle", "begun", "looked", "judged"},
        task : Task \cup {NoTask}, policy : Policy, force : BOOLEAN,
        subject : [task : Row \cup {NoRow}, peer : RowOrNone, grace : Nat],
        evidence : Evidence, at : Nat, tries : 0..1 ]
Sweep == [ kind : SweepKind \cup {"none"}, step : {"idle", "read", "judged", "looked"},
           at : Nat, rows : [Peer -> RowOrNone], evidence : [Peer -> Evidence],
           todo : SUBSET Peer, peer : PeerOrNone, tries : 0..1, jump : Jump ]

\* The variables have their types.
TypeOK ==
    /\ clock \in Nat /\ jumps \in Nat /\ begun \in Nat /\ swept \in Nat
    /\ mix \in Mixes
    /\ tasks \in [Task -> Row \cup {NoRow}]
    /\ peers \in [Peer -> RowOrNone]
    /\ safety \in Safety
    /\ results \in Seq([peer : Peer, turn : Nat, task : Task])
    /\ proc \in [Peer -> Evidence]
    /\ drift \in [jumped : BOOLEAN, since : Nat]
    /\ op \in [Peer -> Op]
    /\ sweep \in Sweep
    /\ scopes \subseteq [peer : Peer, turn : Nat, task : Task]
    /\ turns \in [Peer -> Seq(Task \cup {NoTask})]
    /\ slept \subseteq [from : Nat, to : Nat]

\* The task p is about to take from its owner without being allowed to take
\* any, or any blocked one.
TakesForStaleness(p) ==
    /\ TakeOver(p)
    /\ tasks[op[p].task].owner \notin {NoPeer, p}
    /\ op[p].policy # "any"
    /\ ~(op[p].policy \in {"blocked", "blocked-or-stale"}
          /\ tasks[op[p].task].status = "blocked")

\* A peer that is not there any more, as far as anybody can tell: its process
\* is gone, or cannot be told and has been silent for too long.
Lost(p, limit) ==
    \/ EvidenceOf(p) = "dead"
    \/ EvidenceOf(p) = "unknown" /\ clock - peers[p].seen >= limit

TasksLeaveOpenly ==
    \A t \in Task : tasks[t].owner \in Peer /\ tasks'[t].owner # tasks[t].owner =>
        \E p \in Peer :
            \/ TakeOver(p)
            \/ op[p].force /\ \E ids \in SUBSET Task : t \in ids /\ Claim(p, ids)

\* A task leaves its owner only by a takeover or by force: not because another
\* peer asks for the next one, claims it or has it dispatched, and not after
\* its owner has put it back among the pending ones.
OwnersChangeOpenly == [][TasksLeaveOpenly]_vars

TakenFromTheLost ==
    \A p \in Peer : TakesForStaleness(p) =>
        LET o == tasks[op[p].task].owner
        IN  Known(o) => Lost(o, Larger(StaleAfter, UnknownGrace))

\* A task is taken for staleness only from an owner that is lost at that very
\* moment: one that came back, with a new process or just a command, between
\* the probe and the transaction keeps its task (sameTakeoverSubject).
OnlyLostOwnersLoseTasks == [][TakenFromTheLost]_vars

ReapedWhenLost == \A p \in Peer : Reap(p) => Lost(p, UnknownGrace)

\* A sweep marks or removes only peers lost at that very moment, whatever it
\* read before it observed the clock (mutatePeerWithEvidence).
OnlyLostPeersAreReaped == [][ReapedWhenLost]_vars

\* Whoever acts for the silence of a peer that cannot be told dead, having
\* observed the clock after the machine slept past the limit of that silence,
\* leaves it the grace to show up again (hb-05 in takeoverPolicyDetails(),
\* "CLI-only wake with unknown evidence enters grace before takeover").
Spared(p, limit, observedAt) ==
    EvidenceOf(p) = "unknown" =>
        \A s \in slept :
            Crossed(s.from, s.to, peers[p].seen + limit) /\ observedAt >= s.to
                => clock >= s.to + ClockGrace

SleepersKeepTasks ==
    \A p \in Peer : TakesForStaleness(p) =>
        LET o == tasks[op[p].task].owner
        IN  Known(o) => Spared(o, Larger(StaleAfter, UnknownGrace), op[p].at)

SleeperIsNotTakenOver == [][SleepersKeepTasks]_vars

\* The silence a sweep acts for.
Limit(kind) == IF kind = "collect" THEN Larger(Retention, UnknownGrace) ELSE UnknownGrace

SleepersAreSpared == \A p \in Peer : Reap(p) => Spared(p, Limit(sweep.kind), sweep.at)

SleeperIsNotReaped == [][SleepersAreSpared]_vars

\* A turn's evidence is filed once, and only under the task its peer was on
\* when the turn began: not under what it turned to since, nor after the
\* runtime forgot (turnScopes in task-results.mjs).
EvidenceIsFiledOnce ==
    /\ \A i \in 1..Len(results) : results[i].task = turns[results[i].peer][results[i].turn]
    /\ \A i, j \in 1..Len(results) : results[i] = results[j] => i = j

=============================================================================
