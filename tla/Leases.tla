------------------------------- MODULE Leases -------------------------------
(***************************************************************************)
(* The lock table of a project and the commands that work on it: acquire,  *)
(* renew, release (lib/cli/commands/lock.mjs and its web counterpart in    *)
(* lib/web/peer-actions.mjs), the heartbeats that renew (lib/cli/commands/ *)
(* coordination.mjs, hook.mjs) and the lock part of gc (gc.mjs).           *)
(*                                                                         *)
(* A command reads the wall clock once, captures the rows it will judge,   *)
(* probes the processes behind them outside any transaction, and then, in  *)
(* a transaction, captures again and goes on only if nothing has changed.  *)
(* Commands of several processes interleave between these steps, the clock *)
(* may jump, processes die and peers register anew.                        *)
(*                                                                         *)
(* One resource is modelled, with its scopes.  A peer row is abstracted to *)
(* the process identity it names: the rest of the row only makes a command *)
(* start over more often.                                                  *)
(***************************************************************************)
EXTENDS ClockSafety

CONSTANTS
    Peer, NoPeer,
    Scope,          \* scopes of the resource that are in use
    Whole,          \* WHOLE_LOCK_SCOPE
    TTL,            \* lease lengths that are asked for
    HookCap,        \* the ttlCap of hook renewals
    Commands,       \* the commands each peer gives
    Probes,         \* what a probe of the process of each peer may show
    MaxCommands,    \* bound on the commands begun
    MaxTime,        \* bound on the clock
    MaxForward,     \* bound on its jumps forward
    MaxBackward,    \* bound on its steps back
    MaxIdentity     \* bound on registrations of one peer

Optimistic == {"acquire", "webAcquire", "webHeartbeat", "gc"}
Heartbeat == {"webHeartbeat", "heartbeat", "hook"}
Acquiring == {"acquire", "webAcquire"}
Command == Optimistic \cup Heartbeat \cup {"renew"}

ASSUME LeasesAssumption ==
    /\ NoPeer \notin Peer
    /\ Whole \in Scope
    /\ TTL \subseteq Nat \ {0}
    /\ HookCap \in Nat \ {0}
    /\ Commands \in [Peer -> SUBSET Command]
    /\ Probes \in [Peer -> SUBSET Evidence]
    /\ MaxCommands \in Nat /\ MaxTime \in Nat
    /\ MaxForward \in Nat /\ MaxBackward \in Nat /\ MaxIdentity \in Nat \ {0}

VARIABLES
    clock,      \* the wall clock, in seconds
    jumps,      \* how often it has jumped, each way
    begun,      \* how many commands have been begun
    locks,      \* table locks: the row of each scope
    safety,     \* table meta: the clock safety record
    identity,   \* table peers: which process each row names
    proc,       \* what probing that process would show
    op,         \* the command each peer has under way
    owed        \* history: until when an owner overtaken by a jump has time

vars == <<clock, jumps, begun, locks, safety, identity, proc, op, owed>>

Lock == [owner : Peer, expires : Nat, ttl : Nat \ {0}]
NoLock == [owner |-> NoPeer, expires |-> 0, ttl |-> 0]

\* What a command captures: lock rows, the rows of owners it has to judge (0
\* where there is none) and the grace deadline.
NoSubject == [ rows |-> [s \in Scope |-> NoLock],
               owners |-> [o \in Peer |-> 0], grace |-> 0 ]
NoEvidence == [o \in Peer |-> "unknown"]

Idle == [ kind |-> "none", step |-> "idle", at |-> 0, scope |-> Whole, ttl |-> 0,
          subject |-> NoSubject, evidence |-> NoEvidence, tries |-> 0,
          renewed |-> FALSE ]

Begun(kind, t, s, ttl, tries) ==
    [ kind |-> kind, step |-> "begun", at |-> t, scope |-> s, ttl |-> ttl,
      subject |-> NoSubject, evidence |-> NoEvidence, tries |-> tries,
      renewed |-> FALSE ]

\* The command c gone on to its next step.
Onward(c, step, subject, evidence, renewed) ==
    [ kind |-> c.kind, step |-> step, at |-> c.at, scope |-> c.scope,
      ttl |-> c.ttl, subject |-> subject, evidence |-> evidence,
      tries |-> c.tries, renewed |-> renewed ]

Attempts(kind) == IF kind = "gc" THEN 5 ELSE 2

\* locksConflict(), within one resource.
Conflict(s, r) == s = r \/ s = Whole \/ r = Whole

Held(s) == locks[s] # NoLock
Expired(row, t) == row.expires <= t

-----------------------------------------------------------------------------
(* Capturing a subject and judging it.                                     *)

\* Which rows belong to the subject of c, and which of their owners are
\* judged: captureLockAcquireSubject (of the rows that conflict, or of all of
\* them for a heartbeat), captureLockRenewalSubject, captureGcLockSubjects.
InSubject(p, c, s) ==
    /\ Held(s)
    /\ c.kind \in Acquiring => Conflict(s, c.scope)
    /\ c.kind = "webHeartbeat" => locks[s].owner = p
    /\ c.kind = "gc" => locks[s].expires < c.at

Judged(p, c) ==
    IF c.kind = "webHeartbeat" THEN {p}
    ELSE { locks[s].owner : s \in { r \in Scope :
             InSubject(p, c, r) /\ Expired(locks[r], c.at) } }

Capture(p, c) ==
    [ rows |-> [s \in Scope |-> IF InSubject(p, c, s) THEN locks[s] ELSE NoLock],
      owners |-> [o \in Peer |-> IF o \in Judged(p, c) THEN identity[o] ELSE 0],
      grace |-> safety.grace ]

\* observeLockOwnerEvidence() and observeGcEvidence().
Probe(p, c) ==
    [o \in Peer |-> IF o \in Judged(p, c) THEN proc[o] ELSE "unknown"]

\* clockCandidatesFromLocks and its variants: the captured rows past their
\* end, only one's own for a heartbeat.
Candidates(p, c) ==
    { [ owner |-> c.subject.rows[s].owner, boundary |-> c.subject.rows[s].expires,
        evidence |-> c.evidence[c.subject.rows[s].owner] ] :
      s \in { r \in Scope :
        /\ c.subject.rows[r] # NoLock
        /\ Expired(c.subject.rows[r], c.at)
        /\ c.kind \in Heartbeat => c.subject.rows[r].owner = p } }

\* What gc adds for history and buffers: any one boundary stands for them.
Cutoffs(c) == IF c.kind = "gc" THEN {{}} \cup {{b} : b \in 0..c.at} ELSE {{}}

Operation(c) == IF c.kind = "gc" THEN "gc" ELSE "ownership"

\* Faulty variant of RenewOwned: every row is taken for the caller's.
RenewOwnedAnybody(table, owners, t, includeExpired, override, cap) ==
    [ s \in Scope |->
        IF includeExpired \/ table[s].expires > t
        THEN [ owner |-> table[s].owner,
               expires |-> Larger(table[s].expires, t + table[s].ttl),
               ttl |-> table[s].ttl ]
        ELSE table[s] ]

\* Faulty variant of RenewOwned: expired rows are left alone whatever is asked.
RenewOwnedRunning(table, owners, t, includeExpired, override, cap) ==
    [ s \in Scope |->
        IF table[s].owner \in owners /\ table[s].expires > t
        THEN [ owner |-> table[s].owner,
               expires |-> Larger(table[s].expires, t + table[s].ttl),
               ttl |-> table[s].ttl ]
        ELSE table[s] ]

\* renewOwnedLocks(): never shortens, and leaves expired rows alone unless
\* told otherwise.
RenewOwned(table, owners, t, includeExpired, override, cap) ==
    [ s \in Scope |->
        LET row == table[s]
            length == IF override > 0 THEN override
                      ELSE IF cap > 0 THEN Smaller(row.ttl, cap) ELSE row.ttl
        IN  IF row.owner \in owners /\ (includeExpired \/ row.expires > t)
            THEN [ owner |-> row.owner, expires |-> Larger(row.expires, t + length),
                   ttl |-> IF override > 0 THEN override ELSE row.ttl ]
            ELSE row ]

\* The observation of c, made inside its transaction: the safety record it
\* leaves and the table with the leases of live owners extended.
Verdict(p, c, cuts) ==
    Observed(safety, Operation(c), Candidates(p, c), cuts, c.at, NoJump)
Rescued(p, c) == RenewableOwners(safety, Candidates(p, c), c.at, NoJump)
Extended(p, c) == RenewOwned(locks, Rescued(p, c), c.at, TRUE, 0, 0)

\* Faulty variant of Blocks: without isPeerEvidenceCompatibilityProtected.
BlocksUnlessLive(p, c, row, grace) ==
    LET e == c.evidence[row.owner]
    IN  /\ row # NoLock
        /\ row.owner # p
        /\ IF Suppressed(c.at, grace)
           THEN ~(Expired(row, c.at) /\ e = "dead")
           ELSE ~Expired(row, c.at) \/ e = "live"

\* Faulty variant of Blocks: nobody misses the lease of a dead owner.
BlocksUnlessDead(p, c, row, grace) ==
    LET e == c.evidence[row.owner]
    IN  /\ row # NoLock
        /\ row.owner # p
        /\ e # "dead"

\* A captured row that stands in the way of an acquisition.
Blocks(p, c, row, grace) ==
    LET e == c.evidence[row.owner]
    IN  /\ row # NoLock
        /\ row.owner # p
        /\ IF Suppressed(c.at, grace)
           THEN ~(Expired(row, c.at) /\ e = "dead")
           ELSE \/ ~Expired(row, c.at)
                \/ e = "live"
                \/ e = "protected" /\ c.kind = "acquire"

Refused(p, c, grace) == \E s \in Scope : Blocks(p, c, c.subject.rows[s], grace)

-----------------------------------------------------------------------------
(* The steps.                                                              *)

Init ==
    /\ clock = 0 /\ jumps = [forward |-> 0, backward |-> 0] /\ begun = 0
    /\ locks = [s \in Scope |-> NoLock]
    /\ safety = FreshSafety
    /\ identity = [o \in Peer |-> 1]
    /\ proc \in [Peer -> Evidence] /\ \A o \in Peer : proc[o] \in Probes[o]
    /\ op = [o \in Peer |-> Idle]
    /\ owed = [s \in Scope |-> 0]

\* A row that changes hands or term starts a new account.
SetLocks(table) ==
    /\ locks' = table
    /\ owed' = [s \in Scope |-> IF table[s] = locks[s] THEN owed[s] ELSE 0]

SetOp(p, c) == op' = [op EXCEPT ![p] = c]
Clock == <<clock, jumps>>
Environment == <<Clock, begun, identity, proc>>
Database == <<locks, owed, safety>>

\* now() is read before the database is even opened.
Begin(p) ==
    /\ op[p] = Idle
    /\ begun < MaxCommands
    /\ begun' = begun + 1
    /\ \/ \E k \in Commands[p] \ (Heartbeat \cup {"gc"}), s \in Scope, ttl \in TTL :
             SetOp(p, Begun(k, clock, s, ttl, 0))
       \/ \E k \in Commands[p] \cap {"webHeartbeat", "heartbeat"}, ttl \in TTL \cup {0} :
             SetOp(p, Begun(k, clock, Whole, ttl, 0))
       \/ \E k \in Commands[p] \cap {"hook", "gc"} : SetOp(p, Begun(k, clock, Whole, 0, 0))
    /\ UNCHANGED <<Clock, identity, proc, Database>>

\* capture() and observe(), both outside the transaction.  Probing a process
\* commutes with every step that leaves the captured row alone, and the row is
\* compared again, so the two are one step.
Observe(p) ==
    LET c == op[p]
    IN  /\ c.step = "begun"
        /\ c.kind # "renew"
        /\ SetOp(p, Onward(c, "observed", Capture(p, c), Probe(p, c), FALSE))
        /\ UNCHANGED <<Environment, Database>>

\* Faulty variant of Unchanged: the subject is not captured a second time.
UnchangedUnasked(p, c) == TRUE

Unchanged(p, c) == c.subject = Capture(p, c)

\* runOptimisticEvidenceMutation finds the subject changed: it starts over,
\* with the old reading of the clock, or gives up (SUBJECT_CHANGED).
StartOver(p) ==
    LET c == op[p]
    IN  /\ c.step = "observed"
        /\ c.kind \in Optimistic
        /\ ~Unchanged(p, c)
        /\ SetOp(p, IF c.tries + 1 < Attempts(c.kind)
                    THEN Begun(c.kind, c.at, c.scope, c.ttl, c.tries + 1)
                    ELSE Idle)
        /\ UNCHANGED <<Environment, Database>>

\* The transaction of an acquisition, refused: LOCK_HELD is returned rather
\* than thrown, so what the clock observation did is kept.
Refuse(p) ==
    LET c == op[p]
    IN  /\ c.step = "observed"
        /\ c.kind \in Acquiring
        /\ Unchanged(p, c)
        /\ Refused(p, c, Verdict(p, c, {}).grace)
        /\ safety' = Verdict(p, c, {})
        /\ SetLocks(Extended(p, c))
        /\ SetOp(p, Idle)
        /\ UNCHANGED Environment

\* ... and granted: upsertRequestedLock.  Other scopes' rows stay.
Grant(p) ==
    LET c == op[p]
    IN  /\ c.step = "observed"
        /\ c.kind \in Acquiring
        /\ Unchanged(p, c)
        /\ ~Refused(p, c, Verdict(p, c, {}).grace)
        /\ safety' = Verdict(p, c, {})
        /\ SetLocks([ Extended(p, c) EXCEPT ![c.scope] =
                        [owner |-> p, expires |-> c.at + c.ttl, ttl |-> c.ttl] ])
        /\ SetOp(p, Idle)
        /\ UNCHANGED Environment

\* lockRenew(): the row is looked up and rewritten in one transaction, asking
\* only who owns it.
Renew(p) ==
    LET c == op[p]
    IN  /\ c.step = "begun"
        /\ c.kind = "renew"
        /\ SetLocks(IF locks[c.scope].owner = p
                    THEN [ locks EXCEPT ![c.scope] =
                             [owner |-> p, expires |-> c.at + c.ttl, ttl |-> c.ttl] ]
                    ELSE locks)
        /\ SetOp(p, Idle)
        /\ UNCHANGED <<Environment, safety>>

\* lockRelease() and webPeerLockRelease(); force is only the command line's.
Release(p, s, force) ==
    /\ Held(s)
    /\ locks[s].owner = p \/ force
    /\ SetLocks([locks EXCEPT ![s] = NoLock])
    /\ UNCHANGED <<Environment, op, safety>>

\* webPeerHeartbeat(): observation and renewal in one transaction.
WebHeartbeat(p) ==
    LET c == op[p]
    IN  /\ c.step = "observed"
        /\ c.kind = "webHeartbeat"
        /\ Unchanged(p, c)
        /\ safety' = Verdict(p, c, {})
        /\ SetLocks(RenewOwned(Extended(p, c), {p}, c.at, c.evidence[p] = "live", c.ttl, 0))
        /\ SetOp(p, Idle)
        /\ UNCHANGED Environment

\* cmdHeartbeat() and the hook: observeLockClockSafety does not capture again.
ObserveClock(p) ==
    LET c == op[p]
    IN  /\ c.step = "observed"
        /\ c.kind \in {"heartbeat", "hook"}
        /\ safety' = Verdict(p, c, {})
        /\ SetLocks(Extended(p, c))
        /\ SetOp(p, Onward(c, "judged", NoSubject, NoEvidence,
                           \E s \in Scope : locks[s].owner \in Rescued(p, c)))
        /\ UNCHANGED Environment

\* ... and the renewal itself follows in a transaction of its own.
RenewAfterwards(p) ==
    LET c == op[p]
    IN  /\ c.step = "judged"
        /\ c.kind \in {"heartbeat", "hook"}
        /\ SetLocks(IF c.renewed /\ c.ttl = 0 THEN locks
                    ELSE IF c.kind = "hook"
                    THEN RenewOwned(locks, {p}, c.at, TRUE, 0, HookCap)
                    ELSE RenewOwned(locks, {p}, c.at, proc[p] = "live", c.ttl, 0))
        /\ SetOp(p, Idle)
        /\ UNCHANGED <<Environment, safety>>

\* The hook of a native runtime's worker renews within one transaction.
NativeHook(p) ==
    /\ "hook" \in Commands[p]
    /\ SetLocks(RenewOwned(locks, {p}, clock, TRUE, 0, HookCap))
    /\ UNCHANGED <<Environment, op, safety>>

\* observeGcClockSafety(): under grace the rows are deferred.
PlanGc(p) ==
    LET c == op[p]
    IN  /\ c.step = "observed"
        /\ c.kind = "gc"
        /\ Unchanged(p, c)
        /\ \E cuts \in Cutoffs(c) :
             /\ safety' = Verdict(p, c, cuts)
             /\ SetOp(p, IF Suppressed(c.at, Verdict(p, c, cuts).grace) THEN Idle
                         ELSE Onward(c, "judged", c.subject, c.evidence, FALSE))
        /\ SetLocks(Extended(p, c))
        /\ UNCHANGED Environment

\* A planned row that is still exactly as planned, of an owner neither live
\* nor protected (finalizeGcLockSubjects).
Collectable(c, s) ==
    LET row == c.subject.rows[s]
    IN  /\ row # NoLock
        /\ locks[s] = row
        /\ identity[row.owner] = c.subject.owners[row.owner]
        /\ c.evidence[row.owner] \notin {"live", "protected"}

\* The deleting transaction, which looks at the clock and the grace once more.
CollectGc(p) ==
    LET c == op[p]
    IN  /\ c.step = "judged"
        /\ c.kind = "gc"
        /\ SetLocks([ s \in Scope |->
             IF ~Suppressed(clock, safety.grace) /\ Collectable(c, s)
             THEN NoLock ELSE locks[s] ])
        /\ SetOp(p, Idle)
        /\ UNCHANGED <<Environment, safety>>

\* The process of a command is killed between two transactions.
Crash(p) ==
    /\ op[p] # Idle
    /\ SetOp(p, Idle)
    /\ UNCHANGED <<Environment, Database>>

\* The process a row names goes away; the row does not notice.
ProcessDies(p) ==
    /\ "dead" \in Probes[p]
    /\ proc[p] # "dead"
    /\ proc' = [proc EXCEPT ![p] = "dead"]
    /\ UNCHANGED <<Clock, begun, identity, op, Database>>

\* upsertPeer() or refreshHookOwnerIdentity(): the row names a new process.
Register(p) ==
    /\ identity[p] < MaxIdentity
    /\ identity' = [identity EXCEPT ![p] = @ + 1]
    /\ \E e \in Probes[p] \ {"dead"} : proc' = [proc EXCEPT ![p] = e]
    /\ UNCHANGED <<Clock, begun, op, Database>>

Tick ==
    /\ clock < MaxTime
    /\ clock' = clock + 1
    /\ UNCHANGED <<jumps, begun, identity, proc, op, Database>>

\* Sleep, or a step of the wall clock forward past what ordinary progress
\* explains: the leases it runs past were never within reach of a renewal.
JumpForward ==
    /\ jumps.forward < MaxForward
    /\ jumps' = [jumps EXCEPT !.forward = @ + 1]
    /\ clock' \in (clock + GapThreshold + 1)..MaxTime
    /\ owed' = [ s \in Scope |->
         IF Held(s) /\ Crossed(clock, clock', locks[s].expires)
         THEN clock' + ClockGrace ELSE owed[s] ]
    /\ UNCHANGED <<begun, identity, proc, op, locks, safety>>

JumpBackward ==
    /\ jumps.backward < MaxBackward
    /\ jumps' = [jumps EXCEPT !.backward = @ + 1]
    /\ clock' \in 0..(clock - 1)
    /\ owed' = [s \in Scope |-> 0]
    /\ UNCHANGED <<begun, identity, proc, op, locks, safety>>

Next ==
    \/ \E p \in Peer :
        \/ Begin(p) \/ Observe(p) \/ StartOver(p)
        \/ Refuse(p) \/ Grant(p) \/ Renew(p)
        \/ WebHeartbeat(p) \/ ObserveClock(p) \/ RenewAfterwards(p) \/ NativeHook(p)
        \/ PlanGc(p) \/ CollectGc(p)
        \/ Crash(p) \/ ProcessDies(p) \/ Register(p)
        \/ \E s \in Scope, force \in BOOLEAN : Release(p, s, force)
    \/ Tick \/ JumpForward \/ JumpBackward

Spec == Init /\ [][Next]_vars

-----------------------------------------------------------------------------
(* Properties.                                                             *)

LockTable == [Scope -> Lock \cup {NoLock}]
Subject == [rows : LockTable, owners : [Peer -> Nat], grace : Nat]
Op == [ kind : Command \cup {"none"}, step : {"idle", "begun", "observed", "judged"},
        at : Nat, scope : Scope, ttl : Nat, subject : Subject,
        evidence : [Peer -> Evidence], tries : Nat, renewed : BOOLEAN ]

\* The variables have their types; an acquisition or a renewal has a term.
TypeOK ==
    /\ clock \in Nat /\ jumps \in [forward : Nat, backward : Nat] /\ begun \in Nat
    /\ locks \in LockTable
    /\ safety \in Safety
    /\ identity \in [Peer -> Nat \ {0}]
    /\ proc \in [Peer -> Evidence]
    /\ op \in [Peer -> Op]
    /\ \A p \in Peer : op[p].kind \in Acquiring \cup {"renew"} => op[p].ttl # 0
    /\ owed \in [Scope -> Nat]

\* The scopes whose holders lose something when p acquires or collects.
Displaced(p) ==
    { s \in Scope :
        /\ Held(s)
        /\ locks[s].owner # p
        /\ IF op[p].kind = "gc" THEN locks'[s] = NoLock
           ELSE Conflict(s, op[p].scope) }

Displaces(p) == Grant(p) \/ CollectGc(p)

\* However an acquisition or a collection interleaves with deaths and new
\* registrations, it never displaces an owner whose process is verifiably
\* there at that moment, expired lease or not (the second capture in
\* runOptimisticEvidenceMutation, the exact-row test in
\* finalizeGcLockSubjects).
LiveOwnerKeepsLease ==
    [][ \A p \in Peer : Displaces(p) =>
          \A s \in Displaced(p) : proc[locks[s].owner] # "live" ]_vars

\* The same of an owner whose process is there but cannot be compared with the
\* recorded one: "proves neither ownership nor exit" (resolvePeerEvidence).
ProtectedOwnerKeepsLease ==
    [][ \A p \in Peer : Displaces(p) =>
          \A s \in Displaced(p) : proc[locks[s].owner] # "protected" ]_vars

\* ... which the command line and gc respect.
CommandLineKeepsProtectedOwner ==
    [][ \A p \in Peer : Displaces(p) /\ op[p].kind # "webAcquire" =>
          \A s \in Displaced(p) : proc[locks[s].owner] # "protected" ]_vars

\* A lease that still runs is never displaced, not even by a command that
\* read the clock, or planned, long before (the expiry test on observedAt).
\* A clock that has stepped back may show a lease running that had ended.
RunningLeaseIsKept ==
    [][ \A p \in Peer : Displaces(p) /\ jumps.backward = 0 =>
          \A s \in Displaced(p) : Expired(locks[s], clock) ]_vars

\* When the clock jumps past a lease, an owner about whom nothing is known has
\* a full grace period from the jump to come back, whatever commands observed
\* the clock in between, on this scope or on another, and however old their
\* reading of it (mergePendingGap, clearPendingGap, writeClockGraceUntil).
OvertakenLeaseGetsGrace ==
    [][ \A p \in Peer : Displaces(p) =>
          \A s \in Displaced(p) :
             proc[locks[s].owner] = "unknown" => clock >= owed[s] ]_vars

\* A heartbeat that finds its peer's process there, and any hook, leaves that
\* peer no lease expired by the second the heartbeat began, although other
\* commands come between its two transactions and its observation may or may
\* not have renewed already (cmdHeartbeat, webPeerHeartbeat, the hook).
HeartbeatCoversLeases ==
    [][ \A p \in Peer :
          /\ RenewAfterwards(p) \/ WebHeartbeat(p)
          /\ proc[p] = "live" \/ op[p].kind = "hook"
          => \A s \in Scope :
                locks'[s].owner = p => ~Expired(locks'[s], op[p].at) ]_vars

\* No two owners hold running leases on conflicting scopes.
ConflictingLeasesExclude ==
    \A s, r \in Scope :
        /\ Held(s) /\ ~Expired(locks[s], clock)
        /\ Held(r) /\ ~Expired(locks[r], clock)
        /\ Conflict(s, r)
        => locks[s].owner = locks[r].owner

=============================================================================
