------------------------------- MODULE SocketLock -------------------------------
(***************************************************************************)
(* The lock whose holder is whoever listens on the ports derived from the  *)
(* lock's path: lib/shared/file-lock.mjs and its socket-lock-worker.mjs.   *)
(*                                                                         *)
(* An attempt goes through the candidate ports in order.  It binds those   *)
(* that are free.  Of one that is taken it asks who listens: the same lock *)
(* makes the attempt start over, anything else is passed by.  One bound    *)
(* port is enough.  Programs that know nothing of the lock come and go on  *)
(* these ports, and a holder may answer too late for the 25 ms of a probe. *)
(*                                                                         *)
(* One path is modelled, under one name (an alias adds ports to bind).     *)
(***************************************************************************)
EXTENDS Naturals, FiniteSets

CONSTANTS
    Contender,      \* processes that want the lock
    Strict,         \* those with rejectLegacyOwner: a silent listener stops them
    PortCount,      \* candidate ports of the path
    MaxStrangers    \* bound on how often a stranger takes a port

Port == 1..PortCount
Free == "free"
Silent == "silent"      \* a stranger that accepts and says nothing
Talker == "talker"      \* one that says something else, or refuses
Stranger == {Silent, Talker}

ASSUME SocketAssumption ==
    /\ Contender \cap (Stranger \cup {Free}) = {}
    /\ PortCount \in Nat /\ MaxStrangers \in Nat

VARIABLES
    listener,   \* who listens on each port
    attempt,    \* where each contender is, and the port it turns to
    blind,      \* history: why an attempt may have missed another
    strangers   \* how often a stranger took a port

lockVars == <<listener, attempt, blind, strangers>>

Attempt(phase, port) == [phase |-> phase, port |-> port]
Idle == Attempt("idle", 1)

LockInit ==
    /\ listener = [p \in Port |-> Free]
    /\ attempt = [c \in Contender |-> Idle]
    /\ blind = [c \in Contender |-> {}]
    /\ strangers = 0

Bound(c) == { p \in Port : listener[p] = c }
Trying(c) == attempt[c].phase \in {"binding", "probing"}
Holds(c) == attempt[c].phase = "held" /\ Bound(c) # {}

\* closeServers
Closed(c) == [p \in Port |-> IF listener[p] = c THEN Free ELSE listener[p]]

Turns(c, phase, port) == attempt' = [attempt EXCEPT ![c] = Attempt(phase, port)]

-----------------------------------------------------------------------------
Begin(c) ==
    /\ attempt[c] = Idle
    /\ Turns(c, "binding", 1)
    /\ UNCHANGED <<listener, blind, strangers>>

Candidate(c) == attempt[c].port

\* bindCandidate: the port is free.
Bind(c) ==
    /\ attempt[c].phase = "binding" /\ Candidate(c) \in Port
    /\ listener[Candidate(c)] = Free
    /\ listener' = [listener EXCEPT ![Candidate(c)] = c]
    /\ Turns(c, "binding", Candidate(c) + 1)
    /\ UNCHANGED <<blind, strangers>>

\* EADDRINUSE
FindTaken(c) ==
    /\ attempt[c].phase = "binding" /\ Candidate(c) \in Port
    /\ listener[Candidate(c)] # Free
    /\ Turns(c, "probing", Candidate(c))
    /\ UNCHANGED <<listener, blind, strangers>>

\* retryCleanly, then again (or BUSY, TIMEOUT) after the servers are closed.
StartOver(c) ==
    /\ listener' = Closed(c)
    /\ attempt' = [attempt EXCEPT ![c] = Idle]
    /\ blind' = [blind EXCEPT ![c] = {}]

Found(c) == listener[Candidate(c)]

\* Faulty variant of Matches: a worker that has not finished its own attempt
\* does not count as the same lock.
MatchesHolder(who) == who \in Contender /\ attempt[who].phase = "held"

\* The banner is that of this path: sent from the moment the port is bound.
Matches(who) == who \in Contender

ProbeMatches(c) ==
    /\ attempt[c].phase = "probing"
    /\ Matches(Found(c))
    /\ StartOver(c)
    /\ UNCHANGED strangers

\* Nothing came within the probe's time, or before the end of the connection.
MayBeSilent(who) == who = Silent \/ who \in Contender

RejectsSilence(c) == c \in Strict

\* ERR_FILE_LOCK_LEGACY_OWNER
ProbeRejected(c) ==
    /\ attempt[c].phase = "probing"
    /\ MayBeSilent(Found(c)) /\ RejectsSilence(c)
    /\ StartOver(c)
    /\ UNCHANGED strangers

\* A stranger; a listener that has gone meanwhile; or one too slow to answer.
Passes(c, reasons) ==
    /\ Turns(c, "binding", Candidate(c) + 1)
    /\ blind' = [blind EXCEPT ![c] = @ \cup reasons]
    /\ UNCHANGED <<listener, strangers>>

PassBy(c) ==
    /\ attempt[c].phase = "probing"
    /\ \/ Found(c) = Talker /\ Passes(c, {})
       \/ Found(c) = Free /\ Passes(c, {"gone"})
       \/ MayBeSilent(Found(c)) /\ ~RejectsSilence(c)
            /\ Passes(c, IF Found(c) \in Contender THEN {"slow"} ELSE {})
       \/ Found(c) \in Contender /\ ~Matches(Found(c)) /\ Passes(c, {})

\* No candidate could be bound: start over.
BindsNone(c) ==
    /\ attempt[c].phase = "binding" /\ Candidate(c) \notin Port
    /\ Bound(c) = {}
    /\ StartOver(c)
    /\ UNCHANGED strangers

Acquire(c) ==
    /\ attempt[c].phase = "binding" /\ Candidate(c) \notin Port
    /\ Bound(c) # {}
    /\ Turns(c, "held", 1)
    /\ UNCHANGED <<listener, blind, strangers>>

\* release(), the end of the process, or of its worker: the ports are free.
LetGo(c) ==
    /\ attempt[c].phase # "idle"
    /\ StartOver(c)
    /\ UNCHANGED strangers

-----------------------------------------------------------------------------
StrangerCame(p) ==
    /\ strangers < MaxStrangers
    /\ listener[p] = Free
    /\ \E kind \in Stranger : listener' = [listener EXCEPT ![p] = kind]
    /\ strangers' = strangers + 1
    /\ UNCHANGED <<attempt, blind>>

\* An attempt that has passed this port by will not come back to it.
StrangerLeft(p) ==
    /\ listener[p] \in Stranger
    /\ listener' = [listener EXCEPT ![p] = Free]
    /\ blind' = [c \in Contender |-> IF Trying(c) /\ Candidate(c) >= p
                                    THEN blind[c] \cup {"left"} ELSE blind[c]]
    /\ UNCHANGED <<attempt, strangers>>

ContenderStep(c) ==
    \/ Begin(c) \/ Bind(c) \/ FindTaken(c)
    \/ ProbeMatches(c) \/ ProbeRejected(c) \/ PassBy(c)
    \/ BindsNone(c) \/ Acquire(c) \/ LetGo(c)

LockNext ==
    \/ \E c \in Contender : ContenderStep(c)
    \/ \E p \in Port : StrangerCame(p) \/ StrangerLeft(p)

LockSpec == LockInit /\ [][LockNext]_lockVars

-----------------------------------------------------------------------------
(* Each variable has its type; who holds or tries owns what it has bound,  *)
(* and nobody else has a port (closeServers on every way out).             *)
LockTypeOK ==
    /\ listener \in [Port -> Contender \cup Stranger \cup {Free}]
    /\ attempt \in [Contender -> [phase : {"idle", "binding", "probing", "held"},
                                  port : 1..(PortCount + 1)]]
    /\ \A c \in Contender : attempt[c].phase = "idle" => Bound(c) = {}
    /\ blind \in [Contender -> SUBSET {"gone", "slow", "left"}]
    /\ strangers \in 0..MaxStrangers

(* Two processes hold the lock together only if one of them, on its way to *)
(* it, passed by a port that then became the other's: a listener vanished  *)
(* between the failed bind and the probe, a stranger left behind its back, *)
(* or the other answered too late.  The last never misleads an attempt     *)
(* that takes silence for an owner (probeOccupant, rejectLegacyOwner).     *)
LockIsExclusive ==
    \A a, b \in Contender :
        Holds(a) /\ Holds(b) /\ a # b =>
            \E c \in {a, b} : blind[c] \ (IF c \in Strict THEN {"slow"} ELSE {}) # {}
=============================================================================
